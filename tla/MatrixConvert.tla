---------------------------- MODULE MatrixConvert ----------------------------
(***************************************************************************)
(* Conversions between the four sparsity structures and between iso and    *)
(* non-iso (src/Source/convert).  Each operator is a set of outcomes; the  *)
(* last section is GB_conform for a matrix without pending tuples.         *)
(***************************************************************************)
EXTENDS MatrixData

-----------------------------------------------------------------------------
(* The tests with hysteresis that choose a structure *)

SparseToHyperTest(A, k) ==
  A.vdim > 1 /\ k * HyperSwitch.den <= A.vdim * HyperSwitch.num

HyperToSparseTest(A, k) ==
  A.vdim <= 1 \/ k * HyperSwitch.den > 2 * A.vdim * HyperSwitch.num

SparseToBitmapTest(A) ==
  Nnz(A) * BitmapSwitch.den > BitmapSwitch.num * Dense(A)

BitmapToSparseTest(A) ==
  2 * Nnz(A) * BitmapSwitch.den <= BitmapSwitch.num * Dense(A)

\* GB_sparsity_control: a single vector is never hypersparse
SparsityControl(A) ==
  IF A.vdim <= 1 /\ "hyper" \in A.control
    THEN (A.control \ {"hyper"}) \cup {"sparse"}
    ELSE A.control

-----------------------------------------------------------------------------
(* One step conversions *)

FullToBitmap(A) ==
  Done([A EXCEPT !.fmt = "bitmap", !.nvals = Dense(A)]) \cup NoMemory(A)

FullToSparse(A) ==
  Done([A EXCEPT !.fmt = "sparse", !.nvals = Dense(A), !.nne = AllVectors(A)])
    \cup NoMemory(A)

BitmapToSparse(A) ==
  Done([A EXCEPT !.fmt = "sparse", !.nne = Cardinality(Nonempty(A))])
    \cup NoMemory(A)

\* A zombie keeps its vector in the new hyperlist
SparseToHyper(A) ==
  Done([A EXCEPT !.fmt = "hyper", !.h = Nonempty(A),
                 !.nne = Cardinality(Nonempty(A))])
    \cup NoMemory(A)

\* Mutant of HyperToSparse: the hash of the old hyperlist is kept
HyperToSparseKeepsHash(A) ==
  Done([A EXCEPT !.fmt = "sparse", !.h = {}, !.nne = Cardinality(Nonempty(A))])
    \cup NoMemory(A)

\* No memory is needed for a single vector, nor if all vectors are in the list
HyperToSparse(A) ==
  LET all == A.vdim # 1 /\ A.h = 0 .. A.vdim - 1
  IN  Done([A EXCEPT !.fmt = "sparse", !.h = {}, !.Y = NoHash,
                     !.nne = IF all THEN @ ELSE Cardinality(Nonempty(A))])
        \cup (IF A.vdim = 1 \/ all THEN {} ELSE NoMemory(A))

\* Mutant of SparseToBitmap: A->nvals still counts the zombies
SparseToBitmapCountsZombies(A) ==
  Done([A EXCEPT !.fmt = "bitmap",
                 !.entry = [p \in Pos |-> IF @[p] = Zombie THEN Absent ELSE @[p]],
                 !.nzombies = 0, !.nne = AllVectors(A), !.h = {}, !.Y = NoHash,
                 !.jumbled = FALSE, !.unsorted = {}])
    \cup NoMemory(A)

\* GB_convert_s2b: zombies are dropped and the vectors need not be sorted
SparseToBitmap(A) ==
  Done([A EXCEPT !.fmt = "bitmap",
                 !.entry = [p \in Pos |-> IF @[p] = Zombie THEN Absent ELSE @[p]],
                 !.nvals = @ - A.nzombies, !.nzombies = 0,
                 !.nne = AllVectors(A), !.h = {}, !.Y = NoHash,
                 !.jumbled = FALSE, !.unsorted = {}])
    \cup NoMemory(A)

\* GB_convert_any_to_full: the pattern is freed; this cannot fail
AnyToFull(A) ==
  IF A.fmt = "full" THEN A
  ELSE [A EXCEPT !.fmt = "full", !.nvals = 0, !.nne = AllVectors(A),
                 !.h = {}, !.Y = NoHash]

-----------------------------------------------------------------------------
(* From any structure to a given one *)

AnyToSparse(A) ==
  CASE A.fmt = "sparse" -> Done(A)
    [] A.fmt = "hyper"  -> HyperToSparse(A)
    [] A.fmt = "full"   -> FullToSparse(A)
    [] A.fmt = "bitmap" -> BitmapToSparse(A)

AnyToHyper(A) ==
  IF A.fmt = "hyper" THEN Done(A)
  ELSE UNION {Then(r, SparseToHyper(r.m)) : r \in AnyToSparse(A)}

\* GB_convert_any_to_bitmap, once the pending tuples are assembled
AnyToBitmap(A) ==
  CASE A.fmt = "bitmap" -> Done(A)
    [] A.fmt = "full"   -> FullToBitmap(A)
    [] OTHER            -> SparseToBitmap(A)

\* GB_convert_to_nonfull
FullToNonfull(A) ==
  LET c == SparsityControl(A)
  IN  IF "bitmap" \in c \/ c = {"full"} THEN FullToBitmap(A)
      ELSE IF "sparse" \in c THEN FullToSparse(A)
      ELSE AnyToHyper(A)

-----------------------------------------------------------------------------
(* Iso and non-iso *)

AnyToIso(A, v) == Done([A EXCEPT !.iso = v]) \cup NoMemory(PhybixFree(A))

\* The pending tuples of an iso matrix have no values; they get the iso value
\* and the type of the matrix.  Without memory for Pending->x, A stays iso.
AnyToNonIso(A) ==
  LET typed == [A.pend EXCEPT !.type = CType]
      withX == [typed EXCEPT !.tup =
                  [k \in DOMAIN @ |-> [@[k] EXCEPT !.s = A.iso]]]
  IN  CASE A.iso = NotIso -> Done(A)
        [] A.iso # NotIso /\ ~HasPending(A) ->
             Done([A EXCEPT !.iso = NotIso]) \cup NoMemory(PhybixFree(A))
        [] OTHER ->
             Done([A EXCEPT !.iso = NotIso, !.pend = withX])
               \cup NoMemory(PhybixFree(A)) \cup NoMemory([A EXCEPT !.pend = typed])

-----------------------------------------------------------------------------
(* GB_conform *)

\* GB_conform_hyper: choose between sparse and hypersparse
ConformHyper(A) ==
  LET B == UpdateNne(A)
  IN  CASE B.fmt = "sparse" /\ SparseToHyperTest(B, B.nne) -> SparseToHyper(B)
        [] B.fmt = "hyper"  /\ HyperToSparseTest(B, B.nne) -> HyperToSparse(B)
        [] OTHER -> Done(B)

\* Mutant of ConformTarget: any matrix with all entries becomes full
ConformTargetAlwaysFull(A) ==
  LET others == SparsityControl(A) \ {"full"}
  IN  CASE AsIfFull(A) -> {"full"}
        [] ~AsIfFull(A) /\ (others \subseteq {"bitmap"} \/ SparseToBitmapTest(A)) -> {"bitmap"}
        [] OTHER -> others \ {"bitmap"}

\* The structures that the 15 cases of the switch in GB_conform leave to choose
\* from: {"full"}, {"bitmap"}, {"hyper"}, {"sparse"} or {"hyper", "sparse"}
ConformTarget(A) ==
  LET c      == SparsityControl(A)
      others == c \ {"full"}
      bitmap == /\ "bitmap" \in others
                /\ \/ others = {"bitmap"}
                   \/ A.fmt = "full"
                   \/ A.fmt = "bitmap" /\ ~BitmapToSparseTest(A)
                   \/ A.fmt \in {"hyper", "sparse"} /\ SparseToBitmapTest(A)
  IN  CASE "full" \in c /\ AsIfFull(A) -> {"full"}
        [] ~("full" \in c /\ AsIfFull(A)) /\ (bitmap \/ others = {}) -> {"bitmap"}
        [] OTHER -> others \ {"bitmap"}

ConvertTo(A, target) ==
  CASE target = {"full"}   -> Done(AnyToFull(A))
    [] target = {"bitmap"} -> AnyToBitmap(A)
    [] target = {"hyper"}  -> AnyToHyper(A)
    [] target = {"sparse"} -> AnyToSparse(A)
    [] OTHER -> IF A.fmt \in {"full", "bitmap"}
                THEN UNION {Then(r, ConformHyper(r.m)) : r \in AnyToSparse(A)}
                ELSE ConformHyper(A)

\* What GB_conform does before the switch
ConformStart(A) ==
  LET B == UpdateNne(A) IN IF A.nohash THEN HyperHashFree(B) ELSE B

\* GB_conform of a matrix with no pending tuples
ConformSettled(A) == ConvertTo(ConformStart(A), ConformTarget(A))
=============================================================================
