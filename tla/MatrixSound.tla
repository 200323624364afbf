------------------------------ MODULE MatrixSound ------------------------------
(***************************************************************************)
(* What must be true of a GrB_Matrix between two user calls, as predicates *)
(* of a matrix.  GB_matvec_check (src/Source/matrix) asserts the part of   *)
(* it that can be seen from the arrays, in debug builds only.              *)
(***************************************************************************)
EXTENDS MatrixData

-----------------------------------------------------------------------------
(* The structure agrees with its counters, hyperlist and hash *)

EntriesInRange(A) == \A p \in Held(A) : InRange(A, p)

\* A->nvals and A->nzombies agree with what the structure holds; a full
\* matrix holds every position.
CountsExact(A) ==
  /\ A.nzombies = Cardinality(Zombies(A))
  /\ A.fmt # "full" => A.nvals = Cardinality(Held(A))
  /\ A.fmt = "full" => Live(A) = {p \in Pos : InRange(A, p)}

\* The cached count of nonempty vectors is right unless it says "unknown".
NneExact(A) == A.nne # -1 => A.nne = NvecNonempty(A)

\* A hyperlist names every vector that holds an entry, and vectors of the
\* matrix only.  Only a hypersparse matrix has one.
HyperlistCovers(A) ==
  IF A.fmt = "hyper" THEN Nonempty(A) \subseteq A.h /\ A.h \subseteq 0 .. A.vdim - 1
  ELSE A.h = {}

\* The hash finds exactly the vectors of the current hyperlist.
HashMatches(A) == A.Y # NoHash => A.fmt = "hyper" /\ A.Y = A.h

StructureOK(A) ==
  /\ EntriesInRange(A)
  /\ CountsExact(A)
  /\ NneExact(A)
  /\ HyperlistCovers(A)
  /\ HashMatches(A)

-----------------------------------------------------------------------------
(* The deferred work agrees with the structure *)

\* Pending tuples are for positions of the matrix that hold no entry, not even
\* a zombie.
PendingDisjoint(A) == \A p \in PendingPos(A) : InRange(A, p) /\ A.entry[p] = Absent

\* A vector that is out of order is announced by A->jumbled.
JumbledCovers(A) == A.unsorted # {} => A.jumbled

\* A bitmap or full matrix has no work left to do.
DenseSettled(A) == A.fmt \in {"bitmap", "full"} => ~AnyPendingWork(A)

\* Pending->sorted is TRUE only of a list in column major order.
PendingSorted(A) ==
  LET tup == A.pend.tup
      before(p, q) == p[2] < q[2] \/ (p[2] = q[2] /\ p[1] <= q[1])
  IN  A.pend.sorted =>
        \A k \in 1 .. Len(tup) - 1 : before(tup[k].pos, tup[k + 1].pos)

WorkOK(A) ==
  /\ PendingDisjoint(A)
  /\ JumbledCovers(A)
  /\ DenseSettled(A)
  /\ PendingSorted(A)

\* There are always fewer pending tuples than positions (GB_block).
PendingBounded(A) == HasPending(A) => Len(A.pend.tup) < Dense(A)

-----------------------------------------------------------------------------
(* One value stands for all *)

\* All live entries of an iso matrix have the iso value.  Its pending tuples
\* carry no values, while those of a non-iso matrix do, and no operator is
\* needed to merge them (ASSERT in GB_convert_any_to_non_iso).
IsoOK(A) ==
  /\ A.iso # NotIso => \A p \in Live(A) : A.entry[p] = A.iso
  /\ \A k \in DOMAIN A.pend.tup : (A.iso # NotIso) <=> (A.pend.tup[k].s = NoScalar)
  /\ A.iso # NotIso /\ HasPending(A) => A.pend.op = NoOp

-----------------------------------------------------------------------------
(* Nothing but the header is left of a matrix that a failure has freed *)

Freed(A) ==
  /\ A.fmt = "full" /\ Held(A) = {} /\ ~AnyPendingWork(A)
  /\ A.iso = NotIso /\ A.h = {} /\ A.Y = NoHash /\ A.unsorted = {}

MatrixOK(A) ==
  IF A.valid THEN StructureOK(A) /\ WorkOK(A) /\ PendingBounded(A) /\ IsoOK(A)
  ELSE Freed(A)
=============================================================================
