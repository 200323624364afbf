--------------------------- MODULE MatrixWaitProofs ---------------------------
(***************************************************************************)
(* Converting a sound matrix to another structure, and finishing the       *)
(* deferred work of it, give a sound matrix, whatever the dimensions, the  *)
(* values and the controls: first every conversion, GB_conform_hyper and   *)
(* GB_convert_any_to_*, then the steps of GB_wait, GB_block,               *)
(* GrB_Matrix_wait and GB_conform.                                         *)
(***************************************************************************)
EXTENDS MatrixWait, MatrixSound, FiniteSetTheorems, TLAPS

-----------------------------------------------------------------------------
(* The inductive invariant of one matrix: its type, and all of its soundness *)
(* but the bound on the pending tuples, which GB_block restores last.        *)

Good(A) ==
  /\ A \in Matrices
  /\ A.valid  => StructureOK(A) /\ WorkOK(A) /\ IsoOK(A)
  /\ ~A.valid => Freed(A)

\* A good matrix that has not been freed
Ready(A) == Good(A) /\ A.valid

\* B has the size of A, and no deferred work that A does not have: no other
\* pending tuples, no zombies and no unsorted vectors
Fits(A, B) ==
  /\ B.vlen = A.vlen /\ B.vdim = A.vdim
  /\ HasPending(B) => HasPending(A) /\ Len(B.pend.tup) = Len(A.pend.tup)
  /\ B.nzombies > 0 => A.nzombies > 0
  /\ B.jumbled => A.jumbled

\* What a function that is given A, and may run out of memory, promises
Safe(A, S) ==
  \A r \in S : /\ r \in Outcomes /\ Good(r.m) /\ Fits(A, r.m)
               /\ r.info = "SUCCESS" => r.m.valid

-----------------------------------------------------------------------------
(* Sets of positions *)

\* There are finitely many positions.
LEMMA PosFinite == IsFiniteSet(Pos)
  <1>1. 0 \in Int /\ MaxVlen - 1 \in Int /\ MaxVdim - 1 \in Int
    BY DimsAssumption
  <1>2. IsFiniteSet(0 .. MaxVlen - 1) /\ IsFiniteSet(0 .. MaxVdim - 1)
    BY <1>1, FS_Interval
  <1> QED BY <1>2, FS_Product DEF Pos

\* The number of positions of a set is a natural number.
LEMMA CountNat ==
  ASSUME NEW S \in SUBSET Pos
  PROVE  IsFiniteSet(S) /\ Cardinality(S) \in Nat
  BY PosFinite, FS_Subset, FS_CardinalityType

\* So is the number of vectors of a set.
LEMMA CountVectors ==
  ASSUME NEW S \in SUBSET Vectors
  PROVE  IsFiniteSet(S) /\ Cardinality(S) \in Nat
  <1>1. 0 \in Int /\ MaxVdim - 1 \in Int
    BY DimsAssumption
  <1>2. IsFiniteSet(Vectors)
    BY <1>1, FS_Interval DEF Vectors
  <1> QED BY <1>2, FS_Subset, FS_CardinalityType

\* The types of the observers.
LEMMA HeldType ==
  ASSUME NEW A
  PROVE  /\ Held(A) \subseteq Pos /\ Live(A) \subseteq Pos /\ Zombies(A) \subseteq Pos
         /\ Nonempty(A) \subseteq Vectors
  BY DEF Held, Live, Zombies, Nonempty, Pos, Vectors

\* The sets of held, live and deleted positions are finite, so they can be
\* counted.
LEMMA HeldCounts ==
  ASSUME NEW A
  PROVE  /\ Cardinality(Held(A)) \in Nat
         /\ Cardinality(Zombies(A)) \in Nat
         /\ Cardinality(Live(A)) \in Nat
         /\ Cardinality(Nonempty(A)) \in Nat
  BY HeldType, CountNat, CountVectors

\* The dimensions and the number of positions are naturals.
LEMMA DenseNat ==
  ASSUME NEW A \in Matrices
  PROVE  Dense(A) \in Nat /\ AllVectors(A) \in Nat /\ A.vlen \in Nat /\ A.vdim \in Nat
  <1>1. A.vlen \in Nat /\ A.vdim \in Nat
    BY DimsAssumption DEF Matrices
  <1>2. \A m, n \in Nat : m * n \in Nat
    OBVIOUS
  <1> QED BY <1>1, <1>2 DEF Dense, AllVectors

-----------------------------------------------------------------------------
(* What stays when some components of the matrix change *)

\* The observers of the content depend on the entries alone.
LEMMA SameSets ==
  ASSUME NEW A, NEW B, B.entry = A.entry
  PROVE  /\ Held(B) = Held(A) /\ Live(B) = Live(A) /\ Zombies(B) = Zombies(A)
         /\ Nonempty(B) = Nonempty(A)
  BY DEF Held, Live, Zombies, Nonempty

\* A matrix with the entries, the size and the deferred work of a sound one
\* has sound deferred work, if it is sparse, hypersparse or idle.
LEMMA SameWork ==
  ASSUME NEW A \in Matrices, NEW B \in Matrices, WorkOK(A),
         B.entry = A.entry, B.vlen = A.vlen, B.vdim = A.vdim, B.pend = A.pend,
         B.jumbled = A.jumbled, B.unsorted = A.unsorted, B.nzombies = A.nzombies,
         B.fmt \in {"bitmap", "full"} => ~AnyPendingWork(A)
  PROVE  WorkOK(B)
  BY DEF WorkOK, PendingDisjoint, JumbledCovers, DenseSettled, PendingSorted,
         PendingPos, InRange, AnyPendingWork, HasPending

\* Iso soundness depends on the entries, the pending tuples and the iso
\* value.
LEMMA SameIso ==
  ASSUME NEW A, NEW B, IsoOK(A), B.entry = A.entry, B.pend = A.pend, B.iso = A.iso
  PROVE  IsoOK(B)
  BY DEF IsoOK, Live, HasPending

\* A structure with the entries and zombies of a sound one is sound if its
\* own counters, hyperlist and hash are.
LEMMA SameStructure ==
  ASSUME NEW A \in Matrices, NEW B \in Matrices, StructureOK(A),
         B.entry = A.entry, B.vlen = A.vlen, B.vdim = A.vdim, B.nzombies = A.nzombies,
         B.fmt # "full" => B.nvals = Cardinality(Held(A)),
         B.fmt = "full" => Live(A) = {p \in Pos : InRange(A, p)},
         NneExact(B), HyperlistCovers(B), HashMatches(B)
  PROVE  StructureOK(B)
  BY SameSets DEF StructureOK, EntriesInRange, CountsExact, InRange

\* The outcomes of a conversion that takes A to B, or has no memory for it.
LEMMA SafeDone ==
  ASSUME NEW A, NEW B, Ready(B), Fits(A, B)
  PROVE  Safe(A, Done(B)) /\ Safe(A, NoMemory(B))
  BY DEF Safe, Done, NoMemory, Ready, Good, Outcomes

\* A matrix whose content is freed is good, but no longer valid.
LEMMA GoodFreed ==
  ASSUME NEW A, NEW B \in Matrices, B.vlen = A.vlen, B.vdim = A.vdim
  PROVE  LET F == PhybixFree(B)
         IN  Good(F) /\ ~F.valid /\ Fits(A, F) /\ F.nne = 0
  <1> DEFINE F == PhybixFree(B)
  <1>1. F \in Matrices
    <2>1. NoPending \in PendingLists
      BY OpAssumption DEF NoPending, PendingLists
    <2>2. EmptyEntry \in [Pos -> Val \cup {Absent, Zombie}]
      BY DEF EmptyEntry
    <2> QED BY <2>1, <2>2 DEF PhybixFree, Matrices, Formats
  <1>2. F.entry = EmptyEntry /\ F.fmt = "full" /\ F.pend = NoPending /\ F.nzombies = 0
        /\ ~F.jumbled /\ F.iso = NotIso /\ F.h = {} /\ F.Y = NoHash /\ F.unsorted = {}
        /\ ~F.valid /\ F.vlen = A.vlen /\ F.vdim = A.vdim /\ F.nne = 0
    BY DEF PhybixFree, Matrices
  <1> HIDE DEF F
  <1>3. Freed(F)
    BY <1>2 DEF Freed, Held, EmptyEntry, AnyPendingWork, HasPending, NoPending
  <1>4. Good(F) /\ Fits(A, F)
    BY <1>1, <1>2, <1>3 DEF Good, Fits, HasPending, NoPending
  <1> QED BY <1>2, <1>4 DEF F

\* Running out of memory and freeing the content (GB_phybix_free) is safe.
LEMMA SafeFreed ==
  ASSUME NEW A, NEW B \in Matrices, B.vlen = A.vlen, B.vdim = A.vdim
  PROVE  Safe(A, NoMemory(PhybixFree(B)))
  <1>1. Good(PhybixFree(B)) /\ Fits(A, PhybixFree(B))
    BY GoodFreed
  <1> QED BY <1>1 DEF Safe, NoMemory, Outcomes, Good

\* Outcomes that are safe can be put together.
LEMMA SafeUnion ==
  ASSUME NEW A, NEW S, NEW T, Safe(A, S), Safe(A, T)
  PROVE  Safe(A, S \cup T)
  BY DEF Safe

\* The result of one function may be given to another.
LEMMA FitsTrans ==
  ASSUME NEW A, NEW B, NEW D, Fits(A, B), Fits(B, D)
  PROVE  Fits(A, D)
  BY DEF Fits

\* What is safe for a matrix that fits A is safe for A.
LEMMA SafeTrans ==
  ASSUME NEW A, NEW B, NEW S, Fits(A, B), Safe(B, S)
  PROVE  Safe(A, S)
  <1> SUFFICES ASSUME NEW r \in S
               PROVE  /\ r \in Outcomes /\ Good(r.m) /\ Fits(A, r.m)
                      /\ r.info = "SUCCESS" => r.m.valid
    BY DEF Safe
  <1>1. /\ r \in Outcomes /\ Good(r.m) /\ Fits(B, r.m)
        /\ r.info = "SUCCESS" => r.m.valid
    BY DEF Safe
  <1> QED BY <1>1, FitsTrans

\* A matrix of the same size with the same deferred work fits.
LEMMA FitsSame ==
  ASSUME NEW A, NEW B, B.pend = A.pend, B.vlen = A.vlen, B.vdim = A.vdim,
         B.nzombies = A.nzombies, B.jumbled = A.jumbled
  PROVE  Fits(A, B)
  BY DEF Fits, HasPending

\* UpdateNne changes nothing but the cached count, to the right one.
LEMMA SafeUpdateNne ==
  ASSUME NEW A, Ready(A)
  PROVE  /\ Ready(UpdateNne(A)) /\ Fits(A, UpdateNne(A))
         /\ UpdateNne(A).nne = NvecNonempty(A)
         /\ UpdateNne(A) = [A EXCEPT !.nne = NvecNonempty(A)]
  <1> DEFINE B == UpdateNne(A)
  <1>1. A \in Matrices /\ A.valid /\ StructureOK(A) /\ WorkOK(A) /\ IsoOK(A)
    BY DEF Ready, Good
  <1>2. NvecNonempty(A) \in Nat /\ B.nne = NvecNonempty(A)
    BY <1>1, HeldCounts, DenseNat
    DEF UpdateNne, NvecNonempty, Matrices, StructureOK, NneExact
  <1>3. B = [A EXCEPT !.nne = NvecNonempty(A)]
    BY <1>1, <1>2 DEF UpdateNne, Matrices
  <1>4. B \in Matrices
    BY <1>1, <1>2, <1>3 DEF Matrices
  <1> HIDE DEF B
  <1>5. /\ B.entry = A.entry /\ B.vlen = A.vlen /\ B.vdim = A.vdim /\ B.pend = A.pend
        /\ B.jumbled = A.jumbled /\ B.unsorted = A.unsorted /\ B.nzombies = A.nzombies
        /\ B.fmt = A.fmt /\ B.nvals = A.nvals /\ B.h = A.h /\ B.Y = A.Y /\ B.iso = A.iso
        /\ B.valid = A.valid
    BY <1>1, <1>3 DEF Matrices
  <1>6. NneExact(B) /\ HyperlistCovers(B) /\ HashMatches(B)
    BY <1>1, <1>2, <1>5, SameSets
    DEF StructureOK, NneExact, HyperlistCovers, HashMatches, NvecNonempty, AllVectors
  <1>7. StructureOK(B)
    BY <1>1, <1>4, <1>5, <1>6, SameStructure DEF StructureOK, CountsExact
  <1>8. WorkOK(B)
    BY <1>1, <1>4, <1>5, SameWork DEF WorkOK, DenseSettled
  <1>9. IsoOK(B)
    BY <1>1, <1>5, SameIso
  <1>10. Fits(A, B)
    BY <1>5, FitsSame
  <1> QED BY <1>1, <1>2, <1>3, <1>4, <1>5, <1>7, <1>8, <1>9, <1>10 DEF Ready, Good, B

-----------------------------------------------------------------------------
(* One step conversions *)

\* A change of structure that keeps every entry, and all the deferred work.
LEMMA Restructured ==
  ASSUME NEW A, Ready(A), NEW B \in Matrices,
         B.valid, B.entry = A.entry, B.vlen = A.vlen, B.vdim = A.vdim,
         B.pend = A.pend, B.jumbled = A.jumbled, B.unsorted = A.unsorted,
         B.nzombies = A.nzombies, B.iso = A.iso,
         B.fmt # "full" => B.nvals = Cardinality(Held(A)),
         B.fmt = "full" => Live(A) = {p \in Pos : InRange(A, p)},
         B.fmt \in {"bitmap", "full"} => ~AnyPendingWork(A),
         NneExact(B), HyperlistCovers(B), HashMatches(B)
  PROVE  Ready(B) /\ Fits(A, B)
  <1>1. A \in Matrices /\ StructureOK(A) /\ WorkOK(A) /\ IsoOK(A)
    BY DEF Ready, Good
  <1>2. StructureOK(B)
    BY <1>1, SameStructure
  <1>3. WorkOK(B)
    BY <1>1, SameWork
  <1>4. IsoOK(B)
    BY <1>1, SameIso
  <1> QED BY <1>2, <1>3, <1>4, FitsSame DEF Ready, Good

\* The positions inside the matrix: there are vlen * vdim of them.
LEMMA InsideCount ==
  ASSUME NEW A \in Matrices
  PROVE  /\ IsFiniteSet({p \in Pos : InRange(A, p)})
         /\ Cardinality({p \in Pos : InRange(A, p)}) = Dense(A)
  <1> DEFINE rows == 0 .. A.vlen - 1
             cols == 0 .. A.vdim - 1
  <1>1. A.vlen \in 0 .. MaxVlen /\ A.vdim \in 0 .. MaxVdim /\ MaxVlen \in Nat /\ MaxVdim \in Nat
    BY DimsAssumption DEF Matrices
  <1>2. {p \in Pos : InRange(A, p)} = rows \X cols
    BY <1>1 DEF Pos, InRange
  <1>3. 0 \in Int /\ A.vlen - 1 \in Int /\ A.vdim - 1 \in Int
    BY <1>1
  <1>4. /\ IsFiniteSet(rows) /\ IsFiniteSet(cols)
        /\ Cardinality(rows) = IF 0 > A.vlen - 1 THEN 0 ELSE (A.vlen - 1) - 0 + 1
        /\ Cardinality(cols) = IF 0 > A.vdim - 1 THEN 0 ELSE (A.vdim - 1) - 0 + 1
    BY <1>3, FS_Interval
  <1>5. Cardinality(rows) = A.vlen /\ Cardinality(cols) = A.vdim
    BY <1>1, <1>4
  <1> HIDE DEF rows, cols
  <1> QED BY <1>2, <1>4, <1>5, FS_Product DEF Dense

\* A full matrix holds exactly the positions inside it, and no zombies.
LEMMA FullHolds ==
  ASSUME NEW A, Ready(A), A.fmt = "full"
  PROVE  /\ Held(A) = {p \in Pos : InRange(A, p)}
         /\ Cardinality(Held(A)) = Dense(A)
         /\ ~AnyPendingWork(A)
         /\ Cardinality(Nonempty(A)) = AllVectors(A)
  <1>1. A \in Matrices /\ StructureOK(A) /\ WorkOK(A)
    BY DEF Ready, Good
  <1>2. Held(A) = {p \in Pos : InRange(A, p)}
    BY <1>1, ValAssumption DEF StructureOK, EntriesInRange, CountsExact, Held, Live
  <1>3. ~AnyPendingWork(A)
    BY <1>1 DEF WorkOK, DenseSettled
  <1>4. Cardinality(Nonempty(A)) = AllVectors(A)
    <2>1. A.vlen \in 0 .. MaxVlen /\ A.vdim \in 0 .. MaxVdim /\ MaxVlen \in Nat /\ MaxVdim \in Nat
      BY <1>1, DimsAssumption DEF Matrices
    <2>2. Nonempty(A) = IF A.vlen = 0 THEN {} ELSE 0 .. A.vdim - 1
      <3>1. CASE A.vlen = 0
        BY <1>2, <2>1, <3>1 DEF Nonempty, InRange, Pos
      <3>2. CASE A.vlen # 0
        <4>1. \A j \in 0 .. A.vdim - 1 : <<0, j>> \in Held(A) /\ <<0, j>>[2] = j
          BY <1>2, <2>1, <3>2 DEF InRange, Pos
        <4>2. \A p \in Held(A) : p[2] \in 0 .. A.vdim - 1
          BY <1>2, <2>1 DEF InRange, Pos
        <4> QED BY <3>2, <4>1, <4>2 DEF Nonempty
      <3> QED BY <3>1, <3>2
    <2>3. 0 \in Int /\ A.vdim - 1 \in Int
      BY <2>1
    <2>4. Cardinality(0 .. A.vdim - 1) = IF 0 > A.vdim - 1 THEN 0 ELSE (A.vdim - 1) - 0 + 1
      BY <2>3, FS_Interval
    <2> QED BY <2>1, <2>2, <2>4, FS_EmptySet DEF AllVectors
  <1> QED BY <1>1, <1>2, <1>3, <1>4, InsideCount

\* GB_convert_full_to_bitmap keeps the matrix sound.
LEMMA SafeFullToBitmap ==
  ASSUME NEW A, Ready(A), A.fmt = "full"
  PROVE  Safe(A, FullToBitmap(A))
  <1> DEFINE B == [A EXCEPT !.fmt = "bitmap", !.nvals = Dense(A)]
  <1>1. A \in Matrices /\ A.valid /\ StructureOK(A)
    BY DEF Ready, Good
  <1>2. B \in Matrices
    BY <1>1, DenseNat DEF Matrices, Formats
  <1>3. NneExact(B) /\ HyperlistCovers(B) /\ HashMatches(B)
    BY <1>1 DEF Matrices, StructureOK, NneExact, NvecNonempty, AllVectors,
                HyperlistCovers, HashMatches
  <1>4. Ready(B) /\ Fits(A, B) /\ Fits(A, A)
    BY <1>1, <1>2, <1>3, FullHolds, Restructured, FitsSame DEF Matrices
  <1> QED BY <1>4, SafeDone, SafeUnion DEF FullToBitmap

\* GB_convert_full_to_sparse keeps the matrix sound.
LEMMA SafeFullToSparse ==
  ASSUME NEW A, Ready(A), A.fmt = "full"
  PROVE  Safe(A, FullToSparse(A))
  <1> DEFINE B == [A EXCEPT !.fmt = "sparse", !.nvals = Dense(A), !.nne = AllVectors(A)]
  <1>1. A \in Matrices /\ A.valid /\ StructureOK(A)
    BY DEF Ready, Good
  <1>2. B \in Matrices
    BY <1>1, DenseNat DEF Matrices, Formats
  <1>3. NneExact(B) /\ HyperlistCovers(B) /\ HashMatches(B)
    <2>1. B.entry = A.entry /\ B.fmt = "sparse" /\ B.nne = AllVectors(A) /\ B.h = A.h /\ B.Y = A.Y
      BY <1>1 DEF Matrices
    <2>2. Nonempty(B) = Nonempty(A)
      BY <2>1, SameSets
    <2> QED BY <1>1, <2>1, <2>2, FullHolds
            DEF StructureOK, NneExact, NvecNonempty, HyperlistCovers, HashMatches
  <1>4. Ready(B) /\ Fits(A, B) /\ Fits(A, A)
    BY <1>1, <1>2, <1>3, FullHolds, Restructured, FitsSame DEF Matrices
  <1> QED BY <1>4, SafeDone, SafeUnion DEF FullToSparse

\* GB_convert_bitmap_to_sparse keeps the matrix sound.
LEMMA SafeBitmapToSparse ==
  ASSUME NEW A, Ready(A), A.fmt = "bitmap"
  PROVE  Safe(A, BitmapToSparse(A))
  <1> DEFINE B == [A EXCEPT !.fmt = "sparse", !.nne = Cardinality(Nonempty(A))]
  <1>1. A \in Matrices /\ A.valid /\ StructureOK(A)
    BY DEF Ready, Good
  <1>2. B \in Matrices
    BY <1>1, HeldCounts DEF Matrices, Formats
  <1>3. NneExact(B) /\ HyperlistCovers(B) /\ HashMatches(B)
    BY <1>1, SameSets
    DEF Matrices, StructureOK, NneExact, NvecNonempty, HyperlistCovers, HashMatches
  <1>4. Ready(B) /\ Fits(A, B) /\ Fits(A, A)
    BY <1>1, <1>2, <1>3, Restructured, FitsSame DEF Matrices, StructureOK, CountsExact
  <1> QED BY <1>4, SafeDone, SafeUnion DEF BitmapToSparse

\* GB_convert_sparse_to_hyper keeps the matrix sound: its hyperlist covers
\* all entries.
LEMMA SafeSparseToHyper ==
  ASSUME NEW A, Ready(A), A.fmt = "sparse"
  PROVE  Safe(A, SparseToHyper(A))
  <1> DEFINE B == [A EXCEPT !.fmt = "hyper", !.h = Nonempty(A),
                            !.nne = Cardinality(Nonempty(A))]
  <1>1. A \in Matrices /\ A.valid /\ StructureOK(A)
    BY DEF Ready, Good
  <1>2. B \in Matrices
    BY <1>1, HeldCounts, HeldType DEF Matrices, Formats
  <1>3. Nonempty(A) \subseteq 0 .. A.vdim - 1
    BY <1>1, DenseNat DEF StructureOK, EntriesInRange, InRange, Nonempty, Held, Pos
  <1>4. NneExact(B) /\ HyperlistCovers(B) /\ HashMatches(B)
    BY <1>1, <1>3, SameSets
    DEF Matrices, StructureOK, NneExact, NvecNonempty, HyperlistCovers, HashMatches
  <1>5. Ready(B) /\ Fits(A, B) /\ Fits(A, A)
    BY <1>1, <1>2, <1>4, Restructured, FitsSame DEF Matrices, StructureOK, CountsExact
  <1> QED BY <1>5, SafeDone, SafeUnion DEF SparseToHyper

\* GB_convert_hyper_to_sparse keeps the matrix sound: list and hash are
\* dropped.
LEMMA SafeHyperToSparse ==
  ASSUME NEW A, Ready(A), A.fmt = "hyper"
  PROVE  Safe(A, HyperToSparse(A))
  <1> DEFINE all == A.vdim # 1 /\ A.h = 0 .. A.vdim - 1
             B == [A EXCEPT !.fmt = "sparse", !.h = {}, !.Y = NoHash,
                            !.nne = IF all THEN @ ELSE Cardinality(Nonempty(A))]
  <1>1. A \in Matrices /\ A.valid /\ StructureOK(A)
    BY DEF Ready, Good
  <1>2. B \in Matrices
    BY <1>1, HeldCounts DEF Matrices, Formats
  <1>3. NneExact(B) /\ HyperlistCovers(B) /\ HashMatches(B)
    BY <1>1, SameSets
    DEF Matrices, StructureOK, NneExact, NvecNonempty, HyperlistCovers, HashMatches
  <1>4. Ready(B) /\ Fits(A, B) /\ Fits(A, A)
    BY <1>1, <1>2, <1>3, Restructured, FitsSame DEF Matrices, StructureOK, CountsExact
  <1> QED BY <1>4, SafeDone, SafeUnion DEF HyperToSparse

\* What is left when the zombies are dropped.
LEMMA WithoutZombies ==
  ASSUME NEW A, Ready(A), NEW B \in Matrices,
         B.entry = [p \in Pos |-> IF A.entry[p] = Zombie THEN Absent ELSE A.entry[p]]
  PROVE  /\ Held(B) = Live(A) /\ Live(B) = Live(A) /\ Zombies(B) = {}
         /\ Cardinality(Zombies(B)) = 0
         /\ A.fmt # "full" => Cardinality(Held(B)) = A.nvals - A.nzombies
  <1>1. A \in Matrices /\ StructureOK(A)
    BY DEF Ready, Good
  <1>2. A.entry \in [Pos -> Val \cup {Absent, Zombie}]
    BY <1>1 DEF Matrices
  <1>3. Held(B) = Live(A) /\ Live(B) = Live(A) /\ Zombies(B) = {}
    BY <1>2, ValAssumption DEF Held, Live, Zombies
  <1>4. Live(A) = Held(A) \ Zombies(A) /\ Zombies(A) \subseteq Held(A)
    BY <1>2, ValAssumption DEF Held, Live, Zombies
  <1>5. IsFiniteSet(Held(A)) /\ IsFiniteSet(Zombies(A))
    BY HeldType, CountNat
  <1>6. Cardinality(Held(A) \ Zombies(A))
          = Cardinality(Held(A)) - Cardinality(Held(A) \cap Zombies(A))
    BY <1>5, FS_Difference
  <1>7. Held(A) \cap Zombies(A) = Zombies(A)
    BY <1>4
  <1> QED BY <1>1, <1>3, <1>4, <1>6, <1>7, FS_EmptySet DEF StructureOK, CountsExact

\* Zombies are dropped, and A->nvals counts what is left.
LEMMA SafeSparseToBitmap ==
  ASSUME NEW A, Ready(A), A.fmt \in {"hyper", "sparse"}, ~HasPending(A)
  PROVE  Safe(A, SparseToBitmap(A))
  <1> DEFINE live == [p \in Pos |-> IF A.entry[p] = Zombie THEN Absent ELSE A.entry[p]]
             B == [A EXCEPT !.fmt = "bitmap", !.entry = live,
                            !.nvals = @ - A.nzombies, !.nzombies = 0,
                            !.nne = AllVectors(A), !.h = {}, !.Y = NoHash,
                            !.jumbled = FALSE, !.unsorted = {}]
  <1>1. A \in Matrices /\ A.valid /\ StructureOK(A) /\ WorkOK(A) /\ IsoOK(A)
    BY DEF Ready, Good
  <1>2. live \in [Pos -> Val \cup {Absent, Zombie}]
    BY <1>1 DEF Matrices
  <1>3. Cardinality(Live(A)) = A.nvals - A.nzombies /\ A.nvals - A.nzombies \in Nat
    <2> DEFINE L == [A EXCEPT !.entry = live]
    <2>1. L \in Matrices /\ L.entry = live
      BY <1>1, <1>2 DEF Matrices
    <2>2. Held(L) = Live(A) /\ Cardinality(Held(L)) = A.nvals - A.nzombies
      BY <2>1, WithoutZombies
    <2> QED BY <2>2, HeldCounts
  <1>4. B \in Matrices
    BY <1>1, <1>2, <1>3, DenseNat DEF Matrices, Formats
  <1>5. /\ B.fmt = "bitmap" /\ B.entry = live /\ B.nvals = A.nvals - A.nzombies
        /\ B.nzombies = 0 /\ B.nne = AllVectors(A) /\ B.h = {} /\ B.Y = NoHash
        /\ ~B.jumbled /\ B.unsorted = {} /\ B.valid /\ B.vlen = A.vlen
        /\ B.vdim = A.vdim /\ B.pend = A.pend /\ B.iso = A.iso
    BY <1>1 DEF Matrices
  <1> HIDE DEF B
  <1>6. /\ Held(B) = Live(A) /\ Live(B) = Live(A) /\ Cardinality(Zombies(B)) = 0
    BY <1>4, <1>5, WithoutZombies
  <1>7. Live(A) \subseteq Held(A)
    BY ValAssumption DEF Live, Held
  <1>8. StructureOK(B)
    BY <1>1, <1>3, <1>5, <1>6, <1>7
    DEF StructureOK, EntriesInRange, CountsExact, NneExact, HyperlistCovers,
        HashMatches, InRange, NvecNonempty, AllVectors
  <1>9. ~HasPending(B) /\ ~AnyPendingWork(B)
    BY <1>5 DEF HasPending, AnyPendingWork
  <1>10. WorkOK(B)
    <2>1. B.pend.tup = <<>> /\ B.pend.sorted = A.pend.sorted
      BY <1>5 DEF HasPending
    <2> QED BY <1>5, <1>9, <2>1
            DEF WorkOK, PendingDisjoint, PendingPos, JumbledCovers, DenseSettled, PendingSorted
  <1>11. IsoOK(B)
    <2>1. \A p \in Live(A) : B.entry[p] = A.entry[p]
      BY <1>5, ValAssumption DEF Live
    <2>2. A.iso # NotIso => \A p \in Live(B) : B.entry[p] = B.iso
      BY <1>1, <1>5, <1>6, <2>1 DEF IsoOK
    <2>3. B.pend = A.pend /\ B.iso = A.iso
      BY <1>5
    <2> QED BY <1>1, <2>2, <2>3 DEF IsoOK, HasPending
  <1>12. Ready(B) /\ Fits(A, A)
    BY <1>4, <1>5, <1>8, <1>10, <1>11, FitsSame DEF Ready, Good
  <1>13. Fits(A, B)
    BY <1>5, <1>9 DEF Fits
  <1> QED BY <1>12, <1>13, SafeDone, SafeUnion DEF SparseToBitmap, B

\* If the counters say that all positions are held, they are, and are alive.
LEMMA AsIfFullHolds ==
  ASSUME NEW A, Ready(A), AsIfFull(A)
  PROVE  Live(A) = {p \in Pos : InRange(A, p)} /\ ~AnyPendingWork(A)
  <1>1. A \in Matrices /\ StructureOK(A) /\ WorkOK(A)
    BY DEF Ready, Good
  <1>2. CASE A.fmt = "full"
    BY <1>1, <1>2 DEF StructureOK, CountsExact, WorkOK, DenseSettled
  <1>3. CASE A.fmt # "full"
    <2> DEFINE In == {p \in Pos : InRange(A, p)}
    <2>1. ~AnyPendingWork(A) /\ Cardinality(Held(A)) = Dense(A)
      BY <1>1, <1>3 DEF AsIfFull, Nnz, StructureOK, CountsExact
    <2>2. Held(A) \subseteq In
      BY <1>1, HeldType DEF StructureOK, EntriesInRange
    <2>3. IsFiniteSet(In) /\ Cardinality(In) = Dense(A)
      BY <1>1, InsideCount
    <2>4. Held(A) = In
      BY <2>1, <2>2, <2>3, FS_Subset
    <2>5. Zombies(A) = {}
      <3>1. IsFiniteSet(Zombies(A)) /\ Cardinality(Zombies(A)) \in Nat
        BY HeldType, CountNat
      <3>2. Cardinality(Zombies(A)) = 0
        BY <1>1, <2>1, <3>1 DEF AnyPendingWork, StructureOK, CountsExact
      <3> QED BY <3>1, <3>2, FS_EmptySet
    <2>6. Held(A) = Live(A) \cup Zombies(A)
      BY <1>1, ValAssumption DEF Held, Live, Zombies, Matrices
    <2> QED BY <2>1, <2>4, <2>5, <2>6
  <1> QED BY <1>2, <1>3

\* GB_convert_any_to_full keeps a matrix sound that has all entries and no
\* work.
LEMMA SafeAnyToFull ==
  ASSUME NEW A, Ready(A), AsIfFull(A)
  PROVE  Ready(AnyToFull(A)) /\ Fits(A, AnyToFull(A))
  <1> DEFINE B == [A EXCEPT !.fmt = "full", !.nvals = 0, !.nne = AllVectors(A),
                            !.h = {}, !.Y = NoHash]
  <1>1. A \in Matrices /\ A.valid /\ StructureOK(A)
    BY DEF Ready, Good
  <1>2. B \in Matrices
    BY <1>1, DenseNat DEF Matrices, Formats
  <1>3. NneExact(B) /\ HyperlistCovers(B) /\ HashMatches(B)
    BY <1>1 DEF Matrices, NneExact, NvecNonempty, AllVectors, HyperlistCovers, HashMatches
  <1>4. Ready(B) /\ Fits(A, B)
    BY <1>1, <1>2, <1>3, AsIfFullHolds, Restructured DEF Matrices
  <1> QED BY <1>4, FitsSame DEF AnyToFull

-----------------------------------------------------------------------------
(* From any structure to a given one *)

\* A function that succeeds has the result it means to have.
LEMMA DoneResult ==
  ASSUME NEW A, NEW B, NEW r, r.info = "SUCCESS",
         r \in Done(B) \/ r \in NoMemory(A)
  PROVE  r.m = B
  BY DEF Done, NoMemory

\* A conversion gives the structure it is named for.
LEMMA SparseResult ==
  ASSUME NEW A \in Matrices, NEW r, r.info = "SUCCESS",
         \/ r \in HyperToSparse(A)
         \/ r \in FullToSparse(A)
         \/ r \in BitmapToSparse(A)
  PROVE  r.m.fmt = "sparse"
  <1>1. CASE r \in HyperToSparse(A)
    <2> DEFINE all == A.vdim # 1 /\ A.h = 0 .. A.vdim - 1
               B == [A EXCEPT !.fmt = "sparse", !.h = {}, !.Y = NoHash,
                              !.nne = IF all THEN @ ELSE Cardinality(Nonempty(A))]
    <2>1. r \in Done(B) \/ r \in NoMemory(A)
      BY <1>1 DEF HyperToSparse
    <2>2. B.fmt = "sparse"
      BY DEF Matrices
    <2> QED BY <2>1, <2>2, DoneResult
  <1>2. CASE r \in FullToSparse(A)
    <2> DEFINE B == [A EXCEPT !.fmt = "sparse", !.nvals = Dense(A), !.nne = AllVectors(A)]
    <2>1. r \in Done(B) \/ r \in NoMemory(A)
      BY <1>2 DEF FullToSparse
    <2>2. B.fmt = "sparse"
      BY DEF Matrices
    <2> QED BY <2>1, <2>2, DoneResult
  <1>3. CASE r \in BitmapToSparse(A)
    <2> DEFINE B == [A EXCEPT !.fmt = "sparse", !.nne = Cardinality(Nonempty(A))]
    <2>1. r \in Done(B) \/ r \in NoMemory(A)
      BY <1>3 DEF BitmapToSparse
    <2>2. B.fmt = "sparse"
      BY DEF Matrices
    <2> QED BY <2>1, <2>2, DoneResult
  <1> QED BY <1>1, <1>2, <1>3

\* GB_convert_sparse_to_hyper that succeeds gives a hypersparse matrix.
LEMMA HyperResult ==
  ASSUME NEW A \in Matrices, NEW r \in SparseToHyper(A), r.info = "SUCCESS"
  PROVE  r.m.fmt = "hyper"
  <1> DEFINE B == [A EXCEPT !.fmt = "hyper", !.h = Nonempty(A),
                            !.nne = Cardinality(Nonempty(A))]
  <1>1. r \in Done(B) \/ r \in NoMemory(A)
    BY DEF SparseToHyper
  <1>2. B.fmt = "hyper"
    BY DEF Matrices
  <1> QED BY <1>1, <1>2, DoneResult

\* GB_convert_any_to_sparse keeps the matrix sound.
LEMMA SafeAnyToSparse ==
  ASSUME NEW A, Ready(A)
  PROVE  /\ Safe(A, AnyToSparse(A))
         /\ \A r \in AnyToSparse(A) : r.info = "SUCCESS" => r.m.fmt = "sparse"
  <1>1. A \in Matrices /\ A.fmt \in Formats /\ Fits(A, A)
    BY FitsSame DEF Ready, Good, Matrices
  <1>2. Safe(A, AnyToSparse(A))
    BY <1>1, SafeDone, SafeHyperToSparse, SafeFullToSparse, SafeBitmapToSparse
    DEF AnyToSparse, Formats
  <1>3. ASSUME NEW r \in AnyToSparse(A), r.info = "SUCCESS"
        PROVE  r.m.fmt = "sparse"
    <2>1. CASE A.fmt = "sparse"
      BY <1>3, <2>1 DEF AnyToSparse, Done
    <2>2. CASE A.fmt = "hyper"
      <3>1. r \in HyperToSparse(A)
        BY <1>3, <2>2 DEF AnyToSparse
      <3> QED BY <1>1, <1>3, <3>1, SparseResult
    <2>3. CASE A.fmt = "full"
      <3>1. r \in FullToSparse(A)
        BY <1>3, <2>3 DEF AnyToSparse
      <3> QED BY <1>1, <1>3, <3>1, SparseResult
    <2>4. CASE A.fmt = "bitmap"
      <3>1. r \in BitmapToSparse(A)
        BY <1>3, <2>4 DEF AnyToSparse
      <3> QED BY <1>1, <1>3, <3>1, SparseResult
    <2> QED BY <1>1, <2>1, <2>2, <2>3, <2>4 DEF Formats
  <1> QED BY <1>2, <1>3

\* GB_convert_any_to_hyper keeps the matrix sound, and gives a hypersparse
\* one.
LEMMA SafeAnyToHyper ==
  ASSUME NEW A, Ready(A)
  PROVE  /\ Safe(A, AnyToHyper(A))
         /\ \A r \in AnyToHyper(A) : r.info = "SUCCESS" => r.m.fmt = "hyper"
  <1>1. A \in Matrices /\ Fits(A, A)
    BY FitsSame DEF Ready, Good
  <1>2. CASE A.fmt = "hyper"
    BY <1>1, <1>2, SafeDone DEF AnyToHyper, Done
  <1>3. CASE A.fmt # "hyper"
    <2>1. ASSUME NEW r \in AnyToSparse(A), NEW q \in Then(r, SparseToHyper(r.m))
          PROVE  /\ q \in Outcomes /\ Good(q.m) /\ Fits(A, q.m)
                 /\ q.info = "SUCCESS" => q.m.valid /\ q.m.fmt = "hyper"
      <3>1. /\ r \in Outcomes /\ Good(r.m) /\ Fits(A, r.m)
            /\ r.info = "SUCCESS" => r.m.valid /\ r.m.fmt = "sparse"
        BY SafeAnyToSparse DEF Safe
      <3>2. CASE r.info = "SUCCESS"
        <4>1. Ready(r.m) /\ q \in SparseToHyper(r.m)
          BY <3>1, <3>2, <2>1 DEF Ready, Then
        <4>2. Safe(A, SparseToHyper(r.m))
          BY <3>1, <3>2, <4>1, SafeSparseToHyper, SafeTrans
        <4>3. q.info = "SUCCESS" => q.m.fmt = "hyper"
          BY <4>1, HyperResult DEF Ready, Good
        <4> QED BY <4>1, <4>2, <4>3 DEF Safe
      <3>3. CASE r.info # "SUCCESS"
        BY <2>1, <3>1, <3>3 DEF Then
      <3> QED BY <3>2, <3>3
    <2> QED BY <1>3, <2>1 DEF AnyToHyper, Safe
  <1> QED BY <1>2, <1>3

\* A function applied to each outcome that succeeded is safe if it is safe for
\* each of them: the two cases of one outcome.
LEMMA SafeStep ==
  ASSUME NEW A, NEW r, NEW S, NEW q \in Then(r, S),
         r \in Outcomes, Good(r.m), Fits(A, r.m), r.info = "SUCCESS" => Safe(r.m, S)
  PROVE  /\ q \in Outcomes /\ Good(q.m) /\ Fits(A, q.m)
         /\ r.info # "SUCCESS" => q = r
         /\ r.info = "SUCCESS" => q \in S
         /\ q.info = "SUCCESS" => q.m.valid
  <1>1. CASE r.info = "SUCCESS"
    <2>1. q \in S /\ Safe(A, S)
      BY <1>1, SafeTrans DEF Then
    <2> QED BY <1>1, <2>1 DEF Safe
  <1>2. CASE r.info # "SUCCESS"
    BY <1>2 DEF Then
  <1> QED BY <1>1, <1>2

\* GB_convert_any_to_bitmap keeps a matrix without pending tuples sound.
LEMMA SafeAnyToBitmap ==
  ASSUME NEW A, Ready(A), ~HasPending(A)
  PROVE  Safe(A, AnyToBitmap(A))
  <1>1. A.fmt \in Formats /\ Fits(A, A)
    BY FitsSame DEF Ready, Good, Matrices
  <1>2. CASE A.fmt = "bitmap"
    BY <1>1, <1>2, SafeDone DEF AnyToBitmap
  <1>3. CASE A.fmt = "full"
    BY <1>1, <1>3, SafeFullToBitmap DEF AnyToBitmap
  <1>4. CASE A.fmt \in {"hyper", "sparse"}
    BY <1>1, <1>4, SafeSparseToBitmap DEF AnyToBitmap
  <1> QED BY <1>1, <1>2, <1>3, <1>4 DEF Formats

\* GB_convert_to_nonfull keeps the matrix sound.
LEMMA SafeFullToNonfull ==
  ASSUME NEW A, Ready(A), A.fmt = "full"
  PROVE  Safe(A, FullToNonfull(A))
  BY SafeFullToBitmap, SafeFullToSparse, SafeAnyToHyper DEF FullToNonfull

\* The matrix becomes iso if it holds no other value.
LEMMA SafeAnyToIso ==
  ASSUME NEW A, Ready(A), NEW v \in Val, ~HasPending(A),
         \A p \in Live(A) : A.entry[p] = v
  PROVE  Safe(A, AnyToIso(A, v))
  <1> DEFINE B == [A EXCEPT !.iso = v]
  <1>1. A \in Matrices /\ A.valid /\ StructureOK(A) /\ WorkOK(A)
    BY DEF Ready, Good
  <1>2. B \in Matrices
    BY <1>1 DEF Matrices
  <1>3. /\ B.fmt = A.fmt /\ B.entry = A.entry /\ B.nvals = A.nvals /\ B.iso = v
        /\ B.nzombies = A.nzombies /\ B.nne = A.nne /\ B.h = A.h /\ B.Y = A.Y
        /\ B.jumbled = A.jumbled /\ B.unsorted = A.unsorted /\ B.valid = A.valid
        /\ B.vlen = A.vlen /\ B.vdim = A.vdim /\ B.pend = A.pend
    BY <1>1 DEF Matrices
  <1> HIDE DEF B
  <1>4. NneExact(B) /\ HyperlistCovers(B) /\ HashMatches(B)
    BY <1>1, <1>3, SameSets
    DEF StructureOK, NneExact, HyperlistCovers, HashMatches, NvecNonempty, AllVectors
  <1>5. StructureOK(B)
    BY <1>1, <1>2, <1>3, <1>4, SameStructure DEF StructureOK, CountsExact
  <1>6. WorkOK(B)
    BY <1>1, <1>2, <1>3, SameWork DEF WorkOK, DenseSettled
  <1>7. IsoOK(B)
    <2>1. Live(B) = Live(A)
      BY <1>3, SameSets
    <2>2. B.pend.tup = <<>>
      BY <1>3 DEF HasPending
    <2> QED BY <1>3, <2>1, <2>2 DEF IsoOK, HasPending
  <1>8. Ready(B) /\ Fits(A, B)
    BY <1>1, <1>2, <1>3, <1>5, <1>6, <1>7, FitsSame DEF Ready, Good
  <1> QED BY <1>1, <1>8, SafeDone, SafeFreed, SafeUnion DEF AnyToIso, B

\* The value of an iso matrix is given to each entry, and to its pending tuples.
LEMMA SafeAnyToNonIso ==
  ASSUME NEW A, Ready(A)
  PROVE  Safe(A, AnyToNonIso(A))
  <1> DEFINE typed == [A.pend EXCEPT !.type = CType]
             withX == [typed EXCEPT !.tup =
                         [k \in DOMAIN @ |-> [@[k] EXCEPT !.s = A.iso]]]
             B == [A EXCEPT !.iso = NotIso]
             D == [A EXCEPT !.iso = NotIso, !.pend = withX]
             E == [A EXCEPT !.pend = typed]
  <1>1. A \in Matrices /\ A.valid /\ StructureOK(A) /\ WorkOK(A) /\ IsoOK(A)
    BY DEF Ready, Good
  <1>2. CASE A.iso = NotIso
    BY <1>2, SafeDone, FitsSame DEF AnyToNonIso
  <1>3. ASSUME NEW R \in Matrices, A.iso # NotIso, R.valid,
               R.fmt = A.fmt, R.entry = A.entry, R.nvals = A.nvals,
               R.nzombies = A.nzombies, R.nne = A.nne, R.h = A.h, R.Y = A.Y,
               R.jumbled = A.jumbled, R.unsorted = A.unsorted,
               R.vlen = A.vlen, R.vdim = A.vdim,
               R.pend.sorted = A.pend.sorted,
               Len(R.pend.tup) = Len(A.pend.tup),
               \A k \in 1 .. Len(A.pend.tup) : R.pend.tup[k].pos = A.pend.tup[k].pos,
               IsoOK(R)
        PROVE  Ready(R) /\ Fits(A, R)
    <2>1. A.pend.tup \in Seq(Tuples) /\ R.pend.tup \in Seq(Tuples)
      BY <1>1, <1>3 DEF Matrices, PendingLists
    <2>2. DOMAIN A.pend.tup = 1 .. Len(A.pend.tup) /\ DOMAIN R.pend.tup = 1 .. Len(A.pend.tup)
      BY <1>3, <2>1
    <2>3. PendingPos(R) = PendingPos(A)
      BY <1>3, <2>2 DEF PendingPos
    <2>4. HasPending(R) <=> HasPending(A)
      BY <1>3, <2>1 DEF HasPending
    <2>5. NneExact(R) /\ HyperlistCovers(R) /\ HashMatches(R)
      BY <1>1, <1>3, SameSets
      DEF StructureOK, NneExact, HyperlistCovers, HashMatches, NvecNonempty, AllVectors
    <2>6. StructureOK(R)
      BY <1>1, <1>3, <2>5, SameStructure DEF StructureOK, CountsExact
    <2>7. PendingDisjoint(R) /\ JumbledCovers(R) /\ DenseSettled(R)
      BY <1>1, <1>3, <2>3, <2>4
      DEF WorkOK, PendingDisjoint, JumbledCovers, DenseSettled, AnyPendingWork, InRange
    <2>8. PendingSorted(R)
      <3>1. \A k \in 1 .. Len(A.pend.tup) - 1 : k \in 1 .. Len(A.pend.tup)
                                                /\ k + 1 \in 1 .. Len(A.pend.tup)
        BY <2>1
      <3> QED BY <1>1, <1>3, <3>1 DEF WorkOK, PendingSorted
    <2>9. Fits(A, R)
      BY <1>3, <2>4 DEF Fits
    <2> QED BY <1>3, <2>6, <2>7, <2>8, <2>9 DEF Ready, Good, WorkOK
  <1>4. CASE A.iso # NotIso /\ ~HasPending(A)
    <2>1. B \in Matrices
      BY <1>1 DEF Matrices
    <2>2. /\ B.fmt = A.fmt /\ B.entry = A.entry /\ B.nvals = A.nvals /\ B.iso = NotIso
          /\ B.nzombies = A.nzombies /\ B.nne = A.nne /\ B.h = A.h /\ B.Y = A.Y
          /\ B.jumbled = A.jumbled /\ B.unsorted = A.unsorted /\ B.valid = A.valid
          /\ B.vlen = A.vlen /\ B.vdim = A.vdim /\ B.pend = A.pend
      BY <1>1 DEF Matrices
    <2> HIDE DEF B
    <2>3. IsoOK(B)
      <3>1. B.pend.tup = <<>>
        BY <1>4, <2>2 DEF HasPending
      <3> QED BY <2>2, <3>1 DEF IsoOK, HasPending
    <2>4. Ready(B) /\ Fits(A, B)
      BY <1>1, <1>3, <1>4, <2>1, <2>2, <2>3
    <2>5. AnyToNonIso(A) = Done(B) \cup NoMemory(PhybixFree(A))
      BY <1>4 DEF AnyToNonIso, B
    <2> QED BY <1>1, <2>4, <2>5, SafeDone, SafeFreed, SafeUnion
  <1>5. CASE A.iso # NotIso /\ HasPending(A)
    <2> DEFINE list == [k \in DOMAIN A.pend.tup |-> [A.pend.tup[k] EXCEPT !.s = A.iso]]
    <2>1. A.pend \in PendingLists /\ A.pend.tup \in Seq(Tuples) /\ A.iso \in Val
      BY <1>1, <1>5 DEF Matrices, PendingLists
    <2>2. DOMAIN A.pend.tup = 1 .. Len(A.pend.tup) /\ Len(A.pend.tup) \in Nat
      BY <2>1
    <2>3. \A k \in DOMAIN A.pend.tup :
            /\ A.pend.tup[k] \in Tuples
            /\ [A.pend.tup[k] EXCEPT !.s = A.iso] \in Tuples
            /\ [A.pend.tup[k] EXCEPT !.s = A.iso].s = A.iso
            /\ [A.pend.tup[k] EXCEPT !.s = A.iso].pos = A.pend.tup[k].pos
      <3>1. \A k \in DOMAIN A.pend.tup : A.pend.tup[k] \in Tuples
        BY <2>1, <2>2
      <3>2. \A t \in Tuples : /\ [t EXCEPT !.s = A.iso] \in Tuples
                             /\ [t EXCEPT !.s = A.iso].s = A.iso
                             /\ [t EXCEPT !.s = A.iso].pos = t.pos
        BY <2>1 DEF Tuples
      <3> QED BY <3>1, <3>2
    <2>4. list \in Seq(Tuples) /\ Len(list) = Len(A.pend.tup)
          /\ DOMAIN list = DOMAIN A.pend.tup
      BY <2>2, <2>3
    <2>5. typed \in PendingLists /\ typed.tup = A.pend.tup /\ typed.op = A.pend.op
          /\ typed.sorted = A.pend.sorted
      BY <2>1, OpAssumption DEF PendingLists
    <2>6. withX \in PendingLists /\ withX.tup = list /\ withX.op = A.pend.op
          /\ withX.sorted = A.pend.sorted
      <3>1. withX = [typed EXCEPT !.tup = list]
        BY <2>1, <2>5 DEF PendingLists
      <3> HIDE DEF typed, list, withX
      <3> QED BY <2>4, <2>5, <3>1 DEF PendingLists
    <2>9. AnyToNonIso(A) = Done(D) \cup NoMemory(PhybixFree(A)) \cup NoMemory(E)
      BY <1>5 DEF AnyToNonIso
    <2> HIDE DEF list, typed, withX
    <2>7. Ready(D) /\ Fits(A, D)
      <3>1. D \in Matrices
        BY <1>1, <2>6 DEF Matrices
      <3>2. /\ D.fmt = A.fmt /\ D.entry = A.entry /\ D.nvals = A.nvals /\ D.iso = NotIso
            /\ D.nzombies = A.nzombies /\ D.nne = A.nne /\ D.h = A.h /\ D.Y = A.Y
            /\ D.jumbled = A.jumbled /\ D.unsorted = A.unsorted /\ D.valid = A.valid
            /\ D.vlen = A.vlen /\ D.vdim = A.vdim /\ D.pend = withX
        BY <1>1 DEF Matrices
      <3> HIDE DEF D
      <3>3. \A k \in DOMAIN list : list[k].s = A.iso /\ list[k].pos = A.pend.tup[k].pos
        BY <2>3 DEF list
      <3>4. IsoOK(D)
        BY <2>1, <2>6, <3>2, <3>3, ValAssumption DEF IsoOK
      <3>5. \A k \in 1 .. Len(A.pend.tup) : D.pend.tup[k].pos = A.pend.tup[k].pos
        BY <2>2, <2>4, <2>6, <3>2, <3>3
      <3> QED BY <1>1, <1>3, <1>5, <2>4, <2>6, <3>1, <3>2, <3>4, <3>5
    <2>8. Ready(E) /\ Fits(A, E)
      <3>1. E \in Matrices
        BY <1>1, <2>5 DEF Matrices
      <3>2. /\ E.fmt = A.fmt /\ E.entry = A.entry /\ E.nvals = A.nvals /\ E.iso = A.iso
            /\ E.nzombies = A.nzombies /\ E.nne = A.nne /\ E.h = A.h /\ E.Y = A.Y
            /\ E.jumbled = A.jumbled /\ E.unsorted = A.unsorted /\ E.valid = A.valid
            /\ E.vlen = A.vlen /\ E.vdim = A.vdim /\ E.pend = typed
        BY <1>1 DEF Matrices
      <3> HIDE DEF E
      <3>3. Live(E) = Live(A)
        BY <3>2, SameSets
      <3>4. IsoOK(E)
        BY <1>1, <2>5, <3>2, <3>3 DEF IsoOK, HasPending
      <3> QED BY <1>1, <1>3, <1>5, <2>5, <3>1, <3>2, <3>4
    <2> HIDE DEF D, E
    <2>10. Safe(A, Done(D)) /\ Safe(A, NoMemory(PhybixFree(A))) /\ Safe(A, NoMemory(E))
      BY <1>1, <2>7, <2>8, SafeDone, SafeFreed
    <2> QED BY <2>9, <2>10 DEF Safe
  <1> QED BY <1>2, <1>4, <1>5

-----------------------------------------------------------------------------
(* GB_conform *)

\* GB_conform_hyper keeps the matrix sound.
LEMMA SafeConformHyper ==
  ASSUME NEW A, Ready(A)
  PROVE  Safe(A, ConformHyper(A))
  <1> DEFINE B == UpdateNne(A)
  <1>1. Ready(B) /\ Fits(A, B)
    BY SafeUpdateNne
  <1> HIDE DEF B
  <1>2. CASE B.fmt = "sparse" /\ SparseToHyperTest(B, B.nne)
    BY <1>1, <1>2, SafeSparseToHyper, SafeTrans DEF ConformHyper, B
  <1>3. CASE B.fmt = "hyper" /\ HyperToSparseTest(B, B.nne)
    BY <1>1, <1>3, SafeHyperToSparse, SafeTrans DEF ConformHyper, B
  <1>4. CASE /\ ~(B.fmt = "sparse" /\ SparseToHyperTest(B, B.nne))
             /\ ~(B.fmt = "hyper" /\ HyperToSparseTest(B, B.nne))
    BY <1>1, <1>4, SafeDone DEF ConformHyper, B
  <1> QED BY <1>2, <1>3, <1>4

\* Only a matrix with all entries becomes full, and only one without pending
\* tuples may become bitmap.
LEMMA SafeConvertTo ==
  ASSUME NEW A, Ready(A), NEW target,
         target = {"full"} => AsIfFull(A), target = {"bitmap"} => ~HasPending(A)
  PROVE  Safe(A, ConvertTo(A, target))
  <1>1. CASE target = {"full"}
    BY <1>1, SafeAnyToFull, SafeDone DEF ConvertTo
  <1>2. CASE target = {"bitmap"}
    BY <1>2, SafeAnyToBitmap DEF ConvertTo
  <1>3. CASE target = {"hyper"}
    BY <1>3, SafeAnyToHyper DEF ConvertTo
  <1>4. CASE target = {"sparse"}
    BY <1>4, SafeAnyToSparse DEF ConvertTo
  <1>5. CASE target \notin {{"full"}, {"bitmap"}, {"hyper"}, {"sparse"}}
    <2>1. CASE A.fmt \notin {"full", "bitmap"}
      BY <1>5, <2>1, SafeConformHyper DEF ConvertTo
    <2>2. CASE A.fmt \in {"full", "bitmap"}
      <3>1. ConvertTo(A, target) = UNION {Then(r, ConformHyper(r.m)) : r \in AnyToSparse(A)}
        BY <1>5, <2>2 DEF ConvertTo
      <3>2. ASSUME NEW r \in AnyToSparse(A), NEW q \in Then(r, ConformHyper(r.m))
            PROVE  /\ q \in Outcomes /\ Good(q.m) /\ Fits(A, q.m)
                   /\ q.info = "SUCCESS" => q.m.valid
        <4>1. /\ r \in Outcomes /\ Good(r.m) /\ Fits(A, r.m)
              /\ r.info = "SUCCESS" => r.m.valid
          BY SafeAnyToSparse DEF Safe
        <4>2. r.info = "SUCCESS" => Safe(r.m, ConformHyper(r.m))
          BY <4>1, SafeConformHyper DEF Ready
        <4> QED BY <4>1, <4>2, SafeStep
      <3> QED BY <3>1, <3>2 DEF Safe
    <2> QED BY <2>1, <2>2
  <1> QED BY <1>1, <1>2, <1>3, <1>4, <1>5

\* What GB_conform does first keeps the matrix sound and its work as it is.
LEMMA SafeConformStart ==
  ASSUME NEW A, Ready(A)
  PROVE  /\ Ready(ConformStart(A)) /\ Fits(A, ConformStart(A))
         /\ AsIfFull(A) => AsIfFull(ConformStart(A))
         /\ HasPending(ConformStart(A)) <=> HasPending(A)
  <1> DEFINE B == UpdateNne(A)
             D == HyperHashFree(B)
  <1>1. A \in Matrices /\ Ready(B) /\ Fits(A, B) /\ B = [A EXCEPT !.nne = NvecNonempty(A)]
    BY SafeUpdateNne DEF Ready, Good
  <1>2. B.fmt = A.fmt /\ B.vlen = A.vlen /\ B.vdim = A.vdim /\ B.nvals = A.nvals
        /\ B.nzombies = A.nzombies /\ B.jumbled = A.jumbled /\ B.pend = A.pend
    BY <1>1 DEF Matrices
  <1>3. B \in Matrices /\ B.valid /\ StructureOK(B)
    BY <1>1 DEF Ready, Good
  <1> HIDE DEF B
  <1>4. D \in Matrices
    BY <1>3 DEF HyperHashFree, Matrices
  <1>5. /\ D.fmt = B.fmt /\ D.entry = B.entry /\ D.nvals = B.nvals /\ D.iso = B.iso
        /\ D.nzombies = B.nzombies /\ D.nne = B.nne /\ D.h = B.h /\ D.Y = NoHash
        /\ D.jumbled = B.jumbled /\ D.unsorted = B.unsorted /\ D.valid = B.valid
        /\ D.vlen = B.vlen /\ D.vdim = B.vdim /\ D.pend = B.pend
    BY <1>3 DEF HyperHashFree, Matrices
  <1> HIDE DEF D
  <1>6. NneExact(D) /\ HyperlistCovers(D) /\ HashMatches(D)
    BY <1>3, <1>5, SameSets
    DEF StructureOK, NneExact, HyperlistCovers, HashMatches, NvecNonempty, AllVectors
  <1>7. D.fmt \in {"bitmap", "full"} => ~AnyPendingWork(B)
    BY <1>1, <1>5 DEF Ready, Good, WorkOK, DenseSettled
  <1>8. /\ D.fmt # "full" => D.nvals = Cardinality(Held(B))
        /\ D.fmt = "full" => Live(B) = {p \in Pos : InRange(B, p)}
    BY <1>3, <1>5 DEF StructureOK, CountsExact
  <1>9. Ready(D) /\ Fits(B, D)
    BY <1>1, <1>3, <1>4, <1>5, <1>6, <1>7, <1>8, Restructured
  <1>10. Fits(A, D)
    BY <1>1, <1>9, FitsTrans
  <1>11. ASSUME NEW R, R = B \/ R = D
         PROVE  /\ AsIfFull(A) => AsIfFull(R)
                /\ HasPending(R) <=> HasPending(A)
    BY <1>2, <1>5, <1>11 DEF AsIfFull, AnyPendingWork, HasPending, Nnz, Dense
  <1>12. ConformStart(A) = B \/ ConformStart(A) = D
    BY DEF ConformStart, B, D
  <1> QED BY <1>1, <1>2, <1>5, <1>9, <1>10, <1>11, <1>12 DEF HasPending

\* GB_conform only makes a matrix full that has all entries.
LEMMA ConformTargetFull ==
  ASSUME NEW A, ConformTarget(A) = {"full"}
  PROVE  AsIfFull(A)
  BY DEF ConformTarget

\* GB_conform keeps a matrix sound, if bitmap is chosen only when there are no
\* pending tuples.
LEMMA SafeConformSettled ==
  ASSUME NEW A, Ready(A), ConformTarget(A) = {"bitmap"} => ~HasPending(A)
  PROVE  Safe(A, ConformSettled(A))
  <1> DEFINE B == ConformStart(A)
  <1>1. /\ Ready(B) /\ Fits(A, B)
        /\ AsIfFull(A) => AsIfFull(B)
        /\ HasPending(B) <=> HasPending(A)
    BY SafeConformStart
  <1> HIDE DEF B
  <1>2. Safe(B, ConvertTo(B, ConformTarget(A)))
    BY <1>1, ConformTargetFull, SafeConvertTo
  <1> QED BY <1>1, <1>2, SafeTrans DEF ConformSettled, B

\* A matrix that GB_conform leaves hypersparse keeps its hyperlist.
LEMMA ConformKeepsList ==
  ASSUME NEW A, Ready(A), A.fmt = "hyper", NEW r \in ConformSettled(A),
         r.info = "SUCCESS", r.m.fmt = "hyper"
  PROVE  r.m.h = A.h
  <1> DEFINE B == ConformStart(A)
             target == ConformTarget(A)
             U == UpdateNne(B)
  <1>1. B \in Matrices /\ Ready(B) /\ B.fmt = "hyper" /\ B.h = A.h
    <2>1. A \in Matrices /\ UpdateNne(A) = [A EXCEPT !.nne = NvecNonempty(A)] /\ Ready(B)
      BY SafeUpdateNne, SafeConformStart DEF Ready, Good
    <2>2. UpdateNne(A).fmt = "hyper" /\ UpdateNne(A).h = A.h /\ UpdateNne(A) \in Matrices
      BY <2>1, SafeUpdateNne DEF Matrices, Ready, Good
    <2>3. HyperHashFree(UpdateNne(A)).fmt = "hyper" /\ HyperHashFree(UpdateNne(A)).h = A.h
      BY <2>2 DEF HyperHashFree, Matrices
    <2>4. B = UpdateNne(A) \/ B = HyperHashFree(UpdateNne(A))
      BY DEF ConformStart
    <2> HIDE DEF B
    <2> QED BY <2>1, <2>2, <2>3, <2>4 DEF Ready, Good
  <1>2. r \in ConvertTo(B, target)
    BY DEF ConformSettled
  <1> HIDE DEF B, target
  <1>3. r \notin HyperToSparse(B)
    <2>1. r \in HyperToSparse(B) => r.m.fmt = "sparse"
      BY <1>1, SparseResult
    <2> QED BY <2>1
  <1>4. CASE target = {"full"}
    <2>1. r.m = AnyToFull(B)
      BY <1>2, <1>4 DEF ConvertTo, Done
    <2>2. AnyToFull(B).fmt = "full"
      BY <1>1 DEF AnyToFull, Matrices
    <2> QED BY <2>1, <2>2
  <1>5. CASE target = {"bitmap"}
    <2>1. r \in SparseToBitmap(B)
      BY <1>1, <1>2, <1>5 DEF ConvertTo, AnyToBitmap
    <2> DEFINE D == [B EXCEPT !.fmt = "bitmap",
                       !.entry = [p \in Pos |-> IF @[p] = Zombie THEN Absent ELSE @[p]],
                       !.nvals = @ - B.nzombies, !.nzombies = 0,
                       !.nne = AllVectors(B), !.h = {}, !.Y = NoHash,
                       !.jumbled = FALSE, !.unsorted = {}]
    <2>2. r \in Done(D) \/ r \in NoMemory(B)
      BY <2>1 DEF SparseToBitmap
    <2>3. D.fmt = "bitmap"
      BY <1>1 DEF Matrices
    <2> HIDE DEF D
    <2> QED BY <2>2, <2>3, DoneResult
  <1>6. CASE target = {"hyper"}
    BY <1>1, <1>2, <1>6 DEF ConvertTo, AnyToHyper, Done
  <1>7. CASE target = {"sparse"}
    BY <1>1, <1>2, <1>3, <1>7 DEF ConvertTo, AnyToSparse
  <1>8. CASE target \notin {{"full"}, {"bitmap"}, {"hyper"}, {"sparse"}}
    <2>1. r \in ConformHyper(B)
      BY <1>1, <1>2, <1>8 DEF ConvertTo
    <2>2. U = [B EXCEPT !.nne = NvecNonempty(B)] /\ Ready(U)
      BY <1>1, SafeUpdateNne
    <2>3. U \in Matrices /\ U.fmt = "hyper" /\ U.h = B.h
      BY <1>1, <2>2 DEF Matrices, Ready, Good
    <2>4. r \in HyperToSparse(U) \/ r \in Done(U)
      BY <2>1, <2>3 DEF ConformHyper
    <2> HIDE DEF U
    <2>5. r \in HyperToSparse(U) => r.m.fmt = "sparse"
      BY <2>3, SparseResult
    <2> QED BY <1>1, <2>3, <2>4, <2>5 DEF Done
  <1> QED BY <1>4, <1>5, <1>6, <1>7, <1>8

-----------------------------------------------------------------------------
(* Natural numbers *)

\* Every set of natural numbers that is not empty has a least element: the
\* order of the intervals 0 .. k by inclusion is well founded.
LEMMA LeastNat ==
  ASSUME NEW S \in SUBSET Nat, S # {}
  PROVE  \E m \in S : \A k \in S : m <= k
  <1> DEFINE T == {0 .. k : k \in S}
             R == StrictSubsetOrdering(Nat)
  <1>1. IsWellFoundedOn(R, FiniteSubsetsOf(Nat))
    BY FS_StrictSubsetOrderingWellFounded
  <1>2. \A k \in S : 0 .. k \in FiniteSubsetsOf(Nat)
    <2> SUFFICES ASSUME NEW k \in S PROVE 0 .. k \in FiniteSubsetsOf(Nat)
      OBVIOUS
    <2>1. k \in Int /\ 0 \in Int /\ 0 .. k \subseteq Nat
      OBVIOUS
    <2>2. IsFiniteSet(0 .. k)
      BY <2>1, FS_Interval
    <2> QED BY <2>1, <2>2 DEF FiniteSubsetsOf
  <1>3. T \subseteq FiniteSubsetsOf(Nat) /\ T # {}
    BY <1>2
  <1>4. PICK x \in T : \A y \in T : <<y, x>> \notin R
    BY <1>1, <1>3, WFMin
  <1>5. PICK m \in S : x = 0 .. m
    BY <1>4
  <1>6. ASSUME NEW k \in S, k < m
        PROVE  FALSE
    <2>1. 0 .. k \in T /\ 0 .. k \subseteq 0 .. m /\ 0 .. k # 0 .. m
      <3>1. m \in 0 .. m /\ m \notin 0 .. k
        BY <1>6
      <3> QED BY <1>6, <3>1
    <2>2. <<0 .. k, 0 .. m>> \in R
      BY <2>1 DEF StrictSubsetOrdering
    <2> QED BY <1>4, <1>5, <2>1, <2>2
  <1> QED BY <1>6

\* A set of positions in a sequence that is not empty has a maximum.
LEMMA MaxIn ==
  ASSUME NEW n \in Nat, NEW K, K # {}, \A k \in K : k \in Int /\ 0 <= k /\ k <= n
  PROVE  Max(K) \in K /\ \A k \in K : Max(K) >= k
  <1> DEFINE U == {u \in Nat : \A k \in K : u >= k}
  <1>1. n \in U
    OBVIOUS
  <1>2. PICK m \in U : \A u \in U : m <= u
    BY <1>1, LeastNat
  <1>3. m \in K
    <2>1. SUFFICES ASSUME m \notin K PROVE FALSE
      OBVIOUS
    <2>2. \A k \in K : m - 1 >= k
      BY <1>2, <2>1
    <2>3. PICK k \in K : TRUE
      OBVIOUS
    <2>4. m - 1 \in Nat
      BY <1>2, <2>2, <2>3
    <2> QED BY <1>2, <2>2, <2>4
  <1>4. \E x \in K : \A y \in K : x >= y
    BY <1>2, <1>3
  <1> QED BY <1>4 DEF Max

-----------------------------------------------------------------------------
(* The value that the pending tuples of one position build *)

\* There is a function v that has the value after each tuple, and the values
\* are values of the matrix type: the tuples are added in order, each to values
\* that are there already.
LEMMA BuiltUpTo ==
  ASSUME NEW A, A.pend \in PendingLists, NEW K,
         \A k \in K : k \in Int /\ 1 <= k /\ k <= Len(A.pend.tup),
         \A k \in K : A.pend.tup[k].s \in Val
  PROVE  \E v \in [K -> Val] : \A k \in K : v[k] = ValueAfter(A, K, v, k)
  <1> DEFINE n == Len(A.pend.tup)
             upto(m) == {k \in K : k <= m}
             Built(m) == \E v \in [upto(m) -> Val] :
                           \A k \in upto(m) : v[k] = ValueAfter(A, K, v, k)
             Bad == {m \in 0 .. n : ~Built(m)}
  <1>1. /\ n \in Nat /\ A.pend.type \in Types /\ A.pend.op \in Ops
        /\ \A k \in K : k \in Int /\ 1 <= k /\ k <= n
    BY DEF PendingLists
  <1> HIDE DEF n
  <1>2. Built(0)
    <2>1. upto(0) = {}
      BY <1>1
    <2>2. [k \in {} |-> k] \in [upto(0) -> Val]
      BY <2>1
    <2> QED BY <2>1, <2>2
  <1>3. ASSUME NEW m \in 0 .. n, m # 0, Built(m - 1)
        PROVE  Built(m)
    <2>1. PICK v \in [upto(m - 1) -> Val] :
                 \A k \in upto(m - 1) : v[k] = ValueAfter(A, K, v, k)
      BY <1>3
    <2>2. CASE m \notin K
      <3>1. upto(m) = upto(m - 1)
        BY <1>1, <1>3, <2>2
      <3> QED BY <2>1, <3>1
    <2>3. CASE m \in K
      <3> DEFINE new == ValueAfter(A, K, v, m)
                 w == [k \in upto(m) |-> IF k = m THEN new ELSE v[k]]
      <3>1. upto(m) = upto(m - 1) \cup {m} /\ m \notin upto(m - 1)
        <4>1. m \in Int /\ m - 1 \in Int /\ ~(m <= m - 1)
          BY <1>1, <1>3
        <4>2. \A k \in K : k <= m <=> (k <= m - 1 \/ k = m)
          BY <1>1, <4>1
        <4> QED BY <2>3, <4>1, <4>2
      <3>2. ASSUME NEW k \in upto(m), {l \in K : l < k} # {}
            PROVE  Max({l \in K : l < k}) \in upto(m - 1)
        <4> DEFINE L == {l \in K : l < k}
        <4>1. /\ L # {} /\ n \in Nat
              /\ \A l \in L : l \in Int /\ 0 <= l /\ l <= n
          BY <1>1, <3>2
        <4> HIDE DEF L
        <4>2. Max(L) \in L
          BY <4>1, MaxIn
        <4> USE DEF L
        <4> QED BY <1>1, <1>3, <3>2, <4>2
      <3>3. new \in Val
        <4>1. A.pend.tup[m].s \in Val
          BY <2>3
        <4>2. CASE {l \in K : l < m} = {}
          BY <1>1, <4>1, <4>2, OpAssumption DEF ValueAfter
        <4>3. CASE {l \in K : l < m} # {}
          <5>1. v[Max({l \in K : l < m})] \in Val
            BY <2>1, <3>1, <3>2, <4>3
          <5> QED BY <1>1, <4>1, <4>3, <5>1, OpAssumption DEF ValueAfter
        <4> QED BY <4>2, <4>3
      <3> HIDE DEF new
      <3>4. w \in [upto(m) -> Val]
        BY <2>1, <3>1, <3>3
      <3>5. \A k \in upto(m - 1) : w[k] = v[k]
        BY <3>1
      <3>6. \A k \in upto(m) : w[k] = ValueAfter(A, K, v, k)
        BY <2>1, <3>1 DEF new
      <3> HIDE DEF w, upto
      <3>7. \A k \in upto(m) : ValueAfter(A, K, w, k) = ValueAfter(A, K, v, k)
        BY <3>2, <3>5 DEF ValueAfter
      <3> QED BY <3>4, <3>6, <3>7
    <2> QED BY <2>2, <2>3
  <1>4. Built(n)
    <2>1. SUFFICES ASSUME ~Built(n) PROVE FALSE
      OBVIOUS
    <2> HIDE DEF Built
    <2>2. n \in Bad /\ Bad \subseteq Nat
      BY <1>1, <2>1
    <2>3. PICK m \in Bad : \A k \in Bad : m <= k
      BY <2>2, LeastNat
    <2>4. m # 0 /\ m \in 0 .. n /\ ~Built(m)
      BY <1>2, <2>3
    <2>5. m - 1 \in 0 .. n /\ m - 1 \notin Bad
      BY <1>1, <2>3, <2>4
    <2> QED BY <1>3, <2>4, <2>5
  <1>5. upto(n) = K
    BY <1>1
  <1> QED BY <1>4, <1>5

\* What is built is a value of the matrix type.
LEMMA AssembledType ==
  ASSUME NEW A \in Matrices, IsoOK(A), NEW p \in PendingPos(A)
  PROVE  Assembled(A, p) \in Val
  <1> DEFINE K == PendingAt(A, p)
             value == CHOOSE v \in [K -> Val] : \A k \in K : v[k] = ValueAfter(A, K, v, k)
  <1>1. A.pend \in PendingLists /\ A.pend.tup \in Seq(Tuples) /\ A.iso \in Val \cup {NotIso}
    BY DEF Matrices, PendingLists
  <1>2. Len(A.pend.tup) \in Nat /\ DOMAIN A.pend.tup = 1 .. Len(A.pend.tup)
    BY <1>1
  <1>3. /\ K # {}
        /\ \A k \in K : k \in Int /\ 1 <= k /\ k <= Len(A.pend.tup)
    BY <1>2 DEF PendingAt, PendingPos
  <1>4. CASE A.iso # NotIso
    BY <1>1, <1>4 DEF Assembled
  <1>5. CASE A.iso = NotIso
    <2>1. \A k \in K : A.pend.tup[k].s \in Val
      <3>1. \A k \in K : A.pend.tup[k] \in Tuples /\ A.pend.tup[k].s # NoScalar
        BY <1>1, <1>2, <1>3, <1>5 DEF IsoOK
      <3> QED BY <3>1 DEF Tuples
    <2> HIDE DEF K
    <2>2. value \in [K -> Val]
      BY <1>1, <1>3, <2>1, BuiltUpTo
    <2>3. Max(K) \in K
      BY <1>2, <1>3, MaxIn
    <2>4. Assembled(A, p) = value[Max(K)]
      BY <1>5 DEF Assembled, K
    <2> HIDE DEF value
    <2> QED BY <2>2, <2>3, <2>4
  <1> QED BY <1>4, <1>5

-----------------------------------------------------------------------------
(* The parts of GB_wait *)

\* The pending tuples make a sound matrix of their own, disjoint from A.
LEMMA ReadyBuildPending ==
  ASSUME NEW A, Ready(A)
  PROVE  LET T == BuildPending(A)
         IN  /\ Ready(T) /\ T.fmt = "hyper" /\ ~AnyPendingWork(T) /\ ~HasPending(T)
             /\ T.vlen = A.vlen /\ T.vdim = A.vdim /\ T.iso = A.iso
             /\ Held(T) = PendingPos(A) /\ Live(T) = PendingPos(A)
  <1> DEFINE held == PendingPos(A)
             vecs == {p[2] : p \in held}
             content == [p \in Pos |-> IF p \in held THEN Assembled(A, p) ELSE Absent]
             T == BuildPending(A)
  <1>1. A \in Matrices /\ A.valid /\ WorkOK(A) /\ IsoOK(A)
    BY DEF Ready, Good
  <1>2. held \subseteq Pos
    <2>1. A.pend.tup \in Seq(Tuples)
      BY <1>1 DEF Matrices, PendingLists
    <2>2. \A k \in DOMAIN A.pend.tup : A.pend.tup[k] \in Tuples
      BY <2>1
    <2> QED BY <2>2 DEF PendingPos, Tuples
  <1>3. vecs \subseteq Vectors
    BY <1>2 DEF Pos, Vectors
  <1>4. content \in [Pos -> Val \cup {Absent, Zombie}]
    BY <1>1, AssembledType
  <1>5. Cardinality(held) \in Nat /\ Cardinality(vecs) \in Nat
    BY <1>2, <1>3, CountNat, CountVectors
  <1>6. NoPending \in PendingLists /\ Formats \in (SUBSET Formats) \ {{}} /\ "hyper" \in Formats
    BY OpAssumption DEF NoPending, PendingLists, Formats
  <1>7. T = [A EXCEPT !.fmt = "hyper", !.entry = content,
                      !.nvals = Cardinality(held), !.nzombies = 0,
                      !.nne = Cardinality(vecs), !.h = vecs, !.Y = NoHash,
                      !.jumbled = FALSE, !.unsorted = {}, !.pend = NoPending,
                      !.control = Formats, !.nohash = FALSE]
    BY DEF BuildPending
  <1> HIDE DEF T, held, vecs, content
  <1>8. T \in Matrices
    BY <1>1, <1>3, <1>4, <1>5, <1>6, <1>7 DEF Matrices
  <1>9. /\ T.fmt = "hyper" /\ T.entry = content /\ T.nvals = Cardinality(held)
        /\ T.nzombies = 0 /\ T.nne = Cardinality(vecs) /\ T.h = vecs /\ T.Y = NoHash
        /\ ~T.jumbled /\ T.unsorted = {} /\ T.pend = NoPending /\ T.valid
        /\ T.vlen = A.vlen /\ T.vdim = A.vdim /\ T.iso = A.iso
    BY <1>1, <1>7 DEF Matrices
  <1>10. Held(T) = held /\ Live(T) = held /\ Zombies(T) = {}
    <2>1. \A p \in held : Assembled(A, p) \in Val
      BY <1>1, AssembledType DEF held
    <2> QED BY <1>2, <1>9, <2>1, ValAssumption DEF Held, Live, Zombies, content
  <1>11. Nonempty(T) = vecs
    BY <1>10 DEF Nonempty, vecs
  <1>12. \A p \in held : InRange(A, p) /\ p[2] \in 0 .. A.vdim - 1
    BY <1>1, <1>2, DenseNat DEF WorkOK, PendingDisjoint, InRange, Pos, held
  <1>13. StructureOK(T)
    <2>1. EntriesInRange(T)
      BY <1>9, <1>10, <1>12 DEF EntriesInRange, InRange
    <2>2. CountsExact(T)
      BY <1>9, <1>10, FS_EmptySet DEF CountsExact
    <2>3. vecs \subseteq 0 .. A.vdim - 1
      BY <1>12 DEF vecs
    <2>4. NneExact(T) /\ HyperlistCovers(T) /\ HashMatches(T)
      BY <1>9, <1>11, <2>3 DEF NneExact, NvecNonempty, HyperlistCovers, HashMatches
    <2> QED BY <2>1, <2>2, <2>4 DEF StructureOK
  <1>14. ~HasPending(T) /\ ~AnyPendingWork(T)
    BY <1>9 DEF HasPending, AnyPendingWork, NoPending
  <1>15. WorkOK(T)
    BY <1>9, <1>14
    DEF WorkOK, PendingDisjoint, PendingPos, JumbledCovers, DenseSettled, PendingSorted, NoPending
  <1>16. IsoOK(T)
    <2>1. A.iso # NotIso => \A p \in held : T.entry[p] = A.iso
      BY <1>2, <1>9 DEF content, Assembled
    <2> QED BY <1>9, <1>10, <2>1 DEF IsoOK, HasPending, NoPending
  <1>17. Ready(T)
    BY <1>8, <1>9, <1>13, <1>15, <1>16 DEF Ready, Good
  <1> QED BY <1>9, <1>10, <1>14, <1>17 DEF T, held

\* B has the entries of A, in the same structure.
SameContent(A, B) ==
  /\ B.vlen = A.vlen /\ B.vdim = A.vdim /\ B.iso = A.iso /\ B.entry = A.entry
  /\ B.fmt = A.fmt

\* Counting the nonempty vectors leaves the content alone.
LEMMA UpdateNneContent ==
  ASSUME NEW A, Ready(A)
  PROVE  SameContent(A, UpdateNne(A))
  <1>1. A \in Matrices /\ UpdateNne(A) = [A EXCEPT !.nne = NvecNonempty(A)]
    BY SafeUpdateNne DEF Ready, Good
  <1> QED BY <1>1 DEF SameContent, Matrices

\* GB_unjumble sorts all vectors and keeps the rest of the matrix.
LEMMA SafeUnjumble ==
  ASSUME NEW A, Ready(A)
  PROVE  /\ Safe(A, Unjumble(A))
         /\ \A r \in Unjumble(A) :
              r.info = "SUCCESS" => ~r.m.jumbled /\ SameContent(A, r.m)
  <1> DEFINE B == UpdateNne(A)
             D == [B EXCEPT !.jumbled = FALSE, !.unsorted = {}]
  <1>1. Ready(B) /\ Fits(A, B) /\ SameContent(A, B) /\ B.jumbled = A.jumbled
    <2>1. A \in Matrices /\ B = [A EXCEPT !.nne = NvecNonempty(A)]
      BY SafeUpdateNne DEF Ready, Good
    <2>2. B.jumbled = A.jumbled
      BY <2>1 DEF Matrices
    <2> QED BY <2>2, SafeUpdateNne, UpdateNneContent
  <1> HIDE DEF B
  <1>2. B \in Matrices /\ B.valid /\ StructureOK(B) /\ WorkOK(B) /\ IsoOK(B)
    BY <1>1 DEF Ready, Good
  <1>3. D \in Matrices
    BY <1>2 DEF Matrices
  <1>4. /\ D.fmt = B.fmt /\ D.entry = B.entry /\ D.nvals = B.nvals /\ D.iso = B.iso
        /\ D.nzombies = B.nzombies /\ D.nne = B.nne /\ D.h = B.h /\ D.Y = B.Y
        /\ ~D.jumbled /\ D.unsorted = {} /\ D.valid = B.valid
        /\ D.vlen = B.vlen /\ D.vdim = B.vdim /\ D.pend = B.pend
    BY <1>2 DEF Matrices
  <1> HIDE DEF D
  <1>5. NneExact(D) /\ HyperlistCovers(D) /\ HashMatches(D)
    BY <1>2, <1>4, SameSets
    DEF StructureOK, NneExact, HyperlistCovers, HashMatches, NvecNonempty, AllVectors
  <1>6. StructureOK(D)
    BY <1>2, <1>3, <1>4, <1>5, SameStructure DEF StructureOK, CountsExact
  <1>7. WorkOK(D)
    BY <1>2, <1>4
    DEF WorkOK, PendingDisjoint, JumbledCovers, DenseSettled, PendingSorted,
        PendingPos, InRange, AnyPendingWork, HasPending
  <1>8. IsoOK(D)
    BY <1>2, <1>4, SameIso
  <1>9. Ready(D) /\ Fits(B, D) /\ SameContent(B, D)
    BY <1>2, <1>3, <1>4, <1>6, <1>7, <1>8 DEF Ready, Good, Fits, HasPending, SameContent
  <1>10. Fits(A, D) /\ SameContent(A, D)
    BY <1>1, <1>9, FitsTrans DEF SameContent
  <1>11. CASE ~A.jumbled
    <2>1. Unjumble(A) = Done(B)
      BY <1>11 DEF Unjumble, B
    <2> QED BY <1>1, <1>11, <2>1, SafeDone DEF Done
  <1>12. CASE A.jumbled
    <2>1. Unjumble(A) = Done(D) \cup NoMemory(B)
      BY <1>12 DEF Unjumble, B, D
    <2>2. Safe(A, Done(D) \cup NoMemory(B))
      BY <1>1, <1>9, <1>10, SafeDone, SafeUnion
    <2> QED BY <1>4, <1>10, <2>1, <2>2, DoneResult
  <1> QED BY <1>11, <1>12

\* GB_hyper_prune drops empty vectors only.
LEMMA SafeHyperPrune ==
  ASSUME NEW A, Ready(A)
  PROVE  /\ Safe(A, HyperPrune(A))
         /\ \A r \in HyperPrune(A) : r.info = "SUCCESS" => SameContent(A, r.m)
  <1> DEFINE B == UpdateNne(A)
             D == [B EXCEPT !.h = Nonempty(B), !.Y = NoHash,
                            !.nne = Cardinality(Nonempty(B))]
  <1>1. Ready(B) /\ Fits(A, B) /\ SameContent(A, B)
    BY SafeUpdateNne, UpdateNneContent
  <1>2. CASE A.fmt # "hyper"
    <2>1. HyperPrune(A) = Done(A)
      BY <1>2 DEF HyperPrune
    <2>2. Safe(A, Done(A)) /\ SameContent(A, A)
      BY SafeDone, FitsSame DEF SameContent
    <2> QED BY <2>1, <2>2, DoneResult
  <1> HIDE DEF B
  <1>3. CASE A.fmt = "hyper" /\ B.nne = Cardinality(B.h)
    <2>1. HyperPrune(A) = Done(B)
      BY <1>3 DEF HyperPrune, B
    <2> QED BY <1>1, <2>1, SafeDone DEF Done
  <1>4. CASE A.fmt = "hyper" /\ B.nne # Cardinality(B.h)
    <2>1. B \in Matrices /\ B.valid /\ StructureOK(B) /\ B.fmt = "hyper"
      BY <1>1, <1>4 DEF Ready, Good, SameContent
    <2>2. D \in Matrices
      BY <2>1, HeldType, HeldCounts DEF Matrices
    <2>3. /\ D.fmt = B.fmt /\ D.entry = B.entry /\ D.nvals = B.nvals /\ D.iso = B.iso
          /\ D.nzombies = B.nzombies /\ D.nne = Cardinality(Nonempty(B))
          /\ D.h = Nonempty(B) /\ D.Y = NoHash
          /\ D.jumbled = B.jumbled /\ D.unsorted = B.unsorted /\ D.valid = B.valid
          /\ D.vlen = B.vlen /\ D.vdim = B.vdim /\ D.pend = B.pend
      BY <2>1 DEF Matrices
    <2> HIDE DEF D
    <2>4. Nonempty(B) \subseteq 0 .. B.vdim - 1
      BY <2>1, DenseNat DEF StructureOK, EntriesInRange, InRange, Nonempty, Held, Pos
    <2>5. NneExact(D) /\ HyperlistCovers(D) /\ HashMatches(D)
      BY <2>1, <2>3, <2>4, SameSets DEF NneExact, NvecNonempty, HyperlistCovers, HashMatches
    <2>6. Ready(D) /\ Fits(B, D) /\ SameContent(B, D)
      BY <1>1, <2>1, <2>2, <2>3, <2>5, Restructured DEF StructureOK, CountsExact, SameContent
    <2>7. Fits(A, D) /\ SameContent(A, D)
      BY <1>1, <2>6, FitsTrans DEF SameContent
    <2>8. HyperPrune(A) = Done(D) \cup NoMemory(B)
      BY <1>4 DEF HyperPrune, B, D
    <2>9. Safe(A, Done(D) \cup NoMemory(B))
      BY <1>1, <2>6, <2>7, SafeDone, SafeUnion
    <2> QED BY <2>7, <2>8, <2>9, DoneResult
  <1> QED BY <1>2, <1>3, <1>4

-----------------------------------------------------------------------------
(* Transplant *)

\* C takes over T, and is full if T has all entries.
LEMMA ReadyTransplant ==
  ASSUME NEW A \in Matrices, NEW T, Ready(T)
  PROVE  LET B == Transplant(A, T)
         IN  /\ Ready(B) /\ Fits(T, B) /\ B.fmt \in {T.fmt, "full"}
             /\ B.vlen = T.vlen /\ B.vdim = T.vdim /\ B.iso = T.iso /\ B.entry = T.entry
             /\ B.h = T.h /\ B.Y \in {T.Y, NoHash}
             /\ B.fmt = "full" => AsIfFull(T)
             /\ T.fmt = "hyper" => B.fmt = "hyper"
  <1> DEFINE full == T.fmt = "full" \/ (T.fmt = "sparse" /\ AsIfFull(T))
             B == Transplant(A, T)
  <1>1. T \in Matrices /\ T.valid /\ StructureOK(T) /\ WorkOK(T) /\ IsoOK(T)
    BY DEF Ready, Good
  <1>2. B = [T EXCEPT !.fmt = IF full THEN "full" ELSE @,
                      !.nvals = IF full THEN 0 ELSE @,
                      !.Y = IF T.fmt = "hyper" /\ ~A.nohash THEN @ ELSE NoHash,
                      !.control = A.control, !.nohash = A.nohash]
    BY DEF Transplant
  <1>3. full => AsIfFull(T)
    BY DEF AsIfFull
  <1> HIDE DEF full, B
  <1>4. B \in Matrices
    <2> DEFINE f == IF full THEN "full" ELSE T.fmt
               n == IF full THEN 0 ELSE T.nvals
               y == IF T.fmt = "hyper" /\ ~A.nohash THEN T.Y ELSE NoHash
    <2>1. f \in Formats /\ n \in Nat /\ y \in (SUBSET Vectors) \cup {NoHash}
      BY <1>1 DEF Matrices, Formats
    <2>2. A.control \in (SUBSET Formats) \ {{}} /\ A.nohash \in BOOLEAN
      BY DEF Matrices
    <2>3. B = [T EXCEPT !.fmt = f, !.nvals = n, !.Y = y,
                        !.control = A.control, !.nohash = A.nohash]
      BY <1>2
    <2> HIDE DEF f, n, y
    <2> QED BY <1>1, <2>1, <2>2, <2>3 DEF Matrices
  <1>5. /\ B.fmt = IF full THEN "full" ELSE T.fmt
        /\ B.nvals = IF full THEN 0 ELSE T.nvals
        /\ B.Y = IF T.fmt = "hyper" /\ ~A.nohash THEN T.Y ELSE NoHash
        /\ B.entry = T.entry /\ B.iso = T.iso /\ B.nzombies = T.nzombies
        /\ B.nne = T.nne /\ B.h = T.h /\ B.jumbled = T.jumbled
        /\ B.unsorted = T.unsorted /\ B.valid = T.valid
        /\ B.vlen = T.vlen /\ B.vdim = T.vdim /\ B.pend = T.pend
    BY <1>1, <1>2 DEF Matrices
  <1>6. full => T.fmt \in {"full", "sparse"} /\ Live(T) = {p \in Pos : InRange(T, p)}
                /\ ~AnyPendingWork(T) /\ T.h = {}
    BY <1>1, <1>3, AsIfFullHolds DEF full, StructureOK, HyperlistCovers
  <1>7. NneExact(B) /\ HyperlistCovers(B) /\ HashMatches(B)
    <2>1. CASE full
      <3>1. B.nne # -1 => B.nne = AllVectors(T)
        <4>1. Ready([T EXCEPT !.fmt = "full", !.nvals = 0, !.nne = AllVectors(T),
                              !.h = {}, !.Y = NoHash]) \/ T.fmt = "full"
          BY <1>3, <2>1, SafeAnyToFull DEF AnyToFull
        <4> DEFINE F == [T EXCEPT !.fmt = "full", !.nvals = 0, !.nne = AllVectors(T),
                                  !.h = {}, !.Y = NoHash]
        <4>2. CASE T.fmt = "full"
          BY <1>1, <1>5, <4>2 DEF StructureOK, NneExact, NvecNonempty
        <4>3. CASE T.fmt # "full"
          <5>1. Ready(F) /\ F.fmt = "full" /\ F.entry = T.entry /\ F.vlen = T.vlen
                /\ F.vdim = T.vdim
            BY <1>1, <4>1, <4>3 DEF Matrices
          <5> HIDE DEF F
          <5>2. Cardinality(Nonempty(T)) = AllVectors(T)
            <6>1. Cardinality(Nonempty(F)) = AllVectors(F)
              BY <5>1, FullHolds
            <6>2. Nonempty(F) = Nonempty(T) /\ AllVectors(F) = AllVectors(T)
              BY <5>1, SameSets DEF AllVectors
            <6> QED BY <6>1, <6>2
          <5>3. T.fmt = "sparse"
            BY <1>6, <2>1, <4>3
          <5> QED BY <1>1, <1>5, <5>2, <5>3 DEF StructureOK, NneExact, NvecNonempty
        <4> QED BY <4>2, <4>3
      <3> QED BY <1>1, <1>5, <1>6, <2>1, <3>1
              DEF NneExact, NvecNonempty, HyperlistCovers, HashMatches, AllVectors,
                  StructureOK
    <2>2. CASE ~full
      BY <1>1, <1>5, <2>2, SameSets
      DEF StructureOK, NneExact, HyperlistCovers, HashMatches, NvecNonempty, AllVectors
    <2> QED BY <2>1, <2>2
  <1>8. B.fmt \in {"bitmap", "full"} => ~AnyPendingWork(T)
    BY <1>1, <1>5, <1>6 DEF WorkOK, DenseSettled
  <1>9. /\ B.fmt # "full" => B.nvals = Cardinality(Held(T))
        /\ B.fmt = "full" => Live(T) = {p \in Pos : InRange(T, p)}
    BY <1>1, <1>5, <1>6 DEF StructureOK, CountsExact
  <1>10. Ready(B) /\ Fits(T, B)
    BY <1>1, <1>4, <1>5, <1>7, <1>8, <1>9, Restructured
  <1>11. B.fmt = "full" => AsIfFull(T)
    BY <1>3, <1>5 DEF AsIfFull
  <1>12. T.fmt = "hyper" => B.fmt = "hyper"
    BY <1>5 DEF full
  <1> QED BY <1>5, <1>10, <1>11, <1>12 DEF B

\* GB_transplant_conform, of a T without pending tuples.
LEMMA SafeTransplantConform ==
  ASSUME NEW A \in Matrices, NEW T, Ready(T), ~HasPending(T)
  PROVE  Safe(T, TransplantConform(A, T))
  <1> DEFINE B == Transplant(A, T)
  <1>1. Ready(B) /\ Fits(T, B)
    BY ReadyTransplant
  <1> HIDE DEF B
  <1>2. ~HasPending(B)
    BY <1>1 DEF Fits
  <1>3. Safe(B, ConformSettled(B))
    BY <1>1, <1>2, SafeConformSettled
  <1> QED BY <1>1, <1>3, SafeTrans DEF TransplantConform, B

-----------------------------------------------------------------------------
(* Zombies and pending tuples *)

\* What is left of A is held by A already.
Within(A, B) ==
  /\ B.vlen = A.vlen /\ B.vdim = A.vdim /\ B.iso = A.iso
  /\ Held(B) \subseteq Held(A)

\* Pruning zombies with the selector keeps the live entries and leaves no
\* zombie.
LEMMA SafeRemoveZombies ==
  ASSUME NEW A, Ready(A), ~HasPending(A), A.fmt \in {"hyper", "sparse"}
  PROVE  /\ Safe(A, RemoveZombies(A))
         /\ \A r \in RemoveZombies(A) :
              r.info = "SUCCESS" => /\ r.m.nzombies = 0 /\ Within(A, r.m)
                                    /\ r.m.fmt \in {"hyper", "sparse", "full"}
  <1> DEFINE live == [p \in Pos |-> IF A.entry[p] = Zombie THEN Absent ELSE A.entry[p]]
             W == [A EXCEPT !.entry = live, !.nvals = @ - A.nzombies,
                            !.nzombies = 0, !.Y = NoHash]
             B == [W EXCEPT !.nne = Cardinality(Nonempty(W))]
  <1>1. A \in Matrices /\ A.valid /\ StructureOK(A) /\ WorkOK(A) /\ IsoOK(A)
    BY DEF Ready, Good
  <1>2. CASE A.nzombies = 0
    <2>1. RemoveZombies(A) = Done(A)
      BY <1>2 DEF RemoveZombies
    <2>2. Safe(A, Done(A)) /\ Within(A, A)
      BY SafeDone, FitsSame DEF Within
    <2> QED BY <1>2, <2>1, <2>2, DoneResult
  <1>3. live \in [Pos -> Val \cup {Absent, Zombie}]
    BY <1>1 DEF Matrices
  <1>4. Cardinality(Live(A)) = A.nvals - A.nzombies /\ A.nvals - A.nzombies \in Nat
    <2> DEFINE L == [A EXCEPT !.entry = live]
    <2>1. L \in Matrices /\ L.entry = live
      BY <1>1, <1>3 DEF Matrices
    <2>2. Held(L) = Live(A) /\ Cardinality(Held(L)) = A.nvals - A.nzombies
      BY <2>1, WithoutZombies
    <2> QED BY <2>2, HeldCounts
  <1>5. W \in Matrices
    BY <1>1, <1>3, <1>4 DEF Matrices
  <1>6. /\ W.fmt = A.fmt /\ W.entry = live /\ W.nvals = A.nvals - A.nzombies
        /\ W.iso = A.iso /\ W.nzombies = 0 /\ W.nne = A.nne /\ W.h = A.h /\ W.Y = NoHash
        /\ W.jumbled = A.jumbled /\ W.unsorted = A.unsorted /\ W.valid = A.valid
        /\ W.vlen = A.vlen /\ W.vdim = A.vdim /\ W.pend = A.pend
    BY <1>1 DEF Matrices
  <1> HIDE DEF W
  <1>7. B \in Matrices
    BY <1>5, HeldCounts DEF Matrices
  <1>8. /\ B.fmt = A.fmt /\ B.entry = live /\ B.nvals = A.nvals - A.nzombies
        /\ B.iso = A.iso /\ B.nzombies = 0 /\ B.nne = Cardinality(Nonempty(W))
        /\ B.h = A.h /\ B.Y = NoHash
        /\ B.jumbled = A.jumbled /\ B.unsorted = A.unsorted /\ B.valid = A.valid
        /\ B.vlen = A.vlen /\ B.vdim = A.vdim /\ B.pend = A.pend
    BY <1>5, <1>6 DEF Matrices
  <1> HIDE DEF B
  <1>9. Held(B) = Live(A) /\ Live(B) = Live(A) /\ Cardinality(Zombies(B)) = 0
    BY <1>7, <1>8, WithoutZombies
  <1>10. Live(A) \subseteq Held(A) /\ Nonempty(B) \subseteq Nonempty(A)
    BY <1>9, ValAssumption DEF Live, Held, Nonempty
  <1>11. Nonempty(W) = Nonempty(B)
    BY <1>6, <1>8, SameSets
  <1>12. StructureOK(B)
    BY <1>1, <1>4, <1>8, <1>9, <1>10, <1>11
    DEF StructureOK, EntriesInRange, CountsExact, NneExact, HyperlistCovers,
        HashMatches, InRange, NvecNonempty
  <1>13. ~HasPending(B) /\ B.pend.tup = <<>> /\ A.pend.tup = <<>>
    BY <1>8 DEF HasPending
  <1>14. WorkOK(B)
    BY <1>1, <1>8, <1>13
    DEF WorkOK, PendingDisjoint, PendingPos, JumbledCovers, DenseSettled, PendingSorted
  <1>15. IsoOK(B)
    <2>1. \A p \in Live(A) : B.entry[p] = A.entry[p]
      BY <1>8, ValAssumption DEF Live
    <2> QED BY <1>1, <1>8, <1>9, <1>13, <2>1 DEF IsoOK, HasPending
  <1>16. Ready(B) /\ Fits(A, B)
    BY <1>1, <1>7, <1>8, <1>12, <1>13, <1>14, <1>15 DEF Ready, Good, Fits
  <1>17. CASE A.nzombies # 0
    <2>1. RemoveZombies(A)
            = NoMemory(A) \cup UNION {Then(r, Done(Transplant(A, r.m))) : r \in HyperPrune(B)}
      BY <1>17 DEF RemoveZombies, B, W, live
    <2> DEFINE Fine(q) == /\ q \in Outcomes /\ Good(q.m) /\ Fits(A, q.m)
                          /\ q.info = "SUCCESS" =>
                               /\ q.m.valid /\ q.m.nzombies = 0 /\ Within(A, q.m)
                               /\ q.m.fmt \in {"hyper", "sparse", "full"}
    <2>2. ASSUME NEW r \in HyperPrune(B), NEW q \in Then(r, Done(Transplant(A, r.m)))
          PROVE  Fine(q)
      <3> DEFINE D == Transplant(A, r.m)
      <3>1. /\ r \in Outcomes /\ Good(r.m) /\ Fits(B, r.m) /\ Fits(A, r.m)
            /\ r.info = "SUCCESS" => r.m.valid /\ SameContent(B, r.m)
        BY <1>16, SafeHyperPrune, FitsTrans DEF Safe
      <3>2. CASE r.info # "SUCCESS"
        BY <2>2, <3>1, <3>2 DEF Then
      <3>3. CASE r.info = "SUCCESS"
        <4>1. Ready(r.m) /\ q \in Done(D)
          BY <2>2, <3>1, <3>3 DEF Then, Ready
        <4>2. /\ Ready(D) /\ Fits(r.m, D) /\ D.fmt \in {r.m.fmt, "full"}
              /\ D.vlen = r.m.vlen /\ D.vdim = r.m.vdim /\ D.iso = r.m.iso
              /\ D.entry = r.m.entry
          BY <1>1, <4>1, ReadyTransplant
        <4> HIDE DEF D
        <4>3. Fits(B, D) /\ Fits(A, D)
          BY <3>1, <4>2, FitsTrans
        <4>4. D.nzombies = 0
          BY <1>8, <4>2, <4>3 DEF Fits, Ready, Good, Matrices
        <4>5. Within(A, D)
          <5>1. D.entry = B.entry
            BY <3>1, <3>3, <4>2 DEF SameContent
          <5> QED BY <1>8, <1>9, <1>10, <3>1, <3>3, <4>2, <5>1, SameSets
                  DEF Within, SameContent
        <4>6. D.fmt \in {"hyper", "sparse", "full"}
          BY <1>8, <3>1, <3>3, <4>2 DEF SameContent
        <4>7. Safe(A, Done(D)) /\ (q.info = "SUCCESS" => q.m = D)
          BY <4>1, <4>2, <4>3, SafeDone DEF Done
        <4> QED BY <4>1, <4>4, <4>5, <4>6, <4>7 DEF Safe
      <3> QED BY <3>2, <3>3
    <2>3. \A q \in NoMemory(A) : Fine(q)
      <3>1. Safe(A, NoMemory(A))
        BY SafeDone, FitsSame
      <3>2. \A q \in NoMemory(A) : q.info # "SUCCESS"
        BY DEF NoMemory
      <3> QED BY <3>1, <3>2 DEF Safe
    <2>4. ASSUME NEW q \in RemoveZombies(A)
          PROVE  Fine(q)
      <3>1. \/ q \in NoMemory(A)
            \/ \E r \in HyperPrune(B) : q \in Then(r, Done(Transplant(A, r.m)))
        BY <2>1, <2>4
      <3> HIDE DEF Fine
      <3> QED BY <2>2, <2>3, <3>1
    <2> QED BY <2>4 DEF Safe
  <1> QED BY <1>2, <1>17

\* A and its pending tuples T, which are disjoint, are merged entry by entry.
LEMMA ReadyAddPending ==
  ASSUME NEW A, Ready(A), ~HasPending(A), A.fmt \in {"hyper", "sparse"},
         NEW T, Ready(T), T.fmt = "hyper", T.vlen = A.vlen, T.vdim = A.vdim,
         T.iso = A.iso, Held(A) \cap Held(T) = {}, Live(T) = Held(T)
  PROVE  LET S == AddPending(A, T)
         IN  /\ Ready(S) /\ Fits(A, S) /\ ~HasPending(S) /\ S.fmt = A.fmt
             /\ S.Y = NoHash /\ (A.fmt = "hyper" => S.h = A.h \cup T.h)
  <1> DEFINE content == [p \in Pos |-> IF T.entry[p] # Absent THEN T.entry[p] ELSE A.entry[p]]
             list == IF A.fmt = "hyper" THEN A.h \cup T.h ELSE A.h
             S == [A EXCEPT !.fmt = A.fmt, !.entry = content, !.h = list, !.Y = NoHash]
             B == [S EXCEPT !.nvals = Cardinality(Held(S)), !.nne = Cardinality(Nonempty(S))]
  <1>1. /\ A \in Matrices /\ A.valid /\ StructureOK(A) /\ WorkOK(A) /\ IsoOK(A)
        /\ T \in Matrices /\ StructureOK(T) /\ IsoOK(T)
    BY DEF Ready, Good
  <1>2. content \in [Pos -> Val \cup {Absent, Zombie}] /\ list \in SUBSET Vectors
    BY <1>1 DEF Matrices
  <1>3. AddPending(A, T) = B
    <2>1. S = [A EXCEPT !.fmt = A.fmt,
                     !.entry = [p \in Pos |-> IF T.entry[p] # Absent
                                              THEN T.entry[p] ELSE A.entry[p]],
                     !.h = IF A.fmt = "hyper" THEN @ \cup T.h ELSE @,
                     !.Y = NoHash]
      OBVIOUS
    <2> HIDE DEF S
    <2> QED BY <2>1 DEF AddPending
  <1>4. S \in Matrices
    BY <1>1, <1>2 DEF Matrices
  <1>5. /\ S.fmt = A.fmt /\ S.entry = content /\ S.nvals = A.nvals
        /\ S.iso = A.iso /\ S.nzombies = A.nzombies /\ S.nne = A.nne /\ S.h = list
        /\ S.Y = NoHash /\ S.jumbled = A.jumbled /\ S.unsorted = A.unsorted
        /\ S.valid = A.valid /\ S.vlen = A.vlen /\ S.vdim = A.vdim /\ S.pend = A.pend
    BY <1>1 DEF Matrices
  <1> HIDE DEF S
  <1>6. B \in Matrices
    BY <1>4, HeldCounts DEF Matrices
  <1>7. /\ B.fmt = A.fmt /\ B.entry = content /\ B.nvals = Cardinality(Held(S))
        /\ B.iso = A.iso /\ B.nzombies = A.nzombies /\ B.nne = Cardinality(Nonempty(S))
        /\ B.h = list /\ B.Y = NoHash /\ B.jumbled = A.jumbled /\ B.unsorted = A.unsorted
        /\ B.valid = A.valid /\ B.vlen = A.vlen /\ B.vdim = A.vdim /\ B.pend = A.pend
    BY <1>4, <1>5 DEF Matrices
  <1> HIDE DEF B
  <1>8. /\ Held(B) = Held(A) \cup Held(T) /\ Live(B) = Live(A) \cup Live(T)
        /\ Zombies(B) = Zombies(A)
        /\ \A p \in Held(T) : B.entry[p] = T.entry[p]
        /\ \A p \in Held(A) : B.entry[p] = A.entry[p]
    BY <1>7, ValAssumption DEF Held, Live, Zombies
  <1>9. Nonempty(B) = Nonempty(A) \cup Nonempty(T)
    BY <1>8 DEF Nonempty
  <1>10. Held(S) = Held(B) /\ Nonempty(S) = Nonempty(B)
    BY <1>5, <1>7, SameSets
  <1>11. StructureOK(B)
    <2>1. EntriesInRange(B)
      BY <1>1, <1>7, <1>8 DEF StructureOK, EntriesInRange, InRange
    <2>2. CountsExact(B)
      BY <1>1, <1>7, <1>8, <1>10 DEF StructureOK, CountsExact
    <2>3. NneExact(B) /\ HashMatches(B)
      BY <1>7, <1>10 DEF NneExact, NvecNonempty, HashMatches
    <2>4. HyperlistCovers(B)
      BY <1>1, <1>7, <1>9 DEF StructureOK, HyperlistCovers
    <2> QED BY <2>1, <2>2, <2>3, <2>4 DEF StructureOK
  <1>12. B.pend.tup = <<>> /\ A.pend.tup = <<>> /\ ~HasPending(B)
    BY <1>7 DEF HasPending
  <1>13. WorkOK(B)
    BY <1>1, <1>7, <1>12
    DEF WorkOK, PendingDisjoint, PendingPos, JumbledCovers, DenseSettled, PendingSorted
  <1>14. IsoOK(B)
    <2>1. A.iso # NotIso => \A p \in Live(B) : B.entry[p] = A.iso
      BY <1>1, <1>8 DEF IsoOK, Live, Held
    <2>2. B.pend = A.pend /\ B.iso = A.iso
      BY <1>7
    <2>3. B.iso # NotIso => \A p \in Live(B) : B.entry[p] = B.iso
      BY <2>1, <2>2
    <2> QED BY <1>1, <2>2, <2>3 DEF IsoOK, HasPending
  <1>15. Ready(B) /\ Fits(A, B)
    BY <1>1, <1>6, <1>7, <1>11, <1>12, <1>13, <1>14 DEF Ready, Good, Fits
  <1> QED BY <1>3, <1>7, <1>12, <1>15

\* The old hash is put back on a hyperlist that has not changed.
LEMMA ReadyHashed ==
  ASSUME NEW A, Ready(A), A.fmt = "hyper"
  PROVE  LET B == [A EXCEPT !.Y = A.h] IN Ready(B) /\ Fits(A, B)
  <1> DEFINE B == [A EXCEPT !.Y = A.h]
  <1>1. A \in Matrices /\ A.valid /\ StructureOK(A)
    BY DEF Ready, Good
  <1>2. B \in Matrices
    BY <1>1 DEF Matrices
  <1>3. /\ B.fmt = A.fmt /\ B.entry = A.entry /\ B.nvals = A.nvals /\ B.iso = A.iso
        /\ B.nzombies = A.nzombies /\ B.nne = A.nne /\ B.h = A.h /\ B.Y = A.h
        /\ B.jumbled = A.jumbled /\ B.unsorted = A.unsorted /\ B.valid = A.valid
        /\ B.vlen = A.vlen /\ B.vdim = A.vdim /\ B.pend = A.pend
    BY <1>1 DEF Matrices
  <1> HIDE DEF B
  <1>4. NneExact(B) /\ HyperlistCovers(B) /\ HashMatches(B)
    BY <1>1, <1>3, SameSets
    DEF StructureOK, NneExact, HyperlistCovers, HashMatches, NvecNonempty, AllVectors
  <1>5. Ready(B) /\ Fits(A, B)
    BY <1>1, <1>2, <1>3, <1>4, Restructured DEF StructureOK, CountsExact
  <1> QED BY <1>5 DEF B

\* Merging the assembled tuples into A keeps it sound: the hash that is put
\* back is that of the hyperlist.
LEMMA SafeMergePending ==
  ASSUME NEW A, Ready(A), ~HasPending(A), A.fmt \in {"hyper", "sparse"},
         NEW T, Ready(T), T.fmt = "hyper", T.vlen = A.vlen, T.vdim = A.vdim,
         T.iso = A.iso, Held(A) \cap Held(T) = {}, Live(T) = Held(T)
  PROVE  Safe(A, MergePending(A, T))
  <1> DEFINE S == AddPending(A, T)
             B == Transplant(A, S)
             keep == A.fmt = "hyper" /\ ~A.nohash /\ A.Y # NoHash /\ S.h = A.h
             restored(m) == IF keep /\ m.fmt = "hyper" /\ m.Y = NoHash
                            THEN [m EXCEPT !.Y = A.Y] ELSE m
             put(r) == IF r.info = "SUCCESS" THEN [r EXCEPT !.m = restored(@)] ELSE r
  <1>1. /\ Ready(S) /\ Fits(A, S) /\ ~HasPending(S) /\ S.fmt = A.fmt
        /\ A \in Matrices /\ HashMatches(A)
    BY ReadyAddPending DEF Ready, Good, StructureOK
  <1> HIDE DEF S
  <1>2. Safe(A, TransplantConform(A, S))
    BY <1>1, SafeTransplantConform, SafeTrans
  <1>3. ASSUME NEW r \in TransplantConform(A, S)
        PROVE  put(r) \in Outcomes /\ Good(put(r).m) /\ Fits(A, put(r).m)
               /\ (put(r).info = "SUCCESS" => put(r).m.valid)
    <2>1. /\ r \in Outcomes /\ Good(r.m) /\ Fits(A, r.m)
          /\ r.info = "SUCCESS" => r.m.valid
      BY <1>2 DEF Safe
    <2>2. CASE ~(r.info = "SUCCESS" /\ keep /\ r.m.fmt = "hyper" /\ r.m.Y = NoHash)
      <3>1. put(r) = r
        BY <2>1, <2>2 DEF Outcomes
      <3> QED BY <2>1, <3>1
    <2>3. CASE r.info = "SUCCESS" /\ keep /\ r.m.fmt = "hyper" /\ r.m.Y = NoHash
      <3>1. Ready(B) /\ B.fmt = "hyper" /\ B.h = S.h
        BY <1>1, <2>3, ReadyTransplant
      <3>2. r \in ConformSettled(B)
        BY DEF TransplantConform
      <3> HIDE DEF B
      <3>3. r.m.h = B.h
        BY <1>1, <2>3, <3>1, <3>2, ConformKeepsList
      <3>4. A.Y = A.h /\ r.m.h = A.h
        BY <1>1, <2>3, <3>1, <3>3 DEF HashMatches
      <3> DEFINE D == [r.m EXCEPT !.Y = r.m.h]
      <3>5. Ready(r.m) /\ Ready(D) /\ Fits(r.m, D)
        BY <2>1, <2>3, ReadyHashed DEF Ready
      <3>6. put(r) = [r EXCEPT !.m = D]
        BY <2>3, <3>4
      <3> HIDE DEF D
      <3>7. put(r) \in Outcomes /\ put(r).m = D
        BY <2>1, <3>5, <3>6 DEF Outcomes, Ready, Good
      <3> HIDE DEF put
      <3> QED BY <2>1, <3>5, <3>7, FitsTrans DEF Ready
    <2> QED BY <2>2, <2>3
  <1>4. MergePending(A, T) = {put(r) : r \in TransplantConform(A, S)} \cup NoMemory(A)
    BY DEF MergePending, S
  <1>5. Safe(A, NoMemory(A))
    BY SafeDone, FitsSame
  <1> HIDE DEF put
  <1> QED BY <1>3, <1>4, <1>5 DEF Safe

\* A function that fits a matrix without deferred work leaves none.
LEMMA FitsIdle ==
  ASSUME NEW A \in Matrices, NEW B \in Matrices, Fits(A, B), ~AnyPendingWork(A)
  PROVE  ~AnyPendingWork(B)
  BY DEF Fits, AnyPendingWork, Matrices

\* All of the deferred work is finished, or the matrix is sound as it is.
Finished(A, S) ==
  /\ Safe(A, S)
  /\ \A r \in S : r.info = "SUCCESS" => ~AnyPendingWork(r.m)

\* Whether it succeeds or fails, no deferred work is left.
Settled(A, S) == Safe(A, S) /\ \A r \in S : ~AnyPendingWork(r.m)

\* What is safe for an idle matrix leaves no deferred work.
LEMMA SettledFits ==
  ASSUME NEW A, NEW B \in Matrices, ~AnyPendingWork(B), Fits(A, B), NEW S, Safe(B, S)
  PROVE  Settled(A, S)
  <1>1. Safe(A, S)
    BY SafeTrans
  <1>2. ASSUME NEW r \in S
        PROVE  ~AnyPendingWork(r.m)
    <2>1. r.m \in Matrices /\ Fits(B, r.m)
      BY <1>2 DEF Safe, Good
    <2> QED BY <2>1, FitsIdle
  <1> QED BY <1>1, <1>2 DEF Settled

\* The matrix without its pending tuples, which GB_wait moves to T first.
LEMMA ReadyUnpended ==
  ASSUME NEW A, Ready(A)
  PROVE  LET B == [A EXCEPT !.pend = NoPending]
         IN  Ready(B) /\ Fits(A, B) /\ ~HasPending(B) /\ SameContent(A, B)
  <1> DEFINE B == [A EXCEPT !.pend = NoPending]
  <1>1. A \in Matrices /\ A.valid /\ StructureOK(A) /\ WorkOK(A) /\ IsoOK(A)
    BY DEF Ready, Good
  <1>2. NoPending \in PendingLists
    BY OpAssumption DEF NoPending, PendingLists
  <1>3. B \in Matrices
    BY <1>1, <1>2 DEF Matrices
  <1>4. /\ B.fmt = A.fmt /\ B.entry = A.entry /\ B.nvals = A.nvals /\ B.iso = A.iso
        /\ B.nzombies = A.nzombies /\ B.nne = A.nne /\ B.h = A.h /\ B.Y = A.Y
        /\ B.jumbled = A.jumbled /\ B.unsorted = A.unsorted /\ B.valid = A.valid
        /\ B.vlen = A.vlen /\ B.vdim = A.vdim /\ B.pend = NoPending
    BY <1>1 DEF Matrices
  <1> HIDE DEF B
  <1>5. NneExact(B) /\ HyperlistCovers(B) /\ HashMatches(B)
    BY <1>1, <1>4, SameSets
    DEF StructureOK, NneExact, HyperlistCovers, HashMatches, NvecNonempty, AllVectors
  <1>6. StructureOK(B)
    BY <1>1, <1>3, <1>4, <1>5, SameStructure DEF StructureOK, CountsExact
  <1>7. ~HasPending(B) /\ B.pend.tup = <<>>
    BY <1>4 DEF HasPending, NoPending
  <1>8. WorkOK(B)
    BY <1>1, <1>4, <1>7
    DEF WorkOK, PendingDisjoint, PendingPos, JumbledCovers, DenseSettled, PendingSorted,
        AnyPendingWork
  <1>9. IsoOK(B)
    BY <1>1, <1>4, <1>7, SameSets DEF IsoOK, HasPending
  <1>10. Ready(B) /\ Fits(A, B) /\ SameContent(A, B)
    BY <1>1, <1>3, <1>4, <1>6, <1>7, <1>8, <1>9 DEF Ready, Good, Fits, SameContent
  <1> QED BY <1>7, <1>10 DEF B

\* B, what is left of A once it is pruned and sorted, is conformed, replaced
\* by the pending tuples, or merged with them.
LEMMA FinishPruned ==
  ASSUME NEW A, Ready(A), NEW B, Ready(B), ~AnyPendingWork(B), Within(A, B),
         B.fmt \in {"hyper", "sparse", "full"}
  PROVE  LET T == BuildPending(A)
         IN  Settled(A, IF ~HasPending(A) THEN ConformSettled(B)
                        ELSE IF Nnz(B) = 0 THEN TransplantConform(B, T)
                        ELSE MergePending(B, T))
  <1> DEFINE T == BuildPending(A)
  <1>1. A \in Matrices /\ B \in Matrices /\ WorkOK(A) /\ ~HasPending(B) /\ ~B.jumbled
        /\ B.nzombies = 0
    BY DEF Ready, Good, AnyPendingWork, Matrices
  <1>2. Fits(A, B)
    BY <1>1 DEF Fits, Within
  <1>3. /\ Ready(T) /\ T.fmt = "hyper" /\ ~AnyPendingWork(T) /\ ~HasPending(T)
        /\ T.vlen = A.vlen /\ T.vdim = A.vdim /\ T.iso = A.iso
        /\ Held(T) = PendingPos(A) /\ Live(T) = PendingPos(A)
    BY ReadyBuildPending
  <1> HIDE DEF T
  <1>4. T \in Matrices /\ Fits(A, T)
    BY <1>3 DEF Ready, Good, AnyPendingWork, Fits, Matrices
  <1>5. CASE ~HasPending(A)
    <2>1. Safe(B, ConformSettled(B))
      BY <1>1, SafeConformSettled
    <2> QED BY <1>1, <1>2, <1>5, <2>1, SettledFits
  <1>6. CASE HasPending(A) /\ Nnz(B) = 0
    <2>1. Safe(T, TransplantConform(B, T))
      BY <1>1, <1>3, SafeTransplantConform
    <2> QED BY <1>3, <1>4, <1>6, <2>1, SettledFits DEF T
  <1>7. CASE HasPending(A) /\ Nnz(B) # 0
    <2>1. Held(A) \cap PendingPos(A) = {}
      BY <1>1 DEF WorkOK, PendingDisjoint, Held
    <2>2. Held(B) \cap Held(T) = {}
      BY <1>3, <2>1 DEF Within
    <2>3. B.fmt # "full"
      <3>1. PICK p \in PendingPos(A) : InRange(A, p)
        <4>1. A.pend.tup \in Seq(Tuples) /\ A.pend.tup # <<>>
          BY <1>1, <1>7 DEF Matrices, PendingLists, HasPending
        <4>2. 1 \in DOMAIN A.pend.tup
          BY <4>1
        <4> QED BY <1>1, <4>2 DEF PendingPos, WorkOK, PendingDisjoint
      <3>2. p \in Pos /\ InRange(B, p)
        BY <1>3, <3>1 DEF Held, Within, InRange
      <3> QED BY <1>3, <2>2, <3>1, <3>2, FullHolds
    <2>4. Safe(B, MergePending(B, T))
      BY <1>1, <1>3, <2>2, <2>3, SafeMergePending DEF Within
    <2> QED BY <1>1, <1>2, <1>7, <2>4, SettledFits DEF T
  <1> QED BY <1>5, <1>6, <1>7 DEF T

\* GB_wait with pending tuples or zombies leaves a sound matrix, and no work if
\* it succeeds.
LEMMA SafeFinishWork ==
  ASSUME NEW A, Ready(A), A.fmt \in {"hyper", "sparse"}
  PROVE  Finished(A, FinishWork(A))
  <1> DEFINE T == BuildPending(A)
             B == [A EXCEPT !.pend = NoPending]
             pruned == RemoveZombies(B)
             sorted == UNION {Then(r, Unjumble(r.m)) : r \in pruned}
             finish(D) == IF ~HasPending(A) THEN ConformSettled(D)
                          ELSE IF Nnz(D) = 0 THEN TransplantConform(D, T)
                          ELSE MergePending(D, T)
  <1>1. Ready(B) /\ Fits(A, B) /\ ~HasPending(B) /\ SameContent(A, B)
    BY ReadyUnpended
  <1>2. FinishWork(A) = NoMemory(A) \cup UNION {Then(r, finish(r.m)) : r \in sorted}
    BY DEF FinishWork
  <1> HIDE DEF B
  <1>3. Within(A, B) /\ B.fmt \in {"hyper", "sparse"}
    BY <1>1, SameSets DEF SameContent, Within
  <1>4. ASSUME NEW r \in pruned, NEW q \in Then(r, Unjumble(r.m))
        PROVE  /\ q \in Outcomes /\ Good(q.m) /\ Fits(A, q.m)
               /\ q.info = "SUCCESS" =>
                    /\ q.m.valid /\ ~AnyPendingWork(q.m) /\ Within(A, q.m)
                    /\ q.m.fmt \in {"hyper", "sparse", "full"}
    <2>1. /\ r \in Outcomes /\ Good(r.m) /\ Fits(B, r.m)
          /\ r.info = "SUCCESS" => /\ r.m.valid /\ r.m.nzombies = 0 /\ Within(B, r.m)
                                   /\ r.m.fmt \in {"hyper", "sparse", "full"}
      BY <1>1, <1>3, <1>4, SafeRemoveZombies DEF Safe
    <2>2. Fits(A, r.m)
      BY <1>1, <2>1, FitsTrans
    <2>3. CASE r.info # "SUCCESS"
      BY <1>4, <2>1, <2>2, <2>3 DEF Then
    <2>4. CASE r.info = "SUCCESS"
      <3>1. Ready(r.m) /\ q \in Unjumble(r.m)
        BY <1>4, <2>1, <2>4 DEF Then, Ready
      <3>2. /\ q \in Outcomes /\ Good(q.m) /\ Fits(r.m, q.m)
            /\ q.info = "SUCCESS" => /\ q.m.valid /\ ~q.m.jumbled
                                     /\ SameContent(r.m, q.m)
        BY <3>1, SafeUnjumble DEF Safe
      <3>3. Fits(A, q.m) /\ Fits(B, q.m)
        BY <2>1, <2>2, <3>2, FitsTrans
      <3>4. ASSUME q.info = "SUCCESS"
            PROVE  /\ q.m.valid /\ ~AnyPendingWork(q.m) /\ Within(A, q.m)
                   /\ q.m.fmt \in {"hyper", "sparse", "full"}
        <4>1. q.m.nzombies = 0
          BY <2>1, <2>4, <3>2 DEF Fits, Good, Matrices
        <4>2. ~HasPending(q.m)
          BY <1>1, <3>3 DEF Fits
        <4>3. Within(A, q.m)
          BY <1>3, <2>1, <2>4, <3>2, <3>4, SameSets DEF Within, SameContent
        <4> QED BY <2>1, <2>4, <3>2, <3>4, <4>1, <4>2, <4>3
                DEF AnyPendingWork, SameContent
      <3> QED BY <3>2, <3>3, <3>4
    <2> QED BY <2>3, <2>4
  <1> HIDE DEF pruned
  <1>5. ASSUME NEW r \in sorted, NEW q \in Then(r, finish(r.m))
        PROVE  /\ q \in Outcomes /\ Good(q.m) /\ Fits(A, q.m)
               /\ q.info = "SUCCESS" => q.m.valid /\ ~AnyPendingWork(q.m)
    <2>1. /\ r \in Outcomes /\ Good(r.m) /\ Fits(A, r.m)
          /\ r.info = "SUCCESS" =>
               /\ r.m.valid /\ ~AnyPendingWork(r.m) /\ Within(A, r.m)
               /\ r.m.fmt \in {"hyper", "sparse", "full"}
      BY <1>4, <1>5
    <2> HIDE DEF sorted
    <2>2. CASE r.info # "SUCCESS"
      BY <1>5, <2>1, <2>2 DEF Then
    <2>3. CASE r.info = "SUCCESS"
      <3>1. Ready(r.m)
        BY <2>1, <2>3 DEF Ready
      <3>2. Settled(A, finish(r.m))
        BY <2>1, <2>3, <3>1, FinishPruned
      <3> HIDE DEF finish
      <3>3. q \in finish(r.m)
        BY <1>5, <2>3 DEF Then
      <3> QED BY <3>2, <3>3 DEF Settled, Safe
    <2> QED BY <2>2, <2>3
  <1> HIDE DEF sorted, finish
  <1>6. Safe(A, NoMemory(A)) /\ \A q \in NoMemory(A) : q.info # "SUCCESS"
    <2>1. Safe(A, NoMemory(A))
      BY SafeDone, FitsSame
    <2> QED BY <2>1 DEF NoMemory
  <1>7. ASSUME NEW q \in FinishWork(A)
        PROVE  /\ q \in Outcomes /\ Good(q.m) /\ Fits(A, q.m)
               /\ q.info = "SUCCESS" => q.m.valid /\ ~AnyPendingWork(q.m)
    <2>1. q \in NoMemory(A) \/ \E r \in sorted : q \in Then(r, finish(r.m))
      BY <1>2, <1>7
    <2> QED BY <1>5, <1>6, <2>1 DEF Safe
  <1> QED BY <1>7 DEF Finished, Safe

\* A failure that frees the matrix, or leaves it, keeps it good.
LEMMA SafeFreeOnError ==
  ASSUME NEW A, NEW S, Finished(A, S)
  PROVE  Settled(A, {FreeOnError(r) : r \in S})
  <1>1. ASSUME NEW r \in S
        PROVE  LET q == FreeOnError(r)
               IN  /\ q \in Outcomes /\ Good(q.m) /\ Fits(A, q.m) /\ ~AnyPendingWork(q.m)
                   /\ q.info = "SUCCESS" => q.m.valid
    <2>1. r \in Outcomes /\ Good(r.m) /\ Fits(A, r.m) /\ r.m \in Matrices
          /\ (r.info = "SUCCESS" => r.m.valid /\ ~AnyPendingWork(r.m))
      BY <1>1 DEF Finished, Safe, Good
    <2>2. CASE r.info = "SUCCESS"
      BY <2>1, <2>2 DEF FreeOnError
    <2>3. CASE r.info # "SUCCESS"
      <3> DEFINE F == PhybixFree(r.m)
                 q == [r EXCEPT !.m = F]
      <3>1. Good(F) /\ Fits(A, F) /\ F \in Matrices
        BY <2>1, GoodFreed DEF Good, Fits
      <3> ~AnyPendingWork(F)
        BY <2>1, <3>1, GoodFreed DEF Good, Freed
      <3>2. FreeOnError(r) = q
        BY <2>3 DEF FreeOnError
      <3> HIDE DEF F
      <3>3. q \in Outcomes /\ q.m = F /\ q.info = r.info
        BY <2>1, <3>1 DEF Outcomes
      <3> HIDE DEF q
      <3> QED BY <2>3, <3>1, <3>2, <3>3
    <2> QED BY <2>2, <2>3
  <1> QED BY <1>1 DEF Settled, Safe

\* GB_wait finishes all of the deferred work, or fails and frees the matrix.
LEMMA SafeWait ==
  ASSUME NEW A, Ready(A)
  PROVE  Settled(A, Wait(A))
  <1>1. A \in Matrices /\ A.fmt \in Formats /\ WorkOK(A)
    BY DEF Ready, Good, Matrices
  <1>2. CASE A.fmt \in {"full", "bitmap"}
    <2>1. Wait(A) = Done(A) /\ ~AnyPendingWork(A)
      BY <1>1, <1>2 DEF Wait, WorkOK, DenseSettled
    <2>2. Safe(A, Done(A))
      BY SafeDone, FitsSame
    <2> QED BY <1>1, <2>1, <2>2, SettledFits, FitsSame
  <1>3. CASE A.fmt \in {"hyper", "sparse"} /\ ~AnyPendingWork(A)
    <2>1. Wait(A) = Done(UpdateNne(A))
      BY <1>3 DEF Wait
    <2>2. Safe(A, Done(UpdateNne(A)))
      BY SafeUpdateNne, SafeDone
    <2> QED BY <1>1, <1>3, <2>1, <2>2, SettledFits, FitsSame
  <1>4. CASE A.fmt \in {"hyper", "sparse"} /\ AnyPendingWork(A)
    <2> DEFINE S == IF HasPending(A) \/ A.nzombies > 0 THEN FinishWork(A) ELSE Unjumble(A)
    <2>1. Wait(A) = {FreeOnError(r) : r \in S}
      BY <1>4 DEF Wait
    <2>2. CASE HasPending(A) \/ A.nzombies > 0
      BY <1>4, <2>1, <2>2, SafeFinishWork, SafeFreeOnError
    <2>3. CASE ~(HasPending(A) \/ A.nzombies > 0)
      <3>1. Safe(A, Unjumble(A))
        BY SafeUnjumble
      <3>2. ASSUME NEW r \in Unjumble(A), r.info = "SUCCESS"
            PROVE  ~AnyPendingWork(r.m)
        <4>1. ~r.m.jumbled /\ Fits(A, r.m) /\ r.m \in Matrices
          BY <3>1, <3>2, SafeUnjumble DEF Safe, Good
        <4> QED BY <1>1, <2>3, <4>1 DEF AnyPendingWork, Fits, Matrices
      <3>3. Finished(A, Unjumble(A))
        BY <3>1, <3>2 DEF Finished
      <3> QED BY <2>1, <2>3, <3>3, SafeFreeOnError
    <2> QED BY <2>2, <2>3
  <1> QED BY <1>1, <1>2, <1>3, <1>4 DEF Formats

-----------------------------------------------------------------------------
(* Callers of GB_wait *)

\* Waiting on a condition is as safe as waiting.
LEMMA SafeWaitIf ==
  ASSUME NEW A, Ready(A), NEW cond
  PROVE  Safe(A, WaitIf(cond, A))
  <1>1. Safe(A, Done(A))
    BY SafeDone, FitsSame
  <1>2. Safe(A, Wait(A))
    BY SafeWait DEF Settled
  <1> QED BY <1>1, <1>2 DEF WaitIf

\* GB_hyper_hash_build hashes the current hyperlist, or frees the matrix.
LEMMA SafeHyperHashBuild ==
  ASSUME NEW A, Ready(A)
  PROVE  Safe(A, HyperHashBuild(A))
  <1>1. CASE ~HyperHashNeed(A)
    <2>1. Safe(A, Done(A))
      BY SafeDone, FitsSame
    <2> QED BY <1>1, <2>1 DEF HyperHashBuild
  <1>2. CASE HyperHashNeed(A)
    <2> DEFINE B == [A EXCEPT !.Y = A.h]
    <2>1. Ready(B) /\ Fits(A, B)
      BY <1>2, ReadyHashed DEF HyperHashNeed
    <2>2. HyperHashBuild(A) = Done(B) \cup NoMemory(PhybixFree(A))
      BY <1>2 DEF HyperHashBuild
    <2> HIDE DEF B
    <2>3. Safe(A, NoMemory(PhybixFree(A)))
      BY SafeFreed DEF Ready, Good
    <2> QED BY <2>1, <2>2, <2>3, SafeDone, SafeUnion
  <1> QED BY <1>1, <1>2

\* GB_wait and then GB_hyper_hash_build leave no deferred work.
LEMMA SafeMaterialize ==
  ASSUME NEW A, Ready(A)
  PROVE  Settled(A, Materialize(A))
  <1>1. Settled(A, Wait(A))
    BY SafeWait
  <1>2. ASSUME NEW r \in Wait(A), NEW q \in Then(r, HyperHashBuild(r.m))
        PROVE  /\ q \in Outcomes /\ Good(q.m) /\ Fits(A, q.m)
               /\ ~AnyPendingWork(q.m) /\ (q.info = "SUCCESS" => q.m.valid)
    <2>1. r \in Outcomes /\ Good(r.m) /\ Fits(A, r.m) /\ ~AnyPendingWork(r.m)
          /\ (r.info = "SUCCESS" => r.m.valid)
      BY <1>1, <1>2 DEF Settled, Safe
    <2>2. CASE r.info # "SUCCESS"
      BY <1>2, <2>1, <2>2 DEF Then
    <2>3. CASE r.info = "SUCCESS"
      <3>1. q \in HyperHashBuild(r.m) /\ Ready(r.m)
        BY <1>2, <2>1, <2>3 DEF Then, Ready
      <3>2. /\ q \in Outcomes /\ Good(q.m) /\ Fits(r.m, q.m)
            /\ q.info = "SUCCESS" => q.m.valid
        BY <3>1, SafeHyperHashBuild DEF Safe
      <3>3. Fits(A, q.m) /\ ~AnyPendingWork(q.m)
        BY <2>1, <2>3, <3>2, FitsTrans, FitsIdle DEF Good
      <3> QED BY <3>2, <3>3
    <2> QED BY <2>2, <2>3
  <1> QED BY <1>2 DEF Materialize, Settled, Safe

\* GrB_Matrix_wait leaves no deferred work.
LEMMA SafeMatrixWait ==
  ASSUME NEW A, Ready(A)
  PROVE  Settled(A, MatrixWait(A))
  <1>1. CASE AnyPendingWork(A) \/ HyperHashNeed(A)
    BY <1>1, SafeMaterialize DEF MatrixWait
  <1>2. CASE ~(AnyPendingWork(A) \/ HyperHashNeed(A))
    <2>1. Safe(A, Done(A)) /\ Fits(A, A) /\ A \in Matrices
      BY SafeDone, FitsSame DEF Ready, Good
    <2>2. MatrixWait(A) = Done(A)
      BY <1>2 DEF MatrixWait
    <2> QED BY <1>2, <2>1, <2>2, SettledFits
  <1> QED BY <1>1, <1>2

\* GB_block finishes the work of a matrix with too many pending tuples.
LEMMA SafeBlock ==
  ASSUME NEW A, Ready(A)
  PROVE  /\ Safe(A, Block(A))
         /\ \A r \in Block(A) : PendingBounded(r.m)
  <1>1. A \in Matrices
    BY DEF Ready, Good
  <1> DEFINE full == /\ AnyPendingWork(A) \/ HyperHashNeed(A)
                     /\ Blocking \/ Len(A.pend.tup) >= Dense(A)
  <1>2. CASE full
    <2>1. Settled(A, Block(A))
      BY <1>2, SafeMaterialize DEF Block
    <2> QED BY <2>1 DEF Settled, PendingBounded, AnyPendingWork
  <1>3. CASE ~full
    <2>1. Block(A) = Done(A) /\ Safe(A, Done(A))
      BY <1>3, SafeDone, FitsSame DEF Block
    <2>2. PendingBounded(A)
      <3>1. A.pend.tup \in Seq(Tuples) /\ Dense(A) \in Nat
        BY <1>1, DenseNat DEF Matrices, PendingLists
      <3>2. Len(A.pend.tup) \in Nat
        BY <3>1
      <3> QED BY <1>3, <3>1, <3>2 DEF PendingBounded, AnyPendingWork
    <2> QED BY <2>1, <2>2 DEF Done
  <1> QED BY <1>2, <1>3

\* GB_conform of any sound matrix: before it is made bitmap its pending tuples
\* are assembled.
LEMMA SafeConform ==
  ASSUME NEW A, Ready(A)
  PROVE  Safe(A, Conform(A))
  <1> DEFINE B == ConformStart(A)
  <1>1. CASE ~(HasPending(A) /\ ConformTarget(A) = {"bitmap"})
    BY <1>1, SafeConformSettled DEF Conform
  <1>2. CASE HasPending(A) /\ ConformTarget(A) = {"bitmap"}
    <2>1. Ready(B) /\ Fits(A, B)
      BY SafeConformStart
    <2>2. Conform(A) = UNION {Then(r, AnyToBitmap(r.m)) : r \in Wait(B)}
      BY <1>2 DEF Conform
    <2> HIDE DEF B
    <2>3. Settled(B, Wait(B))
      BY <2>1, SafeWait
    <2>4. ASSUME NEW r \in Wait(B), NEW q \in Then(r, AnyToBitmap(r.m))
          PROVE  /\ q \in Outcomes /\ Good(q.m) /\ Fits(A, q.m)
                 /\ q.info = "SUCCESS" => q.m.valid
      <3>1. r \in Outcomes /\ Good(r.m) /\ Fits(A, r.m)
            /\ (r.info = "SUCCESS" => r.m.valid /\ ~AnyPendingWork(r.m))
        BY <2>1, <2>3, <2>4, FitsTrans DEF Settled, Safe
      <3>2. r.info = "SUCCESS" => Safe(r.m, AnyToBitmap(r.m))
        BY <3>1, SafeAnyToBitmap DEF Ready, AnyPendingWork
      <3> QED BY <2>4, <3>1, <3>2, SafeStep
    <2> QED BY <2>2, <2>4 DEF Safe
  <1> QED BY <1>1, <1>2
=============================================================================
