--------------------------- MODULE MatrixOpsProofs ---------------------------
(***************************************************************************)
(* Each user function takes a sound matrix to a sound one, or to one that  *)
(* is freed, whatever its arguments and wherever it runs out of memory.    *)
(***************************************************************************)
EXTENDS MatrixOps, MatrixWaitProofs

-----------------------------------------------------------------------------
(* What a user function promises of all its outcomes *)

\* There are fewer tuples than positions, and none while vectors are unsorted.
Orderly(A) == PendingBounded(A) /\ (A.jumbled => ~HasPending(A))

Keeps(S) == \A r \in S : r \in Outcomes /\ Good(r.m) /\ Orderly(r.m)

\* A matrix between two calls that has not been freed
Usable(A) == Ready(A) /\ Orderly(A)

\* A matrix that fits has its pending tuples bounded as well.
LEMMA FitsOrderly ==
  ASSUME NEW A, NEW B, Orderly(A), Fits(A, B)
  PROVE  Orderly(B)
  BY DEF Orderly, PendingBounded, Fits, Dense

\* A function that is safe promises what a user function must.
LEMMA SafeKeeps ==
  ASSUME NEW A, Orderly(A), NEW S, Safe(A, S)
  PROVE  Keeps(S)
  BY FitsOrderly DEF Safe, Keeps

\* A function applied to each outcome that succeeded.
LEMMA KeepsStep ==
  ASSUME NEW A, Orderly(A), NEW r, NEW S, NEW q \in Then(r, S),
         r \in Outcomes, Good(r.m), Fits(A, r.m), r.info = "SUCCESS" => Keeps(S)
  PROVE  q \in Outcomes /\ Good(q.m) /\ Orderly(q.m)
  <1>1. CASE r.info = "SUCCESS"
    BY <1>1 DEF Then, Keeps
  <1>2. CASE r.info # "SUCCESS"
    BY <1>2, FitsOrderly DEF Then
  <1> QED BY <1>1, <1>2

-----------------------------------------------------------------------------
(* GB_setElement *)

\* GB_block bounds the list of pending tuples.
LEMMA KeepsBlock ==
  ASSUME NEW A, Ready(A), A.jumbled => ~HasPending(A)
  PROVE  Keeps(Block(A))
  BY SafeBlock DEF Safe, Keeps, Fits, Orderly

\* The positions of a call that are inside the matrix.
LEMMA InRangePos ==
  ASSUME NEW A \in Matrices, NEW p \in Nat \X Nat, InRange(A, p)
  PROVE  p \in Pos /\ p[2] \in 0 .. A.vdim - 1
  <1>1. A.vlen \in 0 .. MaxVlen /\ A.vdim \in 0 .. MaxVdim
    BY DEF Matrices
  <1>2. p = <<p[1], p[2]>> /\ p[1] \in Nat /\ p[2] \in Nat
    OBVIOUS
  <1>3. p[1] < A.vlen /\ p[2] < A.vdim
    BY DEF InRange
  <1>4. p[1] \in 0 .. MaxVlen - 1 /\ p[2] \in 0 .. MaxVdim - 1 /\ p[2] \in 0 .. A.vdim - 1
    BY <1>1, <1>2, <1>3, DimsAssumption
  <1> QED BY <1>2, <1>4 DEF Pos

\* The search of a matrix that is not jumbled misses no entry and no zombie.
LEMMA NotFoundAbsent ==
  ASSUME NEW A, Ready(A), ~A.jumbled, NEW p \in Pos, ~EntryFound(A, p)
  PROVE  A.entry[p] = Absent /\ A.fmt \in {"hyper", "sparse"}
  <1>1. A \in Matrices /\ StructureOK(A) /\ WorkOK(A)
    BY DEF Ready, Good
  <1>2. A.fmt \in {"hyper", "sparse"}
    BY <1>1 DEF EntryFound, Matrices, Formats
  <1>3. A.unsorted = {}
    BY <1>1 DEF WorkOK, JumbledCovers
  <1>4. ASSUME p \in Held(A)
        PROVE  FALSE
    <2>1. A.nvals > 0
      <3>1. Cardinality(Held(A)) # 0
        BY <1>4, HeldType, CountNat, FS_EmptySet
      <3>2. A.nvals = Cardinality(Held(A)) /\ A.nvals \in Nat
        BY <1>1, <1>2 DEF StructureOK, CountsExact, Matrices
      <3> QED BY <3>1, <3>2
    <2>2. p[2] \in Nonempty(A)
      BY <1>4 DEF Nonempty
    <2>3. VectorFound(A, p[2])
      BY <1>1, <2>2 DEF VectorFound, StructureOK, HyperlistCovers, HashMatches
    <2> QED BY <1>2, <1>3, <1>4, <2>1, <2>3 DEF EntryFound, Held
  <1> QED BY <1>2, <1>4 DEF Held

\* Once the iso status is set, an iso matrix takes the scalar without an accum.
LEMMA SafeSetIsoStatus ==
  ASSUME NEW A, Ready(A), NEW s \in Val, NEW t \in Types, NEW accum
  PROVE  /\ Safe(A, SetIsoStatus(A, s, t, accum))
         /\ \A r \in SetIsoStatus(A, s, t, accum) :
              r.info = "SUCCESS" /\ r.m.iso # NotIso => accum = NoOp
  <1>1. A \in Matrices /\ StructureOK(A)
    BY DEF Ready, Good
  <1> DEFINE differs == A.iso # NotIso /\ (accum # NoOp \/ Cast(t, s) # A.iso)
             first == /\ A.iso = NotIso /\ Nnz(A) = 0 /\ A.fmt # "full"
                      /\ ~HasPending(A) /\ accum = NoOp
  <1>2. CASE differs
    <2>1. SetIsoStatus(A, s, t, accum) = AnyToNonIso(A)
      BY <1>2 DEF SetIsoStatus
    <2>2. \A r \in AnyToNonIso(A) : r.info = "SUCCESS" => r.m.iso = NotIso
      <3> DEFINE typed == [A.pend EXCEPT !.type = CType]
                 withX == [typed EXCEPT !.tup =
                             [k \in DOMAIN @ |-> [@[k] EXCEPT !.s = A.iso]]]
                 B == [A EXCEPT !.iso = NotIso]
                 D == [A EXCEPT !.iso = NotIso, !.pend = withX]
      <3>1. \/ AnyToNonIso(A) = Done(B) \cup NoMemory(PhybixFree(A))
            \/ AnyToNonIso(A) = Done(D) \cup NoMemory(PhybixFree(A))
                                  \cup NoMemory([A EXCEPT !.pend = typed])
        BY <1>2 DEF AnyToNonIso
      <3> HIDE DEF withX, typed
      <3>2. B.iso = NotIso /\ D.iso = NotIso
        BY <1>1 DEF Matrices
      <3> HIDE DEF B, D
      <3> QED BY <3>1, <3>2 DEF Done, NoMemory
    <2> QED BY <2>1, <2>2, SafeAnyToNonIso
  <1>3. CASE first
    <2>1. SetIsoStatus(A, s, t, accum) = AnyToIso(A, Cast(t, s))
      BY <1>3 DEF SetIsoStatus
    <2>2. Live(A) = {}
      <3>1. Cardinality(Held(A)) = 0
        BY <1>1, <1>3 DEF StructureOK, CountsExact, Nnz
      <3>2. Held(A) = {}
        BY <3>1, HeldType, CountNat, FS_EmptySet
      <3> QED BY <3>2, ValAssumption DEF Live, Held
    <2>3. Cast(t, s) \in Val
      BY OpAssumption
    <2> QED BY <1>3, <2>1, <2>2, <2>3, SafeAnyToIso
  <1>4. CASE ~differs /\ ~first
    <2>1. SetIsoStatus(A, s, t, accum) = Done(A)
      BY <1>4 DEF SetIsoStatus
    <2>2. Safe(A, Done(A))
      BY SafeDone, FitsSame
    <2> QED BY <1>4, <2>1, <2>2 DEF Done
  <1> QED BY <1>2, <1>3, <1>4

\* An entry that is there is given its new value; a zombie becomes live again.
LEMMA ReadyUpdateEntry ==
  ASSUME NEW A, Ready(A), NEW p \in Pos, InRange(A, p), EntryFound(A, p),
         NEW s \in Val, NEW t \in Types, NEW accum \in Ops
  PROVE  LET B == UpdateEntry(A, p, s, t, accum) IN Ready(B) /\ Fits(A, B)
  <1> DEFINE old == A.entry[p]
             new == IF A.iso # NotIso THEN A.iso
                    ELSE IF accum = NoOp \/ old \in {Absent, Zombie} THEN Cast(t, s)
                    ELSE Apply(accum, old, t, s)
             content == [A.entry EXCEPT ![p] = new]
             zombies == IF old = Zombie THEN A.nzombies - 1 ELSE A.nzombies
             nvals == IF A.fmt = "bitmap" /\ old = Absent THEN A.nvals + 1 ELSE A.nvals
             B == [A EXCEPT !.entry = content, !.nzombies = zombies, !.nvals = nvals]
  <1>1. A \in Matrices /\ A.valid /\ StructureOK(A) /\ WorkOK(A) /\ IsoOK(A)
    BY DEF Ready, Good
  <1>2. old \in Val \cup {Absent, Zombie} /\ A.entry \in [Pos -> Val \cup {Absent, Zombie}]
        /\ A.nvals \in Nat /\ A.nzombies \in Nat /\ A.iso \in Val \cup {NotIso}
    BY <1>1 DEF Matrices
  <1>3. new \in Val
    BY <1>2, OpAssumption
  <1>4. UpdateEntry(A, p, s, t, accum) = B
    <2>1. [A EXCEPT !.entry[p] = new, !.nzombies = zombies, !.nvals = nvals] = B
      BY <1>1 DEF Matrices
    <2> QED BY <1>1, <2>1 DEF UpdateEntry, Matrices
  <1>5. old = Zombie => Cardinality(Zombies(A)) # 0
    <2>1. old = Zombie => p \in Zombies(A)
      BY DEF Zombies
    <2> QED BY <2>1, HeldType, CountNat, FS_EmptySet
  <1> HIDE DEF new
  <1>6. zombies \in Nat /\ nvals \in Nat /\ content \in [Pos -> Val \cup {Absent, Zombie}]
    BY <1>1, <1>2, <1>3, <1>5 DEF StructureOK, CountsExact
  <1>7. B \in Matrices
    BY <1>1, <1>6 DEF Matrices
  <1>8. /\ B.fmt = A.fmt /\ B.entry = content /\ B.nvals = nvals /\ B.iso = A.iso
        /\ B.nzombies = zombies /\ B.nne = A.nne /\ B.h = A.h /\ B.Y = A.Y
        /\ B.jumbled = A.jumbled /\ B.unsorted = A.unsorted /\ B.valid = A.valid
        /\ B.vlen = A.vlen /\ B.vdim = A.vdim /\ B.pend = A.pend
    BY <1>1 DEF Matrices
  <1> HIDE DEF B
  <1>9. /\ Held(B) = Held(A) \cup {p} /\ Live(B) = Live(A) \cup {p}
        /\ Zombies(B) = Zombies(A) \ {p}
        /\ B.entry[p] = new /\ \A q \in Pos \ {p} : B.entry[q] = A.entry[q]
    BY <1>2, <1>3, <1>8, ValAssumption DEF Held, Live, Zombies
  <1>10. A.fmt \in {"hyper", "sparse"} => p \in Held(A)
    BY DEF EntryFound, Held
  <1>11. A.fmt = "full" => p \in Live(A)
    BY <1>1 DEF StructureOK, CountsExact
  <1>12. p \in Live(A) \/ old \in {Absent, Zombie}
    BY <1>2 DEF Live
  <1>13. CountsExact(B)
    <2>1. B.nzombies = Cardinality(Zombies(B))
      <3>1. CASE old = Zombie
        <4>1. p \in Zombies(A) /\ IsFiniteSet(Zombies(A))
          BY <3>1, HeldType, CountNat DEF Zombies
        <4>2. Cardinality(Zombies(A) \ {p}) = Cardinality(Zombies(A)) - 1
          BY <4>1, FS_RemoveElement
        <4> QED BY <1>1, <1>8, <1>9, <3>1, <4>2 DEF StructureOK, CountsExact
      <3>2. CASE old # Zombie
        <4>1. Zombies(B) = Zombies(A)
          BY <1>9, <3>2 DEF Zombies
        <4> QED BY <1>1, <1>8, <3>2, <4>1 DEF StructureOK, CountsExact
      <3> QED BY <3>1, <3>2
    <2>2. B.fmt # "full" => B.nvals = Cardinality(Held(B))
      <3>1. CASE old = Absent
        <4>1. p \notin Held(A) /\ IsFiniteSet(Held(A))
          BY <3>1, HeldType, CountNat DEF Held
        <4>2. Cardinality(Held(A) \cup {p}) = Cardinality(Held(A)) + 1
          BY <4>1, FS_AddElement
        <4>3. A.fmt \in {"bitmap", "full"}
          BY <1>1, <1>10, <4>1 DEF Matrices, Formats
        <4> QED BY <1>1, <1>8, <1>9, <3>1, <4>2, <4>3 DEF StructureOK, CountsExact
      <3>2. CASE old # Absent
        <4>1. Held(B) = Held(A)
          BY <1>9, <3>2 DEF Held
        <4> QED BY <1>1, <1>8, <3>2, <4>1 DEF StructureOK, CountsExact
      <3> QED BY <3>1, <3>2
    <2>3. B.fmt = "full" => Live(B) = {q \in Pos : InRange(B, q)}
      <3>1. A.fmt = "full" => Live(A) = {q \in Pos : InRange(A, q)} /\ Live(B) = Live(A)
        BY <1>1, <1>9, <1>11 DEF StructureOK, CountsExact
      <3>2. \A q : InRange(B, q) <=> InRange(A, q)
        BY <1>8 DEF InRange
      <3> QED BY <1>8, <3>1, <3>2
    <2> QED BY <2>1, <2>2, <2>3 DEF CountsExact
  <1>14. A.fmt \in {"hyper", "sparse"} => Nonempty(B) = Nonempty(A)
    BY <1>9, <1>10 DEF Nonempty
  <1>15. StructureOK(B)
    <2>1. EntriesInRange(B)
      BY <1>1, <1>8, <1>9 DEF StructureOK, EntriesInRange, InRange
    <2>2. A.fmt \notin {"bitmap", "full"} => A.fmt \in {"hyper", "sparse"}
      BY <1>1 DEF Matrices, Formats
    <2>3. NneExact(B) /\ HyperlistCovers(B) /\ HashMatches(B)
      BY <1>1, <1>8, <1>14, <2>2
      DEF StructureOK, NneExact, HyperlistCovers, HashMatches, NvecNonempty, AllVectors
    <2> QED BY <1>13, <2>1, <2>3 DEF StructureOK
  <1>16. p \notin PendingPos(A)
    <2>1. A.fmt \in {"hyper", "sparse"} => p \notin PendingPos(A)
      BY <1>1, <1>10 DEF WorkOK, PendingDisjoint, Held
    <2>2. A.fmt \in {"bitmap", "full"} => A.pend.tup = <<>>
      BY <1>1 DEF WorkOK, DenseSettled, AnyPendingWork, HasPending
    <2> QED BY <1>1, <2>1, <2>2 DEF Matrices, Formats, PendingPos
  <1>17. zombies <= A.nzombies
    BY <1>2
  <1>18. WorkOK(B)
    <2>1. PendingPos(B) = PendingPos(A) /\ PendingPos(A) \subseteq Pos
      <3>1. A.pend.tup \in Seq(Tuples)
        BY <1>1 DEF Matrices, PendingLists
      <3>2. \A k \in DOMAIN A.pend.tup : A.pend.tup[k] \in Tuples
        BY <3>1
      <3> QED BY <1>8, <3>2 DEF PendingPos, Tuples
    <2>2. PendingDisjoint(B)
      BY <1>1, <1>8, <1>9, <1>16, <2>1 DEF WorkOK, PendingDisjoint, InRange
    <2>3. DenseSettled(B)
      BY <1>1, <1>2, <1>6, <1>8, <1>17 DEF WorkOK, DenseSettled, AnyPendingWork, HasPending
    <2>4. JumbledCovers(B) /\ PendingSorted(B)
      BY <1>1, <1>8 DEF WorkOK, JumbledCovers, PendingSorted
    <2> QED BY <2>2, <2>3, <2>4 DEF WorkOK
  <1>19. IsoOK(B)
    <2>1. A.iso # NotIso => new = A.iso
      BY DEF new
    <2>2. A.iso # NotIso => \A q \in Live(B) : B.entry[q] = A.iso
      BY <1>1, <1>9, <2>1, HeldType DEF IsoOK
    <2> QED BY <1>1, <1>8, <2>2 DEF IsoOK, HasPending
  <1>20. Ready(B) /\ Fits(A, B)
    BY <1>1, <1>2, <1>6, <1>7, <1>8, <1>15, <1>17, <1>18, <1>19
    DEF Ready, Good, Fits, HasPending
  <1> QED BY <1>4, <1>20

\* A tuple for a position that holds no entry joins the list.
LEMMA ReadyPendingAdd ==
  ASSUME NEW A, Ready(A), A.fmt \in {"hyper", "sparse"}, NEW p \in Pos, InRange(A, p),
         A.entry[p] = Absent, NEW s \in Val, NEW t \in Types, NEW op \in Ops,
         A.iso # NotIso => op = NoOp,
         NEW r \in PendingAdd(A, p, s, t, op)
  PROVE  r \in Outcomes /\ Good(r.m) /\ (r.info = "SUCCESS" => r.m.valid /\ r.m.jumbled = A.jumbled)
         /\ (r.info # "SUCCESS" => ~r.m.valid)
  <1> DEFINE tup  == A.pend.tup
             prev == tup[Len(tup)].pos
             inOrder == prev[2] < p[2] \/ (prev[2] = p[2] /\ prev[1] <= p[1])
             new  == [pos |-> p, s |-> IF A.iso = NotIso THEN s ELSE NoScalar]
             list == IF tup = <<>>
                     THEN [op |-> op, type |-> t, sorted |-> TRUE, tup |-> <<new>>]
                     ELSE [A.pend EXCEPT !.sorted = @ /\ inOrder, !.tup = Append(@, new)]
             B == [A EXCEPT !.pend = list]
  <1>1. /\ A \in Matrices /\ A.valid /\ StructureOK(A) /\ WorkOK(A) /\ IsoOK(A)
        /\ A.pend \in PendingLists /\ tup \in Seq(Tuples)
    BY DEF Ready, Good, Matrices, PendingLists
  <1>2. PendingAdd(A, p, s, t, op) = Done(B) \cup NoMemory(PhybixFree(A))
    BY DEF PendingAdd
  <1>3. new \in Tuples /\ ((A.iso # NotIso) <=> (new.s = NoScalar)) /\ new.pos = p
    BY ValAssumption DEF Tuples
  <1> HIDE DEF new
  <1>4. /\ list \in PendingLists /\ list.tup = Append(tup, new)
        /\ list.op = IF tup = <<>> THEN op ELSE A.pend.op
        /\ list.sorted => tup = <<>> \/ (A.pend.sorted /\ inOrder)
    <2>1. CASE tup = <<>>
      <3>1. <<new>> \in Seq(Tuples) /\ <<new>> = Append(tup, new)
        BY <1>3, <2>1
      <3> QED BY <2>1, <3>1 DEF PendingLists
    <2>2. CASE tup # <<>>
      <3>1. Append(tup, new) \in Seq(Tuples)
        BY <1>1, <1>3
      <3>2. (A.pend.sorted /\ inOrder) \in BOOLEAN /\ A.pend.sorted \in BOOLEAN
        BY <1>1 DEF PendingLists
      <3> HIDE DEF inOrder
      <3> QED BY <1>1, <2>2, <3>1, <3>2 DEF PendingLists
    <2> QED BY <2>1, <2>2
  <1> HIDE DEF list
  <1>5. B \in Matrices
    BY <1>1, <1>4 DEF Matrices
  <1>6. /\ B.fmt = A.fmt /\ B.entry = A.entry /\ B.nvals = A.nvals /\ B.iso = A.iso
        /\ B.nzombies = A.nzombies /\ B.nne = A.nne /\ B.h = A.h /\ B.Y = A.Y
        /\ B.jumbled = A.jumbled /\ B.unsorted = A.unsorted /\ B.valid = A.valid
        /\ B.vlen = A.vlen /\ B.vdim = A.vdim /\ B.pend = list
    BY <1>1 DEF Matrices
  <1> HIDE DEF B
  <1>7. Len(tup) \in Nat /\ Len(list.tup) = Len(tup) + 1 /\ DOMAIN list.tup = 1 .. Len(tup) + 1
        /\ list.tup[Len(tup) + 1] = new /\ \A k \in 1 .. Len(tup) : list.tup[k] = tup[k]
        /\ DOMAIN tup = 1 .. Len(tup)
    BY <1>1, <1>3, <1>4
  <1>8. StructureOK(B)
    <2>1. NneExact(B) /\ HyperlistCovers(B) /\ HashMatches(B)
      BY <1>1, <1>6, SameSets
      DEF StructureOK, NneExact, HyperlistCovers, HashMatches, NvecNonempty, AllVectors
    <2> QED BY <1>1, <1>5, <1>6, <2>1, SameStructure DEF StructureOK, CountsExact
  <1>9. WorkOK(B)
    <2>1. PendingPos(B) = PendingPos(A) \cup {p}
      <3>1. PendingPos(B) = {list.tup[k].pos : k \in 1 .. Len(tup) + 1}
        BY <1>6, <1>7 DEF PendingPos
      <3>2. 1 .. Len(tup) + 1 = (1 .. Len(tup)) \cup {Len(tup) + 1}
        BY <1>7
      <3>3. PendingPos(A) = {tup[k].pos : k \in 1 .. Len(tup)}
        BY <1>7 DEF PendingPos
      <3> DEFINE old == {list.tup[k].pos : k \in 1 .. Len(tup)}
      <3>4. old = PendingPos(A)
        BY <1>7, <3>3
      <3>5. PendingPos(B) = old \cup {list.tup[Len(tup) + 1].pos}
        BY <3>1, <3>2
      <3> HIDE DEF old
      <3> QED BY <1>3, <1>7, <3>4, <3>5
    <2>2. PendingDisjoint(B)
      BY <1>1, <1>6, <2>1 DEF WorkOK, PendingDisjoint, InRange
    <2>3. JumbledCovers(B) /\ DenseSettled(B)
      BY <1>1, <1>6 DEF WorkOK, JumbledCovers, DenseSettled
    <2>4. PendingSorted(B)
      <3> DEFINE before(q1, q2) == q1[2] < q2[2] \/ (q1[2] = q2[2] /\ q1[1] <= q2[1])
      <3>1. SUFFICES ASSUME list.sorted, NEW k \in 1 .. Len(list.tup) - 1
                     PROVE  before(list.tup[k].pos, list.tup[k + 1].pos)
        BY <1>6 DEF PendingSorted
      <3>2. k \in 1 .. Len(tup) /\ tup # <<>> /\ A.pend.sorted /\ inOrder
        BY <1>4, <1>7, <3>1
      <3>3. CASE k = Len(tup)
        BY <1>3, <1>7, <3>2, <3>3
      <3>4. CASE k # Len(tup)
        <4>1. k \in 1 .. Len(tup) - 1 /\ k + 1 \in 1 .. Len(tup)
          BY <1>7, <3>2, <3>4
        <4>2. before(tup[k].pos, tup[k + 1].pos)
          BY <1>1, <3>2, <4>1 DEF WorkOK, PendingSorted
        <4> QED BY <1>7, <3>2, <4>1, <4>2
      <3> QED BY <3>3, <3>4
    <2> QED BY <2>2, <2>3, <2>4 DEF WorkOK
  <1>10. IsoOK(B)
    <2>1. ASSUME NEW k \in DOMAIN list.tup
          PROVE  (A.iso # NotIso) <=> (list.tup[k].s = NoScalar)
      <3>1. k \in 1 .. Len(tup) \/ k = Len(tup) + 1
        BY <1>7
      <3> QED BY <1>1, <1>3, <1>7, <3>1 DEF IsoOK
    <2>2. A.iso # NotIso => list.op = NoOp
      BY <1>1, <1>4 DEF IsoOK, HasPending
    <2>3. A.iso # NotIso => \A q \in Live(B) : B.entry[q] = A.iso
      BY <1>1, <1>6, SameSets DEF IsoOK
    <2> QED BY <1>6, <2>1, <2>2, <2>3 DEF IsoOK
  <1>11. Ready(B)
    BY <1>1, <1>5, <1>6, <1>8, <1>9, <1>10 DEF Ready, Good
  <1>12. \A q \in NoMemory(PhybixFree(A)) :
            q \in Outcomes /\ Good(q.m) /\ q.info # "SUCCESS" /\ ~q.m.valid
    <2>1. Good(PhybixFree(A)) /\ ~PhybixFree(A).valid
      BY <1>1, GoodFreed
    <2> QED BY <2>1 DEF Good, NoMemory, Outcomes
  <1>13. \A q \in Done(B) : q \in Outcomes /\ Good(q.m) /\ q.info = "SUCCESS" /\ q.m.valid
                        /\ q.m.jumbled = A.jumbled
    BY <1>6, <1>11 DEF Ready, Good, Done, Outcomes
  <1> QED BY <1>2, <1>12, <1>13

\* A freed matrix has no pending tuples.
LEMMA FreedOrderly ==
  ASSUME NEW A, Good(A), ~A.valid
  PROVE  Orderly(A)
  BY DEF Good, Freed, Orderly, PendingBounded, AnyPendingWork

\* Updating the entry, or adding a tuple and GB_block, keeps the matrix
\* usable.
LEMMA KeepsPutElement ==
  ASSUME NEW A, Usable(A), ~A.jumbled, NEW p \in Pos, InRange(A, p),
         NEW s \in Val, NEW t \in Types, NEW accum \in Ops,
         A.iso # NotIso => accum = NoOp
  PROVE  Keeps(PutElement(A, p, s, t, accum))
  <1>1. Ready(A) /\ Orderly(A)
    BY DEF Usable
  <1>2. CASE EntryFound(A, p)
    <2> DEFINE B == UpdateEntry(A, p, s, t, accum)
    <2>1. Ready(B) /\ Fits(A, B)
      BY <1>1, <1>2, ReadyUpdateEntry
    <2>2. PutElement(A, p, s, t, accum) = Done(B)
      BY <1>2 DEF PutElement
    <2> HIDE DEF B
    <2>3. Safe(A, Done(B))
      BY <2>1, SafeDone
    <2> QED BY <1>1, <2>2, <2>3, SafeKeeps
  <1>3. CASE ~EntryFound(A, p)
    <2> DEFINE added == PendingAdd(A, p, s, t, accum)
    <2>1. PutElement(A, p, s, t, accum) = UNION {Then(r, Block(r.m)) : r \in added}
      BY <1>3 DEF PutElement
    <2>2. A.entry[p] = Absent /\ A.fmt \in {"hyper", "sparse"}
      BY <1>1, <1>3, NotFoundAbsent
    <2>3. ASSUME NEW r \in added, NEW q \in Then(r, Block(r.m))
          PROVE  q \in Outcomes /\ Good(q.m) /\ Orderly(q.m)
      <3>1. r \in Outcomes /\ Good(r.m)
            /\ (r.info = "SUCCESS" => r.m.valid /\ ~r.m.jumbled)
            /\ (r.info # "SUCCESS" => ~r.m.valid)
        BY <1>1, <2>2, <2>3, ReadyPendingAdd
      <3> HIDE DEF added
      <3>2. CASE r.info = "SUCCESS"
        <4>1. Ready(r.m) /\ q \in Block(r.m)
          BY <2>3, <3>1, <3>2 DEF Ready, Then
        <4> QED BY <3>1, <3>2, <4>1, KeepsBlock DEF Keeps
      <3>3. CASE r.info # "SUCCESS"
        BY <2>3, <3>1, <3>3, FreedOrderly DEF Then
      <3> QED BY <3>2, <3>3
    <2> HIDE DEF added
    <2> QED BY <2>1, <2>3 DEF Keeps
  <1> QED BY <1>2, <1>3

\* SetIsoStatus, and what follows it, of a matrix that is not jumbled.
LEMMA KeepsAgain ==
  ASSUME NEW A, Usable(A), ~A.jumbled, NEW p \in Pos, InRange(A, p),
         NEW s \in Val, NEW t \in Types, NEW accum \in Ops
  PROVE  Keeps(UNION {Then(r, PutElement(r.m, p, s, t, accum))
                        : r \in SetIsoStatus(A, s, t, accum)})
  <1>1. Ready(A) /\ Orderly(A)
    BY DEF Usable
  <1>2. ASSUME NEW r \in SetIsoStatus(A, s, t, accum),
               NEW q \in Then(r, PutElement(r.m, p, s, t, accum))
        PROVE  q \in Outcomes /\ Good(q.m) /\ Orderly(q.m)
    <2>1. /\ r \in Outcomes /\ Good(r.m) /\ Fits(A, r.m)
          /\ r.info = "SUCCESS" => r.m.valid /\ (r.m.iso # NotIso => accum = NoOp)
      BY <1>1, <1>2, SafeSetIsoStatus DEF Safe
    <2>2. r.info = "SUCCESS" => Keeps(PutElement(r.m, p, s, t, accum))
      <3>1. ~r.m.jumbled /\ InRange(r.m, p) /\ Orderly(r.m)
        BY <1>1, <2>1, FitsOrderly DEF Fits, InRange
      <3> QED BY <2>1, <3>1, KeepsPutElement DEF Usable, Ready
    <2> QED BY <1>1, <1>2, <2>1, <2>2, KeepsStep
  <1> QED BY <1>2 DEF Keeps

\* GB_setElement of a matrix that is not jumbled keeps it usable.
LEMMA KeepsSetUnjumbled ==
  ASSUME NEW A, Usable(A), ~A.jumbled, NEW p \in Pos, InRange(A, p),
         NEW s \in Val, NEW t \in Types, NEW accum \in Ops
  PROVE  Keeps(SetUnjumbled(A, p, s, t, accum))
  <1> DEFINE again(B) == UNION {Then(r, PutElement(r.m, p, s, t, accum))
                                  : r \in SetIsoStatus(B, s, t, accum)}
             put(B) == IF ~EntryFound(B, p) /\ ~Compatible(B, t, accum)
                       THEN UNION {Then(r, again(r.m)) : r \in Wait(B)}
                       ELSE PutElement(B, p, s, t, accum)
  <1>1. Ready(A) /\ Orderly(A)
    BY DEF Usable
  <1>2. SetUnjumbled(A, p, s, t, accum)
          = UNION {Then(r, put(r.m)) : r \in SetIsoStatus(A, s, t, accum)}
    BY DEF SetUnjumbled
  <1>3. ASSUME NEW B, Usable(B), ~B.jumbled, InRange(B, p),
               B.iso # NotIso => accum = NoOp
        PROVE  Keeps(put(B))
    <2>1. CASE ~(~EntryFound(B, p) /\ ~Compatible(B, t, accum))
      <3>1. put(B) = PutElement(B, p, s, t, accum)
        BY <2>1
      <3> HIDE DEF put
      <3> QED BY <1>3, <3>1, KeepsPutElement
    <2>2. CASE ~EntryFound(B, p) /\ ~Compatible(B, t, accum)
      <3>1. put(B) = UNION {Then(r, again(r.m)) : r \in Wait(B)}
        BY <2>2
      <3>2. ASSUME NEW r \in Wait(B), NEW q \in Then(r, again(r.m))
            PROVE  q \in Outcomes /\ Good(q.m) /\ Orderly(q.m)
        <4>1. /\ r \in Outcomes /\ Good(r.m) /\ Fits(B, r.m) /\ ~AnyPendingWork(r.m)
              /\ r.info = "SUCCESS" => r.m.valid
          BY <1>3, <3>2, SafeWait DEF Usable, Settled, Safe
        <4>2. r.info = "SUCCESS" => Keeps(again(r.m))
          <5>1. ~r.m.jumbled /\ InRange(r.m, p) /\ Orderly(r.m)
            BY <1>3, <4>1 DEF AnyPendingWork, Fits, InRange, Orderly, PendingBounded
          <5> QED BY <4>1, <5>1, KeepsAgain DEF Usable, Ready
        <4> HIDE DEF again
        <4> QED BY <1>3, <3>2, <4>1, <4>2, KeepsStep DEF Usable
      <3> HIDE DEF put, again
      <3> QED BY <3>1, <3>2 DEF Keeps
    <2> QED BY <2>1, <2>2
  <1> HIDE DEF put
  <1>4. ASSUME NEW r \in SetIsoStatus(A, s, t, accum), NEW q \in Then(r, put(r.m))
        PROVE  q \in Outcomes /\ Good(q.m) /\ Orderly(q.m)
    <2>1. /\ r \in Outcomes /\ Good(r.m) /\ Fits(A, r.m)
          /\ r.info = "SUCCESS" => r.m.valid /\ (r.m.iso # NotIso => accum = NoOp)
      BY <1>1, <1>4, SafeSetIsoStatus DEF Safe
    <2>2. r.info = "SUCCESS" => Keeps(put(r.m))
      <3>1. ~r.m.jumbled /\ InRange(r.m, p) /\ Orderly(r.m)
        BY <1>1, <2>1, FitsOrderly DEF Fits, InRange
      <3> QED BY <1>3, <2>1, <3>1 DEF Usable, Ready
    <2> QED BY <1>1, <1>4, <2>1, <2>2, KeepsStep
  <1> QED BY <1>2, <1>4 DEF Keeps

\* GB_setElement keeps the matrix sound, and its list of tuples bounded.
LEMMA KeepsSetElement ==
  ASSUME NEW A, Usable(A), NEW p \in Nat \X Nat,
         NEW s \in Val, NEW t \in Types, NEW accum \in Ops
  PROVE  Keeps(SetElement(A, p, s, t, accum))
  <1>1. Ready(A) /\ Orderly(A) /\ A \in Matrices /\ Good(A)
    BY DEF Usable, Ready, Good
  <1>2. CASE ~InRange(A, p)
    BY <1>1, <1>2 DEF SetElement, Keeps, Outcomes
  <1>3. CASE InRange(A, p)
    <2>1. p \in Pos
      BY <1>1, <1>3, InRangePos
    <2> DEFINE next(B) == SetUnjumbled(B, p, s, t, accum)
    <2>2. SetElement(A, p, s, t, accum)
            = UNION {Then(r, next(r.m)) : r \in WaitIf(A.jumbled, A)}
      BY <1>3 DEF SetElement
    <2>3. ASSUME NEW r \in WaitIf(A.jumbled, A), NEW q \in Then(r, next(r.m))
          PROVE  q \in Outcomes /\ Good(q.m) /\ Orderly(q.m)
      <3>1. /\ r \in Outcomes /\ Good(r.m) /\ Fits(A, r.m)
            /\ r.info = "SUCCESS" => r.m.valid
        BY <1>1, <2>3, SafeWaitIf DEF Safe
      <3>2. r.info = "SUCCESS" => ~r.m.jumbled
        <4>1. CASE A.jumbled
          BY <1>1, <2>3, <4>1, SafeWait DEF WaitIf, Settled, AnyPendingWork
        <4>2. CASE ~A.jumbled
          BY <3>1, <4>2 DEF Fits
        <4> QED BY <4>1, <4>2
      <3>3. InRange(r.m, p) /\ Orderly(r.m)
        BY <1>1, <1>3, <3>1, FitsOrderly DEF Fits, InRange
      <3>4. r.info = "SUCCESS" => Keeps(next(r.m))
        BY <2>1, <3>1, <3>2, <3>3, KeepsSetUnjumbled DEF Usable, Ready
      <3> HIDE DEF next
      <3> QED BY <1>1, <2>3, <3>1, <3>4, KeepsStep
    <2> HIDE DEF next
    <2> QED BY <2>2, <2>3 DEF Keeps
  <1> QED BY <1>2, <1>3

-----------------------------------------------------------------------------
(* GB_Matrix_removeElement *)

\* The entry that is removed becomes a zombie, or leaves the bitmap.
LEMMA ReadyDeleteEntry ==
  ASSUME NEW A, Ready(A), A.fmt # "full", NEW p \in Pos
  PROVE  LET B == DeleteEntry(A, p)
         IN  /\ Ready(B) /\ B.pend = A.pend /\ B.vlen = A.vlen /\ B.vdim = A.vdim
             /\ B.jumbled = A.jumbled
  <1>1. A \in Matrices /\ A.valid /\ StructureOK(A) /\ WorkOK(A) /\ IsoOK(A)
    BY DEF Ready, Good
  <1>2. CASE A.entry[p] \notin Val
    <2>1. DeleteEntry(A, p) = A
      BY <1>2 DEF DeleteEntry
    <2> QED BY <2>1
  <1>3. CASE A.entry[p] \in Val
    <2> DEFINE bitmap == A.fmt = "bitmap"
               gone == IF bitmap THEN Absent ELSE Zombie
               content == [A.entry EXCEPT ![p] = gone]
               nvals == IF bitmap THEN A.nvals - 1 ELSE A.nvals
               zombies == IF bitmap THEN A.nzombies ELSE A.nzombies + 1
               B == [A EXCEPT !.entry = content, !.nvals = nvals, !.nzombies = zombies]
    <2>1. /\ A.entry \in [Pos -> Val \cup {Absent, Zombie}]
          /\ A.nvals \in Nat /\ A.nzombies \in Nat
      BY <1>1 DEF Matrices
    <2>2. p \in Live(A) /\ p \in Held(A) /\ p \notin Zombies(A)
      BY <1>3, ValAssumption DEF Live, Held, Zombies
    <2>3. /\ IsFiniteSet(Held(A)) /\ IsFiniteSet(Zombies(A))
          /\ Cardinality(Held(A)) \in Nat /\ Cardinality(Held(A)) # 0
      <3>1. IsFiniteSet(Held(A)) /\ IsFiniteSet(Zombies(A)) /\ Cardinality(Held(A)) \in Nat
        BY HeldType, CountNat
      <3> QED BY <2>2, <3>1, FS_EmptySet
    <2>4. nvals \in Nat /\ zombies \in Nat
      BY <1>1, <2>1, <2>3 DEF StructureOK, CountsExact
    <2>5. DeleteEntry(A, p) = B
      <3>1. CASE bitmap
        <4>1. DeleteEntry(A, p) = [A EXCEPT !.entry[p] = Absent, !.nvals = @ - 1]
          BY <1>3, <3>1 DEF DeleteEntry
        <4> QED BY <1>1, <3>1, <4>1 DEF Matrices
      <3>2. CASE ~bitmap
        <4>1. DeleteEntry(A, p) = [A EXCEPT !.entry[p] = Zombie, !.nzombies = @ + 1]
          BY <1>3, <3>2 DEF DeleteEntry
        <4> QED BY <1>1, <3>2, <4>1 DEF Matrices
      <3> QED BY <3>1, <3>2
    <2>6. B \in Matrices
      BY <1>1, <2>1, <2>4 DEF Matrices
    <2>7. /\ B.fmt = A.fmt /\ B.entry = content /\ B.nvals = nvals /\ B.iso = A.iso
          /\ B.nzombies = zombies /\ B.nne = A.nne /\ B.h = A.h /\ B.Y = A.Y
          /\ B.jumbled = A.jumbled /\ B.unsorted = A.unsorted /\ B.valid = A.valid
          /\ B.vlen = A.vlen /\ B.vdim = A.vdim /\ B.pend = A.pend
      BY <1>1 DEF Matrices
    <2> HIDE DEF B
    <2>8. /\ Held(B) = (IF bitmap THEN Held(A) \ {p} ELSE Held(A))
          /\ Zombies(B) = (IF bitmap THEN Zombies(A) ELSE Zombies(A) \cup {p})
          /\ Live(B) = Live(A) \ {p}
          /\ \A q \in Pos \ {p} : B.entry[q] = A.entry[q]
      BY <2>1, <2>2, <2>7, ValAssumption DEF Held, Live, Zombies
    <2>9. CountsExact(B)
      <3>1. Cardinality(Held(A) \ {p}) = Cardinality(Held(A)) - 1
        BY <2>2, <2>3, FS_RemoveElement
      <3>2. Cardinality(Zombies(A) \cup {p}) = Cardinality(Zombies(A)) + 1
        BY <2>2, <2>3, FS_AddElement
      <3> QED BY <1>1, <2>7, <2>8, <3>1, <3>2 DEF StructureOK, CountsExact
    <2>10. StructureOK(B)
      <3>1. EntriesInRange(B)
        BY <1>1, <2>7, <2>8 DEF StructureOK, EntriesInRange, InRange
      <3>2. ~bitmap => Nonempty(B) = Nonempty(A)
        BY <2>8 DEF Nonempty
      <3>3. NneExact(B) /\ HyperlistCovers(B) /\ HashMatches(B)
        BY <1>1, <2>7, <3>2
        DEF StructureOK, NneExact, HyperlistCovers, HashMatches, NvecNonempty, AllVectors
      <3> QED BY <2>9, <3>1, <3>3 DEF StructureOK
    <2>11. WorkOK(B)
      <3>1. PendingPos(B) = PendingPos(A) /\ PendingPos(A) \subseteq Pos
        <4>1. A.pend.tup \in Seq(Tuples)
          BY <1>1 DEF Matrices, PendingLists
        <4>2. \A k \in DOMAIN A.pend.tup : A.pend.tup[k] \in Tuples
          BY <4>1
        <4> QED BY <2>7, <4>2 DEF PendingPos, Tuples
      <3>2. p \notin PendingPos(A)
        BY <1>1, <2>2 DEF WorkOK, PendingDisjoint, Held
      <3>3. PendingDisjoint(B)
        BY <1>1, <2>7, <2>8, <3>1, <3>2 DEF WorkOK, PendingDisjoint, InRange
      <3>4. JumbledCovers(B) /\ DenseSettled(B) /\ PendingSorted(B)
        BY <1>1, <2>7
        DEF WorkOK, JumbledCovers, DenseSettled, PendingSorted, AnyPendingWork, HasPending
      <3> QED BY <3>3, <3>4 DEF WorkOK
    <2>12. IsoOK(B)
      <3>1. A.iso # NotIso => \A q \in Live(B) : B.entry[q] = A.iso
        BY <1>1, <2>8, HeldType DEF IsoOK
      <3> QED BY <1>1, <2>7, <3>1 DEF IsoOK, HasPending
    <2>13. Ready(B)
      BY <1>1, <2>6, <2>7, <2>10, <2>11, <2>12 DEF Ready, Good
    <2> QED BY <2>5, <2>7, <2>13
  <1> QED BY <1>2, <1>3

\* GB_removeElement keeps the matrix usable.
LEMMA KeepsTryRemove ==
  ASSUME NEW A, Usable(A), NEW p \in Pos
  PROVE  Keeps(TryRemove(A, p))
  <1>1. Ready(A) /\ Orderly(A) /\ Good(A) /\ A \in Matrices
    BY DEF Usable, Ready, Good
  <1>2. CASE A.fmt = "full"
    BY <1>1, <1>2 DEF TryRemove, Keeps, Outcomes
  <1>3. CASE A.fmt # "full" /\ EntryFound(A, p)
    <2> DEFINE B == DeleteEntry(A, p)
    <2>1. /\ Ready(B) /\ B.pend = A.pend /\ B.vlen = A.vlen /\ B.vdim = A.vdim
          /\ B.jumbled = A.jumbled
      BY <1>1, <1>3, ReadyDeleteEntry
    <2>2. TryRemove(A, p) = Done(B)
      BY <1>3 DEF TryRemove
    <2> HIDE DEF B
    <2>3. Orderly(B)
      BY <1>1, <2>1 DEF Orderly, PendingBounded, HasPending, Dense
    <2> QED BY <2>1, <2>2, <2>3 DEF Keeps, Ready, Good, Done, Outcomes
  <1>4. CASE A.fmt # "full" /\ ~EntryFound(A, p)
    <2>1. TryRemove(A, p) = Done(A)
      BY <1>4 DEF TryRemove
    <2> QED BY <1>1, <2>1 DEF Keeps, Done, Outcomes
  <1> QED BY <1>2, <1>3, <1>4

\* Removing from a matrix that is neither jumbled nor full keeps it usable.
LEMMA KeepsRemovePrepared ==
  ASSUME NEW A, Usable(A), NEW p \in Nat \X Nat
  PROVE  Keeps(RemovePrepared(A, p))
  <1>1. Ready(A) /\ Orderly(A) /\ Good(A) /\ A \in Matrices
    BY DEF Usable, Ready, Good
  <1>2. CASE ~InRange(A, p)
    BY <1>1, <1>2 DEF RemovePrepared, Keeps, Outcomes
  <1>3. CASE InRange(A, p) /\ (EntryFound(A, p) \/ ~HasPending(A))
    <2>1. RemovePrepared(A, p) = TryRemove(A, p)
      BY <1>3 DEF RemovePrepared
    <2> QED BY <1>1, <1>3, <2>1, InRangePos, KeepsTryRemove
  <1>4. CASE InRange(A, p) /\ ~EntryFound(A, p) /\ HasPending(A)
    <2>1. RemovePrepared(A, p) = UNION {Then(r, TryRemove(r.m, p)) : r \in Wait(A)}
      BY <1>4 DEF RemovePrepared
    <2>2. ASSUME NEW r \in Wait(A), NEW q \in Then(r, TryRemove(r.m, p))
          PROVE  q \in Outcomes /\ Good(q.m) /\ Orderly(q.m)
      <3>1. /\ r \in Outcomes /\ Good(r.m) /\ Fits(A, r.m)
            /\ r.info = "SUCCESS" => r.m.valid
        BY <1>1, <2>2, SafeWait DEF Settled, Safe
      <3>2. r.info = "SUCCESS" => Keeps(TryRemove(r.m, p))
        <4>1. Orderly(r.m) /\ p \in Pos
          BY <1>1, <1>4, <3>1, FitsOrderly, InRangePos
        <4> QED BY <3>1, <4>1, KeepsTryRemove DEF Usable, Ready
      <3> QED BY <1>1, <2>2, <3>1, <3>2, KeepsStep
    <2> QED BY <2>1, <2>2 DEF Keeps
  <1> QED BY <1>2, <1>3, <1>4

\* GB_Matrix_removeElement keeps the matrix usable.
LEMMA KeepsRemoveElement ==
  ASSUME NEW A, Usable(A), NEW p \in Nat \X Nat
  PROVE  Keeps(RemoveElement(A, p))
  <1> DEFINE nonfull(B) == IF B.fmt = "full" THEN FullToNonfull(B) ELSE Done(B)
  <1>1. Ready(A) /\ Orderly(A)
    BY DEF Usable
  <1>2. ASSUME NEW B, Ready(B)
        PROVE  Safe(B, nonfull(B))
    <2>1. Safe(B, Done(B))
      BY <1>2, SafeDone, FitsSame
    <2> QED BY <1>2, <2>1, SafeFullToNonfull
  <1>3. PrepareRemove(A) = UNION {Then(r, nonfull(r.m)) : r \in WaitIf(A.jumbled, A)}
    BY DEF PrepareRemove
  <1> HIDE DEF nonfull
  <1>4. ASSUME NEW r \in WaitIf(A.jumbled, A), NEW q \in Then(r, nonfull(r.m))
        PROVE  /\ q \in Outcomes /\ Good(q.m) /\ Fits(A, q.m)
               /\ q.info = "SUCCESS" => q.m.valid
    <2>1. /\ r \in Outcomes /\ Good(r.m) /\ Fits(A, r.m)
          /\ r.info = "SUCCESS" => r.m.valid
      BY <1>1, <1>4, SafeWaitIf DEF Safe
    <2> DEFINE S == nonfull(r.m)
    <2>2. r.info = "SUCCESS" => Safe(r.m, S)
      BY <1>2, <2>1 DEF Ready
    <2>3. q \in Then(r, S)
      BY <1>4
    <2> HIDE DEF S
    <2> QED BY <2>1, <2>2, <2>3, SafeStep
  <1>5. Safe(A, PrepareRemove(A))
    BY <1>3, <1>4 DEF Safe
  <1>6. ASSUME NEW r \in PrepareRemove(A), NEW q \in Then(r, RemovePrepared(r.m, p))
        PROVE  q \in Outcomes /\ Good(q.m) /\ Orderly(q.m)
    <2>1. /\ r \in Outcomes /\ Good(r.m) /\ Fits(A, r.m)
          /\ r.info = "SUCCESS" => r.m.valid
      BY <1>5, <1>6 DEF Safe
    <2>2. r.info = "SUCCESS" => Keeps(RemovePrepared(r.m, p))
      BY <1>1, <2>1, FitsOrderly, KeepsRemovePrepared DEF Usable, Ready
    <2> QED BY <1>1, <1>6, <2>1, <2>2, KeepsStep
  <1> QED BY <1>6 DEF RemoveElement, Keeps

-----------------------------------------------------------------------------
(* GB_clear *)

\* GB_clear keeps the matrix usable.
LEMMA KeepsClear ==
  ASSUME NEW A, Usable(A)
  PROVE  /\ Keeps(Clear(A))
         /\ \A r \in Clear(A) :
              /\ ~r.m.jumbled
              /\ r.info = "SUCCESS" => r.m.valid /\ r.m.vlen = A.vlen /\ r.m.vdim = A.vdim
  <1>1. /\ Ready(A) /\ A \in Matrices /\ A.valid /\ StructureOK(A) /\ WorkOK(A)
        /\ Orderly(A)
    BY DEF Usable, Ready, Good
  <1>2. EmptyEntry \in [Pos -> Val \cup {Absent, Zombie}]
    BY DEF EmptyEntry
  <1> DEFINE bitmap == A.fmt = "bitmap" /\ SparsityControl(A) \cap {"sparse", "hyper"} = {}
             fresh == [PhybixFree(A) EXCEPT
                         !.valid = TRUE,
                         !.fmt = IF HyperToSparseTest(A, 0) THEN "sparse" ELSE "hyper"]
             B == [A EXCEPT !.entry = EmptyEntry, !.nvals = 0]
  <1>3. CASE bitmap
    <2>1. Clear(A) = Done(B)
      BY <1>3 DEF Clear
    <2>2. B \in Matrices
      BY <1>1, <1>2 DEF Matrices
    <2>3. /\ B.fmt = "bitmap" /\ B.entry = EmptyEntry /\ B.nvals = 0 /\ B.iso = A.iso
          /\ B.nzombies = A.nzombies /\ B.nne = A.nne /\ B.h = A.h /\ B.Y = A.Y
          /\ B.jumbled = A.jumbled /\ B.unsorted = A.unsorted /\ B.valid
          /\ B.vlen = A.vlen /\ B.vdim = A.vdim /\ B.pend = A.pend
      BY <1>1, <1>3 DEF Matrices
    <2> HIDE DEF B
    <2>4. /\ Held(B) = {} /\ Live(B) = {} /\ Zombies(B) = {}
          /\ Cardinality(Held(B)) = 0 /\ Cardinality(Zombies(B)) = 0
      BY <2>3, ValAssumption, FS_EmptySet DEF Held, Live, Zombies, EmptyEntry
    <2>5. A.nzombies = 0 /\ A.pend.tup = <<>> /\ ~A.jumbled
      BY <1>1, <1>3 DEF WorkOK, DenseSettled, AnyPendingWork, HasPending, Matrices
    <2>6. StructureOK(B)
      BY <1>1, <1>3, <2>3, <2>4, <2>5
      DEF StructureOK, EntriesInRange, CountsExact, NneExact, NvecNonempty, AllVectors,
          HyperlistCovers, HashMatches
    <2>7. WorkOK(B) /\ IsoOK(B) /\ Orderly(B)
      BY <1>1, <2>3, <2>4, <2>5
      DEF WorkOK, PendingDisjoint, PendingPos, JumbledCovers, DenseSettled, PendingSorted,
          AnyPendingWork, HasPending, IsoOK, Orderly, PendingBounded
    <2>8. Good(B)
      BY <2>2, <2>3, <2>6, <2>7 DEF Good
    <2>9. Keeps(Clear(A))
      BY <2>1, <2>2, <2>7, <2>8 DEF Keeps, Done, Outcomes
    <2> QED BY <2>1, <2>3, <2>5, <2>9 DEF Done
  <1>4. CASE ~bitmap
    <2> DEFINE F == PhybixFree(A)
    <2>1. Clear(A) = ConformSettled(fresh) \cup NoMemory(F)
      BY <1>4 DEF Clear
    <2>2. Good(F) /\ ~F.valid /\ Fits(A, F) /\ F.nne = 0 /\ F \in Matrices
      BY <1>1, GoodFreed DEF Good
    <2>3. F.pend = NoPending /\ F.nvals = 0 /\ F.nzombies = 0
          /\ F.entry = EmptyEntry /\ F.vlen = A.vlen /\ F.vdim = A.vdim
      BY <1>1 DEF PhybixFree, Matrices
    <2> HIDE DEF F
    <2> DEFINE fmt == IF HyperToSparseTest(A, 0) THEN "sparse" ELSE "hyper"
    <2>4. fresh = [F EXCEPT !.valid = TRUE, !.fmt = fmt] /\ fmt \in {"hyper", "sparse"}
      BY DEF F
    <2> HIDE DEF fresh, fmt
    <2>5. fresh \in Matrices
      BY <2>2, <2>4 DEF Matrices, Formats
    <2>6. /\ fresh.fmt \in {"hyper", "sparse"} /\ fresh.entry = EmptyEntry
          /\ fresh.nvals = 0 /\ fresh.iso = F.iso /\ fresh.nzombies = 0 /\ fresh.nne = 0
          /\ fresh.h = F.h /\ fresh.Y = F.Y /\ fresh.jumbled = F.jumbled
          /\ fresh.unsorted = F.unsorted /\ fresh.valid
          /\ fresh.vlen = A.vlen /\ fresh.vdim = A.vdim /\ fresh.pend = NoPending
      BY <2>2, <2>3, <2>4 DEF Matrices
    <2>7. /\ Held(fresh) = {} /\ Live(fresh) = {} /\ Zombies(fresh) = {}
          /\ Nonempty(fresh) = {} /\ Cardinality({}) = 0
      BY <2>6, ValAssumption, FS_EmptySet DEF Held, Live, Zombies, EmptyEntry, Nonempty
    <2>8. /\ fresh.h = {} /\ fresh.Y = NoHash /\ ~fresh.jumbled /\ fresh.unsorted = {}
          /\ fresh.iso = NotIso /\ fresh.pend.tup = <<>>
      BY <2>2, <2>6 DEF Good, Freed, AnyPendingWork, NoPending
    <2>9. StructureOK(fresh)
      BY <2>6, <2>7, <2>8
      DEF StructureOK, EntriesInRange, CountsExact, NneExact, NvecNonempty, AllVectors,
          HyperlistCovers, HashMatches
    <2>10. WorkOK(fresh) /\ IsoOK(fresh) /\ ~HasPending(fresh)
      BY <2>6, <2>7, <2>8
      DEF WorkOK, PendingDisjoint, PendingPos, JumbledCovers, DenseSettled, PendingSorted,
          AnyPendingWork, HasPending, IsoOK
    <2>11. Safe(fresh, ConformSettled(fresh))
      BY <2>5, <2>6, <2>9, <2>10, SafeConformSettled DEF Ready, Good
    <2>12. Keeps(ConformSettled(fresh))
      BY <2>10, <2>11, SafeKeeps DEF Orderly, PendingBounded
    <2>13. Keeps(NoMemory(F))
      BY <2>2, FreedOrderly DEF Keeps, NoMemory, Outcomes
    <2>14. \A r \in Clear(A) :
             /\ ~r.m.jumbled
             /\ r.info = "SUCCESS" => r.m.valid /\ r.m.vlen = A.vlen /\ r.m.vdim = A.vdim
      BY <2>1, <2>6, <2>8, <2>11 DEF Safe, Fits, NoMemory
    <2> QED BY <2>1, <2>12, <2>13, <2>14 DEF Keeps
  <1> QED BY <1>3, <1>4

-----------------------------------------------------------------------------
(* GB_resize *)

\* A resized matrix has no deferred work, or its content is freed next.
Resized(S) ==
  \A r \in S : /\ r \in Outcomes
               /\ r.info = "SUCCESS" => Ready(r.m) /\ ~AnyPendingWork(r.m)

\* What stays of the entries is in range of the new dimensions.
LEMMA TruncatedHolds ==
  ASSUME NEW A \in Matrices, NEW vlen, NEW vdim, NEW B, B.entry = Truncated(A, vlen, vdim)
  PROVE  /\ Truncated(A, vlen, vdim) \in [Pos -> Val \cup {Absent, Zombie}]
         /\ Held(B) = {p \in Held(A) : p[1] < vlen /\ p[2] < vdim}
         /\ Live(B) = {p \in Live(A) : p[1] < vlen /\ p[2] < vdim}
         /\ Zombies(B) = {p \in Zombies(A) : p[1] < vlen /\ p[2] < vdim}
         /\ \A p \in Held(B) : B.entry[p] = A.entry[p]
  <1>1. A.entry \in [Pos -> Val \cup {Absent, Zombie}]
    BY DEF Matrices
  <1>2. Truncated(A, vlen, vdim)
          = [p \in Pos |-> IF p[1] < vlen /\ p[2] < vdim THEN A.entry[p] ELSE Absent]
    BY DEF Truncated
  <1>3. \A p \in Pos : B.entry[p] = IF p[1] < vlen /\ p[2] < vdim THEN A.entry[p] ELSE Absent
    BY <1>2
  <1>4. Truncated(A, vlen, vdim) \in [Pos -> Val \cup {Absent, Zombie}]
    BY <1>1, <1>2
  <1> QED BY <1>3, <1>4, ValAssumption DEF Held, Live, Zombies

\* No deferred work: nothing is unsorted, a zombie or pending.
LEMMA IdleHolds ==
  ASSUME NEW A, Ready(A), ~AnyPendingWork(A)
  PROVE  /\ A.pend.tup = <<>> /\ A.nzombies = 0 /\ ~A.jumbled /\ A.unsorted = {}
         /\ Zombies(A) = {} /\ Held(A) = Live(A) /\ PendingPos(A) = {}
  <1>1. A \in Matrices /\ StructureOK(A) /\ WorkOK(A)
    BY DEF Ready, Good
  <1>2. A.pend.tup = <<>> /\ A.nzombies = 0 /\ ~A.jumbled
    BY <1>1 DEF AnyPendingWork, HasPending, Matrices
  <1>3. A.unsorted = {}
    BY <1>1, <1>2 DEF WorkOK, JumbledCovers
  <1>4. Zombies(A) = {}
    <2>1. Cardinality(Zombies(A)) = 0
      BY <1>1, <1>2 DEF StructureOK, CountsExact
    <2> QED BY <2>1, HeldType, CountNat, FS_EmptySet
  <1>5. Held(A) = Live(A)
    <2>1. A.entry \in [Pos -> Val \cup {Absent, Zombie}]
      BY <1>1 DEF Matrices
    <2> QED BY <1>4, <2>1, ValAssumption DEF Held, Live, Zombies
  <1> QED BY <1>2, <1>3, <1>4, <1>5 DEF PendingPos

\* A matrix without deferred work, whose structure is sound, is good.
LEMMA IdleReady ==
  ASSUME NEW A, Ready(A), ~AnyPendingWork(A), NEW B \in Matrices, StructureOK(B), B.valid,
         B.pend = A.pend, B.iso = A.iso, B.jumbled = A.jumbled, B.unsorted = A.unsorted,
         B.nzombies = A.nzombies, Held(B) \subseteq Held(A),
         \A p \in Held(B) : B.entry[p] = A.entry[p]
  PROVE  Ready(B) /\ ~AnyPendingWork(B)
  <1>1. /\ A.pend.tup = <<>> /\ A.nzombies = 0 /\ ~A.jumbled /\ A.unsorted = {}
        /\ Held(A) = Live(A) /\ IsoOK(A)
    BY IdleHolds DEF Ready, Good
  <1>2. ~AnyPendingWork(B) /\ ~HasPending(B)
    BY <1>1 DEF AnyPendingWork, HasPending
  <1>3. WorkOK(B)
    BY <1>1, <1>2
    DEF WorkOK, PendingDisjoint, PendingPos, JumbledCovers, DenseSettled, PendingSorted
  <1>4. IsoOK(B)
    <2>1. Live(B) \subseteq Held(B)
      BY ValAssumption DEF Live, Held
    <2>2. B.iso # NotIso => \A p \in Live(B) : B.entry[p] = B.iso
      BY <1>1, <2>1 DEF IsoOK
    <2> QED BY <1>1, <1>2, <2>2 DEF IsoOK
  <1> QED BY <1>2, <1>3, <1>4 DEF Ready, Good

\* A full or bitmap matrix is sound in its smaller size.
LEMMA ResizedShrinkDense ==
  ASSUME NEW A, Ready(A), ~AnyPendingWork(A), A.fmt \in {"full", "bitmap"},
         NEW vlen \in 0 .. MaxVlen, NEW vdim \in 0 .. MaxVdim,
         vlen <= A.vlen, vdim <= A.vdim
  PROVE  Resized(ShrinkDense(A, vlen, vdim))
  <1> DEFINE B == [A EXCEPT !.entry = Truncated(A, vlen, vdim), !.vlen = vlen, !.vdim = vdim]
             D == [B EXCEPT !.nvals = IF A.fmt = "bitmap" THEN Cardinality(Live(B)) ELSE @,
                            !.nne = AllVectors(B)]
  <1>1. A \in Matrices /\ A.valid /\ StructureOK(A)
    BY DEF Ready, Good
  <1>2. Truncated(A, vlen, vdim) \in [Pos -> Val \cup {Absent, Zombie}]
    <2>1. [entry |-> Truncated(A, vlen, vdim)].entry = Truncated(A, vlen, vdim)
      OBVIOUS
    <2> QED BY <1>1, <2>1, TruncatedHolds
  <1>3. B \in Matrices
    BY <1>1, <1>2 DEF Matrices
  <1>4. /\ B.entry = Truncated(A, vlen, vdim) /\ B.vlen = vlen /\ B.vdim = vdim
        /\ B.fmt = A.fmt /\ B.nvals = A.nvals /\ B.iso = A.iso /\ B.nzombies = A.nzombies
        /\ B.h = A.h /\ B.Y = A.Y /\ B.jumbled = A.jumbled /\ B.unsorted = A.unsorted
        /\ B.valid = A.valid /\ B.pend = A.pend
    BY <1>1 DEF Matrices
  <1>5. ShrinkDense(A, vlen, vdim)
          = Done(D) \cup (IF A.fmt = "full" /\ A.iso # NotIso THEN {} ELSE NoMemory(A))
    BY DEF ShrinkDense
  <1> HIDE DEF B
  <1>6. Cardinality(Live(B)) \in Nat /\ AllVectors(B) \in Nat
    BY <1>3, HeldCounts, DenseNat
  <1>7. D \in Matrices
    BY <1>3, <1>6 DEF Matrices
  <1>8. /\ D.entry = B.entry /\ D.vlen = vlen /\ D.vdim = vdim /\ D.fmt = A.fmt
        /\ A.fmt = "bitmap" => D.nvals = Cardinality(Live(B))
        /\ D.iso = A.iso /\ D.nzombies = A.nzombies /\ D.nne = AllVectors(B)
        /\ D.h = A.h /\ D.Y = A.Y /\ D.jumbled = A.jumbled /\ D.unsorted = A.unsorted
        /\ D.valid /\ D.pend = A.pend
    BY <1>1, <1>3, <1>4 DEF Matrices
  <1> HIDE DEF D
  <1>9. /\ Held(D) = {p \in Held(A) : p[1] < vlen /\ p[2] < vdim}
        /\ Live(D) = {p \in Live(A) : p[1] < vlen /\ p[2] < vdim}
        /\ Zombies(D) = {p \in Zombies(A) : p[1] < vlen /\ p[2] < vdim}
        /\ \A p \in Held(D) : D.entry[p] = A.entry[p]
    BY <1>1, <1>4, <1>8, TruncatedHolds
  <1>10. Live(B) = Live(D) /\ Zombies(A) = {} /\ Held(A) = Live(A) /\ A.nzombies = 0
    BY <1>8, SameSets, IdleHolds
  <1>11. StructureOK(D)
    <2>1. EntriesInRange(D)
      BY <1>8, <1>9 DEF EntriesInRange, InRange
    <2>2. Zombies(D) = {} /\ Held(D) = Live(D)
      BY <1>9, <1>10
    <2>3. A.fmt = "full" => Live(D) = {p \in Pos : InRange(D, p)}
      <3>1. A.fmt = "full" => Live(A) = {p \in Pos : InRange(A, p)}
        BY <1>1 DEF StructureOK, CountsExact
      <3>2. \A p \in Pos : InRange(D, p) => InRange(A, p)
        <4>1. \A p \in Pos : p[1] \in Int /\ p[2] \in Int
          BY DimsAssumption DEF Pos
        <4>2. A.vlen \in Int /\ A.vdim \in Int /\ vlen \in Int /\ vdim \in Int
          BY <1>1, DimsAssumption DEF Matrices
        <4> QED BY <1>8, <4>1, <4>2 DEF InRange
      <3> QED BY <1>8, <1>9, <3>1, <3>2 DEF InRange
    <2>4. CountsExact(D)
      BY <1>8, <1>10, <2>2, <2>3, FS_EmptySet DEF CountsExact
    <2>5. AllVectors(D) = AllVectors(B)
      BY <1>4, <1>8 DEF AllVectors
    <2>6. NneExact(D) /\ HyperlistCovers(D) /\ HashMatches(D)
      BY <1>1, <1>8, <2>5
      DEF StructureOK, NneExact, HyperlistCovers, HashMatches, NvecNonempty
    <2> QED BY <2>1, <2>4, <2>6 DEF StructureOK
  <1>12. Ready(D) /\ ~AnyPendingWork(D)
    BY <1>7, <1>8, <1>9, <1>11, IdleReady
  <1>13. \A r \in Done(D) : r \in Outcomes /\ r.m = D
    BY <1>7 DEF Done, Outcomes
  <1>14. \A r \in NoMemory(A) : r \in Outcomes /\ r.info # "SUCCESS"
    BY <1>1 DEF NoMemory, Outcomes
  <1> QED BY <1>5, <1>12, <1>13, <1>14 DEF Resized

\* A hypersparse matrix that is trimmed to vlen by vdim, but has its old size.
Trimmed(A, vlen, vdim) ==
  /\ Ready(A) /\ ~AnyPendingWork(A) /\ A.fmt = "hyper"
  /\ \A p \in Held(A) : p[1] < vlen /\ p[2] < vdim
  /\ \A j \in A.h : j < vdim

\* The entries of a hypersparse matrix are cut to vlen by vdim, and counted.
LEMMA TrimmedTo ==
  ASSUME NEW A, Ready(A), ~AnyPendingWork(A), A.fmt = "hyper", NEW vlen, NEW vdim,
         NEW B \in Matrices, B.entry = Truncated(A, vlen, vdim),
         B.vlen = A.vlen, B.vdim = A.vdim, B.fmt = A.fmt, B.iso = A.iso,
         B.nzombies = A.nzombies, B.jumbled = A.jumbled, B.unsorted = A.unsorted,
         B.valid = A.valid, B.pend = A.pend, B.Y = NoHash,
         B.nvals = Cardinality(Held(B)), NneExact(B),
         B.h \subseteq A.h, \A j \in A.h : j < vdim => j \in B.h
  PROVE  Ready(B) /\ ~AnyPendingWork(B)
  <1>1. A \in Matrices /\ A.valid /\ StructureOK(A)
    BY DEF Ready, Good
  <1>2. /\ Held(B) = {p \in Held(A) : p[1] < vlen /\ p[2] < vdim}
        /\ Zombies(B) = {p \in Zombies(A) : p[1] < vlen /\ p[2] < vdim}
        /\ \A p \in Held(B) : B.entry[p] = A.entry[p]
    BY <1>1, TruncatedHolds
  <1>3. Zombies(B) = {} /\ A.nzombies = 0
    BY <1>2, IdleHolds
  <1>4. EntriesInRange(B) /\ CountsExact(B) /\ HashMatches(B)
    BY <1>1, <1>2, <1>3, FS_EmptySet
    DEF StructureOK, EntriesInRange, InRange, CountsExact, HashMatches
  <1>5. HyperlistCovers(B)
    BY <1>1, <1>2 DEF StructureOK, HyperlistCovers, Nonempty
  <1>6. StructureOK(B)
    BY <1>4, <1>5 DEF StructureOK
  <1> QED BY <1>1, <1>2, <1>6, IdleReady

\* Trimming the hyperlist drops just the entries of the vectors that are
\* gone.
LEMMA TrimmedVectors ==
  ASSUME NEW A, Ready(A), ~AnyPendingWork(A), A.fmt = "hyper",
         NEW vdim \in 0 .. MaxVdim
  PROVE  Trimmed(TrimVectors(A, vdim), A.vlen, vdim)
         /\ TrimVectors(A, vdim).vlen = A.vlen
  <1> DEFINE B == [A EXCEPT !.entry = Truncated(A, A.vlen, vdim),
                            !.h = {j \in @ : j < vdim}, !.Y = NoHash]
             D == [B EXCEPT !.nvals = Cardinality(Held(B)), !.nne = -1]
  <1>1. A \in Matrices /\ A.valid /\ StructureOK(A)
    BY DEF Ready, Good
  <1>2. Truncated(A, A.vlen, vdim) \in [Pos -> Val \cup {Absent, Zombie}]
    <2>1. [entry |-> Truncated(A, A.vlen, vdim)].entry = Truncated(A, A.vlen, vdim)
      OBVIOUS
    <2> QED BY <1>1, <2>1, TruncatedHolds
  <1>3. B \in Matrices
    BY <1>1, <1>2 DEF Matrices
  <1>4. /\ B.entry = Truncated(A, A.vlen, vdim) /\ B.vlen = A.vlen /\ B.vdim = A.vdim
        /\ B.fmt = A.fmt /\ B.nvals = A.nvals /\ B.iso = A.iso /\ B.nzombies = A.nzombies
        /\ B.h = {j \in A.h : j < vdim} /\ B.Y = NoHash /\ B.jumbled = A.jumbled
        /\ B.unsorted = A.unsorted /\ B.valid = A.valid /\ B.pend = A.pend /\ B.nne = A.nne
    BY <1>1 DEF Matrices
  <1>5. TrimVectors(A, vdim) = IF vdim < A.vdim THEN D ELSE B
    BY DEF TrimVectors
  <1> HIDE DEF B
  <1>6. D \in Matrices
    BY <1>3, HeldCounts DEF Matrices
  <1>7. /\ D.entry = B.entry /\ D.vlen = B.vlen /\ D.vdim = B.vdim
        /\ D.fmt = B.fmt /\ D.nvals = Cardinality(Held(B)) /\ D.iso = B.iso
        /\ D.nzombies = B.nzombies /\ D.nne = -1
        /\ D.h = B.h /\ D.Y = NoHash /\ D.jumbled = B.jumbled
        /\ D.unsorted = B.unsorted /\ D.valid = B.valid /\ D.pend = B.pend
    BY <1>3, <1>4 DEF Matrices
  <1> HIDE DEF D
  <1>8. /\ Held(B) = {p \in Held(A) : p[1] < A.vlen /\ p[2] < vdim}
        /\ Held(D) = Held(B)
    BY <1>1, <1>4, <1>7, TruncatedHolds, SameSets
  <1>9. CASE vdim < A.vdim
    <2>1. NneExact(D)
      BY <1>7 DEF NneExact
    <2>2. /\ D.entry = Truncated(A, A.vlen, vdim) /\ D.vlen = A.vlen /\ D.vdim = A.vdim
          /\ D.fmt = A.fmt /\ D.nvals = Cardinality(Held(D)) /\ D.iso = A.iso
          /\ D.nzombies = A.nzombies /\ D.jumbled = A.jumbled /\ D.unsorted = A.unsorted
          /\ D.valid = A.valid /\ D.pend = A.pend /\ D.Y = NoHash
          /\ D.h \subseteq A.h /\ \A j \in A.h : j < vdim => j \in D.h
      BY <1>4, <1>7, <1>8
    <2>3. Ready(D) /\ ~AnyPendingWork(D)
      BY <1>6, <2>1, <2>2, TrimmedTo
    <2> QED BY <1>4, <1>5, <1>7, <1>8, <1>9, <2>3 DEF Trimmed
  <1>10. CASE ~(vdim < A.vdim)
    <2>1. \A p \in Held(A) : p[1] < A.vlen /\ p[2] < vdim
      <3>1. \A p \in Held(A) : InRange(A, p) /\ p \in Pos
        BY <1>1, HeldType DEF StructureOK, EntriesInRange
      <3>2. \A p \in Pos : p[2] \in Int
        BY DimsAssumption DEF Pos
      <3>3. A.vdim \in Int /\ vdim \in Int
        BY <1>1, DimsAssumption DEF Matrices
      <3> QED BY <1>10, <3>1, <3>2, <3>3 DEF InRange
    <2>2. Held(B) = Held(A)
      BY <1>8, <2>1
    <2>3. Nonempty(B) = Nonempty(A) /\ B.nvals = Cardinality(Held(B))
      BY <1>1, <1>4, <2>2 DEF Nonempty, StructureOK, CountsExact
    <2>4. NneExact(B)
      BY <1>1, <1>4, <2>3 DEF StructureOK, NneExact, NvecNonempty
    <2>5. Ready(B) /\ ~AnyPendingWork(B)
      BY <1>3, <1>4, <2>3, <2>4, TrimmedTo
    <2> QED BY <1>4, <1>5, <1>8, <1>10, <2>5 DEF Trimmed
  <1> QED BY <1>9, <1>10

\* Pruning the hyperlist keeps a trimmed matrix trimmed.
LEMMA TrimmedPrune ==
  ASSUME NEW A, NEW vlen, NEW vdim, Trimmed(A, vlen, vdim),
         NEW r \in HyperPrune(A)
  PROVE  /\ r \in Outcomes /\ (r.info = "SUCCESS" => Trimmed(r.m, vlen, vdim))
         /\ r.m.vlen = A.vlen
  <1>1. Ready(A) /\ ~AnyPendingWork(A) /\ A.fmt = "hyper" /\ A \in Matrices
    BY DEF Trimmed, Ready, Good
  <1>2. /\ r \in Outcomes /\ Good(r.m) /\ Fits(A, r.m)
        /\ r.info = "SUCCESS" => r.m.valid /\ SameContent(A, r.m)
    BY <1>1, SafeHyperPrune DEF Safe
  <1>3. ASSUME r.info = "SUCCESS"
        PROVE  r.m.h \subseteq A.h \/ r.m.h \subseteq Nonempty(A)
    <2> DEFINE B == UpdateNne(A)
               D == [B EXCEPT !.h = Nonempty(B), !.Y = NoHash,
                              !.nne = Cardinality(Nonempty(B))]
    <2>1. B \in Matrices /\ B.h = A.h /\ B.entry = A.entry
      <3>1. Ready(B) /\ B = [A EXCEPT !.nne = NvecNonempty(A)]
        BY <1>1, SafeUpdateNne
      <3> QED BY <1>1, <3>1 DEF Ready, Good, Matrices
    <2>2. HyperPrune(A) = Done(B) \/ HyperPrune(A) = Done(D) \cup NoMemory(B)
      BY <1>1 DEF HyperPrune
    <2> HIDE DEF B
    <2>3. D.h = Nonempty(B)
      BY <2>1 DEF Matrices
    <2> HIDE DEF D
    <2>4. r.m = B \/ r.m = D
      BY <1>3, <2>2 DEF Done, NoMemory
    <2> QED BY <2>1, <2>3, <2>4, SameSets
  <1>4. ASSUME r.info = "SUCCESS"
        PROVE  Trimmed(r.m, vlen, vdim)
    <2>1. ~AnyPendingWork(r.m) /\ r.m.fmt = "hyper" /\ Held(r.m) = Held(A)
      BY <1>1, <1>2, <1>4, FitsIdle, SameSets DEF Good, SameContent
    <2>2. \A j \in r.m.h : j < vdim
      BY <1>3, <1>4 DEF Trimmed, Nonempty
    <2> QED BY <1>2, <1>4, <2>1, <2>2 DEF Trimmed, Ready
  <1> QED BY <1>2, <1>4 DEF Fits

\* Selecting the rows that stay keeps a trimmed matrix trimmed.
LEMMA TrimmedRows ==
  ASSUME NEW A, NEW vlen \in 0 .. MaxVlen, NEW vdim, Trimmed(A, A.vlen, vdim),
         NEW r \in SelectRows(A, vlen)
  PROVE  r \in Outcomes /\ (r.info = "SUCCESS" => Trimmed(r.m, vlen, vdim))
  <1>1. /\ Ready(A) /\ ~AnyPendingWork(A) /\ A.fmt = "hyper"
        /\ A \in Matrices /\ A.valid /\ StructureOK(A)
    BY DEF Trimmed, Ready, Good
  <1>2. CASE vlen < A.vlen
    <2> DEFINE B == [A EXCEPT !.entry = Truncated(A, vlen, A.vdim), !.Y = NoHash]
               D == [B EXCEPT !.nvals = Cardinality(Held(B)),
                              !.nne = Cardinality(Nonempty(B))]
    <2>1. Truncated(A, vlen, A.vdim) \in [Pos -> Val \cup {Absent, Zombie}]
      <3>1. [entry |-> Truncated(A, vlen, A.vdim)].entry = Truncated(A, vlen, A.vdim)
        OBVIOUS
      <3> QED BY <1>1, <3>1, TruncatedHolds
    <2>2. B \in Matrices
      BY <1>1, <2>1 DEF Matrices
    <2>3. /\ B.entry = Truncated(A, vlen, A.vdim) /\ B.vlen = A.vlen /\ B.vdim = A.vdim
          /\ B.fmt = A.fmt /\ B.iso = A.iso /\ B.nzombies = A.nzombies
          /\ B.h = A.h /\ B.Y = NoHash /\ B.jumbled = A.jumbled
          /\ B.unsorted = A.unsorted /\ B.valid = A.valid /\ B.pend = A.pend
      BY <1>1 DEF Matrices
    <2>4. SelectRows(A, vlen) = HyperPrune(D) \cup NoMemory(A)
      BY <1>2 DEF SelectRows
    <2> HIDE DEF B
    <2>5. D \in Matrices
      BY <2>2, HeldCounts DEF Matrices
    <2>6. /\ D.entry = B.entry /\ D.vlen = A.vlen /\ D.vdim = A.vdim
          /\ D.fmt = A.fmt /\ D.nvals = Cardinality(Held(B)) /\ D.iso = A.iso
          /\ D.nzombies = A.nzombies /\ D.nne = Cardinality(Nonempty(B))
          /\ D.h = A.h /\ D.Y = NoHash /\ D.jumbled = A.jumbled
          /\ D.unsorted = A.unsorted /\ D.valid = A.valid /\ D.pend = A.pend
      BY <2>2, <2>3 DEF Matrices
    <2> HIDE DEF D
    <2>7. /\ Held(D) = {p \in Held(A) : p[1] < vlen /\ p[2] < A.vdim}
          /\ Held(D) = Held(B) /\ Nonempty(D) = Nonempty(B)
      BY <1>1, <2>3, <2>6, TruncatedHolds, SameSets
    <2>8. /\ D.entry = Truncated(A, vlen, A.vdim) /\ D.nvals = Cardinality(Held(D))
          /\ NneExact(D)
      BY <1>1, <2>3, <2>6, <2>7 DEF NneExact, NvecNonempty
    <2>9. Ready(D) /\ ~AnyPendingWork(D)
      BY <1>1, <2>5, <2>6, <2>8, TrimmedTo
    <2>10. Trimmed(D, vlen, vdim)
      BY <1>1, <2>6, <2>7, <2>9 DEF Trimmed
    <2>11. \A q \in NoMemory(A) : q \in Outcomes /\ q.info # "SUCCESS"
      BY <1>1 DEF NoMemory, Outcomes
    <2> QED BY <2>4, <2>10, <2>11, TrimmedPrune
  <1>3. CASE ~(vlen < A.vlen)
    <2>1. SelectRows(A, vlen) = Done(A)
      BY <1>3 DEF SelectRows
    <2>2. \A p \in Held(A) : p[1] < vlen
      <3>1. \A p \in Pos : p[1] \in Int
        BY DimsAssumption DEF Pos
      <3>2. A.vlen \in Int /\ vlen \in Int
        BY <1>1, DimsAssumption DEF Matrices
      <3>3. \A p \in Held(A) : p \in Pos /\ p[1] < A.vlen
        BY HeldType DEF Trimmed
      <3> QED BY <1>3, <3>1, <3>2, <3>3
    <2>3. Trimmed(A, vlen, vdim)
      BY <2>2 DEF Trimmed
    <2> QED BY <1>1, <2>1, <2>3 DEF Done, Outcomes
  <1> QED BY <1>2, <1>3

\* The trimmed matrix is given its new size.
LEMMA TrimmedResized ==
  ASSUME NEW A, NEW vlen \in 0 .. MaxVlen, NEW vdim \in 0 .. MaxVdim, Trimmed(A, vlen, vdim)
  PROVE  LET B == [A EXCEPT !.vlen = vlen, !.vdim = vdim]
         IN  Ready(B) /\ ~AnyPendingWork(B)
  <1> DEFINE B == [A EXCEPT !.vlen = vlen, !.vdim = vdim]
  <1>1. /\ Ready(A) /\ ~AnyPendingWork(A) /\ A.fmt = "hyper"
        /\ A \in Matrices /\ A.valid /\ StructureOK(A)
    BY DEF Trimmed, Ready, Good
  <1>2. B \in Matrices
    BY <1>1 DEF Matrices
  <1>3. /\ B.fmt = A.fmt /\ B.entry = A.entry /\ B.nvals = A.nvals /\ B.iso = A.iso
        /\ B.nzombies = A.nzombies /\ B.nne = A.nne /\ B.h = A.h /\ B.Y = A.Y
        /\ B.jumbled = A.jumbled /\ B.unsorted = A.unsorted /\ B.valid = A.valid
        /\ B.vlen = vlen /\ B.vdim = vdim /\ B.pend = A.pend
    BY <1>1 DEF Matrices
  <1> HIDE DEF B
  <1>4. EntriesInRange(B)
    BY <1>3, SameSets DEF Trimmed, EntriesInRange, InRange
  <1>5. HyperlistCovers(B)
    <2>1. A.h \subseteq 0 .. vdim - 1
      <3>1. A.h \subseteq Vectors
        BY <1>1 DEF Matrices
      <3> QED BY <3>1, DimsAssumption DEF Trimmed, Vectors
    <2> QED BY <1>1, <1>3, <2>1, SameSets DEF StructureOK, HyperlistCovers
  <1>6. CountsExact(B) /\ NneExact(B) /\ HashMatches(B)
    BY <1>1, <1>3, SameSets DEF StructureOK, CountsExact, NneExact, NvecNonempty, HashMatches
  <1>7. StructureOK(B)
    BY <1>4, <1>5, <1>6 DEF StructureOK
  <1>8. Ready(B) /\ ~AnyPendingWork(B)
    BY <1>1, <1>2, <1>3, <1>7, IdleReady, SameSets
  <1> QED BY <1>8 DEF B

\* A matrix that is resized as a hypersparse one is sound in its new size.
LEMMA ResizedHyper ==
  ASSUME NEW A, Ready(A), ~AnyPendingWork(A),
         NEW vlen \in 0 .. MaxVlen, NEW vdim \in 0 .. MaxVdim
  PROVE  Resized(ResizeHyper(A, vlen, vdim))
  <1> DEFINE cut(B) == SelectRows(TrimVectors(B, vdim), vlen)
             rows == UNION {Then(r, cut(r.m)) : r \in AnyToHyper(A)}
             pruned == UNION {Then(r, HyperPrune(r.m)) : r \in rows}
             sized(r) == [r EXCEPT !.m = [@ EXCEPT !.vlen = vlen, !.vdim = vdim]]
  <1>1. ResizeHyper(A, vlen, vdim) = {sized(r) : r \in pruned}
    BY DEF ResizeHyper
  <1>2. ASSUME NEW r \in AnyToHyper(A), NEW q \in Then(r, cut(r.m))
        PROVE  q \in Outcomes /\ (q.info = "SUCCESS" => Trimmed(q.m, vlen, vdim))
    <2>1. /\ r \in Outcomes /\ Good(r.m) /\ Fits(A, r.m)
          /\ r.info = "SUCCESS" => r.m.valid /\ r.m.fmt = "hyper"
      BY <1>2, SafeAnyToHyper DEF Safe
    <2>2. CASE r.info = "SUCCESS"
      <3>1. Ready(r.m) /\ ~AnyPendingWork(r.m)
        BY <2>1, <2>2, FitsIdle DEF Ready, Good
      <3>2. /\ Trimmed(TrimVectors(r.m, vdim), r.m.vlen, vdim)
            /\ TrimVectors(r.m, vdim).vlen = r.m.vlen
        BY <2>1, <2>2, <3>1, TrimmedVectors
      <3> QED BY <1>2, <2>2, <3>2, TrimmedRows DEF Then
    <2>3. CASE r.info # "SUCCESS"
      BY <1>2, <2>1, <2>3 DEF Then
    <2> QED BY <2>2, <2>3
  <1> HIDE DEF cut
  <1>3. ASSUME NEW r \in rows, NEW q \in Then(r, HyperPrune(r.m))
        PROVE  q \in Outcomes /\ (q.info = "SUCCESS" => Trimmed(q.m, vlen, vdim))
    <2>1. r \in Outcomes /\ (r.info = "SUCCESS" => Trimmed(r.m, vlen, vdim))
      BY <1>2, <1>3
    <2> HIDE DEF rows
    <2> QED BY <1>3, <2>1, TrimmedPrune DEF Then
  <1> HIDE DEF rows
  <1>4. ASSUME NEW r \in pruned
        PROVE  /\ sized(r) \in Outcomes
               /\ sized(r).info = "SUCCESS" => Ready(sized(r).m) /\ ~AnyPendingWork(sized(r).m)
    <2>1. r \in Outcomes /\ (r.info = "SUCCESS" => Trimmed(r.m, vlen, vdim))
      BY <1>3, <1>4
    <2> DEFINE B == [r.m EXCEPT !.vlen = vlen, !.vdim = vdim]
    <2>2. B \in Matrices
      BY <2>1 DEF Outcomes, Matrices
    <2>3. sized(r) = [r EXCEPT !.m = B]
      BY <2>1 DEF Outcomes
    <2>4. r.info = "SUCCESS" => Ready(B) /\ ~AnyPendingWork(B)
      BY <2>1, TrimmedResized
    <2> HIDE DEF B, sized
    <2> QED BY <2>1, <2>2, <2>3, <2>4 DEF Outcomes
  <1> HIDE DEF pruned, sized
  <1> QED BY <1>1, <1>4 DEF Resized

\* GB_resize keeps the matrix usable, or frees it; what it has changed is sorted.
LEMMA KeepsResize ==
  ASSUME NEW A, Usable(A), NEW vlen \in 0 .. MaxVlen, NEW vdim \in 0 .. MaxVdim
  PROVE  /\ Keeps(Resize(A, vlen, vdim))
         /\ \A r \in Resize(A, vlen, vdim) : r.m = A \/ ~r.m.jumbled
  <1> DEFINE shrinking == vlen <= A.vlen /\ vdim <= A.vdim
             resized(B) == IF B.fmt \in {"full", "bitmap"} /\ shrinking
                           THEN ShrinkDense(B, vlen, vdim) ELSE ResizeHyper(B, vlen, vdim)
             worked == UNION {Then(r, resized(r.m)) : r \in WaitIf(AnyPendingWork(A), A)}
             conformed == UNION {Then(q, ConformSettled(q.m)) : q \in worked}
  <1>1. Ready(A) /\ Orderly(A) /\ Good(A) /\ A \in Matrices
    BY DEF Usable, Ready, Good
  <1>2. CASE vlen = A.vlen /\ vdim = A.vdim
    <2>1. Resize(A, vlen, vdim) = Done(A)
      BY <1>2 DEF Resize
    <2> QED BY <1>1, <2>1 DEF Keeps, Done, Outcomes
  <1>3. CASE ~(vlen = A.vlen /\ vdim = A.vdim)
    <2>1. Resize(A, vlen, vdim) = {FreeOnError(r) : r \in conformed}
      BY <1>3 DEF Resize
    <2>2. ASSUME NEW r \in WaitIf(AnyPendingWork(A), A), NEW q \in Then(r, resized(r.m))
          PROVE  /\ q \in Outcomes
                 /\ q.info = "SUCCESS" => Ready(q.m) /\ ~AnyPendingWork(q.m)
      <3>1. /\ r \in Outcomes /\ Good(r.m) /\ Fits(A, r.m)
            /\ r.info = "SUCCESS" => r.m.valid
        BY <1>1, <2>2, SafeWaitIf DEF Safe
      <3>2. CASE r.info = "SUCCESS"
        <4>1. ~AnyPendingWork(r.m)
          <5>1. CASE AnyPendingWork(A)
            BY <1>1, <2>2, <5>1, SafeWait DEF WaitIf, Settled
          <5>2. CASE ~AnyPendingWork(A)
            BY <1>1, <3>1, <5>2, FitsIdle DEF Good
          <5> QED BY <5>1, <5>2
        <4>2. Resized(resized(r.m))
          <5>1. Ready(r.m) /\ r.m.vlen = A.vlen /\ r.m.vdim = A.vdim
            BY <3>1, <3>2 DEF Ready, Fits
          <5>2. CASE r.m.fmt \in {"full", "bitmap"} /\ shrinking
            BY <4>1, <5>1, <5>2, ResizedShrinkDense
          <5>3. CASE ~(r.m.fmt \in {"full", "bitmap"} /\ shrinking)
            BY <4>1, <5>1, <5>3, ResizedHyper
          <5> QED BY <5>2, <5>3
        <4> HIDE DEF resized
        <4> QED BY <2>2, <3>2, <4>2 DEF Then, Resized
      <3>3. CASE r.info # "SUCCESS"
        BY <2>2, <3>1, <3>3 DEF Then
      <3> QED BY <3>2, <3>3
    <2> HIDE DEF resized
    <2>3. ASSUME NEW q \in worked, NEW x \in Then(q, ConformSettled(q.m))
          PROVE  /\ x \in Outcomes
                 /\ x.info = "SUCCESS" => Good(x.m) /\ ~AnyPendingWork(x.m)
      <3>1. /\ q \in Outcomes
            /\ q.info = "SUCCESS" => Ready(q.m) /\ ~AnyPendingWork(q.m)
        BY <2>2, <2>3
      <3> HIDE DEF worked
      <3>2. CASE q.info = "SUCCESS"
        <4>1. Safe(q.m, ConformSettled(q.m)) /\ x \in ConformSettled(q.m)
          BY <2>3, <3>1, <3>2, SafeConformSettled DEF Then, AnyPendingWork
        <4>2. x \in Outcomes /\ Good(x.m) /\ Fits(q.m, x.m)
          BY <4>1 DEF Safe
        <4> QED BY <3>1, <3>2, <4>2, FitsIdle DEF Good, Ready
      <3>3. CASE q.info # "SUCCESS"
        BY <2>3, <3>1, <3>3 DEF Then
      <3> QED BY <3>2, <3>3
    <2> HIDE DEF worked
    <2>4. ASSUME NEW x \in conformed
          PROVE  /\ FreeOnError(x) \in Outcomes /\ Good(FreeOnError(x).m)
                 /\ Orderly(FreeOnError(x).m)
                 /\ ~FreeOnError(x).m.jumbled
      <3>1. /\ x \in Outcomes
            /\ x.info = "SUCCESS" => Good(x.m) /\ ~AnyPendingWork(x.m)
        BY <2>3, <2>4
      <3>2. CASE x.info = "SUCCESS"
        BY <3>1, <3>2 DEF FreeOnError, Orderly, PendingBounded, AnyPendingWork
      <3>3. CASE x.info # "SUCCESS"
        <4> DEFINE F == PhybixFree(x.m)
        <4>1. Good(F) /\ ~F.valid /\ F \in Matrices /\ Orderly(F) /\ ~F.jumbled
          BY <3>1, GoodFreed, FreedOrderly DEF Outcomes, Good, Freed, AnyPendingWork
        <4>2. FreeOnError(x) = [x EXCEPT !.m = F]
          BY <3>3 DEF FreeOnError
        <4> HIDE DEF F
        <4>3. FreeOnError(x).info = x.info
          BY <3>1, <4>2 DEF Outcomes
        <4> QED BY <3>1, <3>3, <4>1, <4>2, <4>3 DEF Outcomes
      <3> QED BY <3>2, <3>3
    <2> HIDE DEF conformed
    <2> QED BY <2>1, <2>4 DEF Keeps
  <1> QED BY <1>2, <1>3

-----------------------------------------------------------------------------
(* GB_matvec_set *)

\* Other settings do not make a matrix less sound.
LEMMA ReadySettings ==
  ASSUME NEW A, Ready(A), NEW control \in (SUBSET Formats) \ {{}}, NEW nohash \in BOOLEAN
  PROVE  LET B == [A EXCEPT !.control = control]
             D == [A EXCEPT !.nohash = nohash]
         IN  Ready(B) /\ Fits(A, B) /\ Ready(D) /\ Fits(A, D)
  <1>1. /\ A \in Matrices /\ A.valid /\ StructureOK(A) /\ WorkOK(A)
    BY DEF Ready, Good
  <1>2. ASSUME NEW B \in Matrices,
               B.fmt = A.fmt, B.entry = A.entry, B.nvals = A.nvals, B.iso = A.iso,
               B.nzombies = A.nzombies, B.nne = A.nne, B.h = A.h, B.Y = A.Y,
               B.jumbled = A.jumbled, B.unsorted = A.unsorted, B.valid = A.valid,
               B.vlen = A.vlen, B.vdim = A.vdim, B.pend = A.pend
        PROVE  Ready(B) /\ Fits(A, B)
    <2>1. NneExact(B) /\ HyperlistCovers(B) /\ HashMatches(B)
      BY <1>1, <1>2, SameSets
      DEF StructureOK, NneExact, HyperlistCovers, HashMatches, NvecNonempty, AllVectors
    <2> QED BY <1>1, <1>2, <2>1, Restructured
            DEF StructureOK, CountsExact, WorkOK, DenseSettled
  <1> DEFINE B == [A EXCEPT !.control = control]
             D == [A EXCEPT !.nohash = nohash]
  <1>3. B \in Matrices /\ D \in Matrices
    BY <1>1 DEF Matrices
  <1>4. /\ B.fmt = A.fmt /\ B.entry = A.entry /\ B.nvals = A.nvals /\ B.iso = A.iso
        /\ B.nzombies = A.nzombies /\ B.nne = A.nne /\ B.h = A.h /\ B.Y = A.Y
        /\ B.jumbled = A.jumbled /\ B.unsorted = A.unsorted /\ B.valid = A.valid
        /\ B.vlen = A.vlen /\ B.vdim = A.vdim /\ B.pend = A.pend
    BY <1>1 DEF Matrices
  <1>5. /\ D.fmt = A.fmt /\ D.entry = A.entry /\ D.nvals = A.nvals /\ D.iso = A.iso
        /\ D.nzombies = A.nzombies /\ D.nne = A.nne /\ D.h = A.h /\ D.Y = A.Y
        /\ D.jumbled = A.jumbled /\ D.unsorted = A.unsorted /\ D.valid = A.valid
        /\ D.vlen = A.vlen /\ D.vdim = A.vdim /\ D.pend = A.pend
    BY <1>1 DEF Matrices
  <1> HIDE DEF B, D
  <1>6. Ready(B) /\ Fits(A, B) /\ Ready(D) /\ Fits(A, D)
    BY <1>2, <1>3, <1>4, <1>5
  <1> QED BY <1>6 DEF B, D

\* Setting GxB_SPARSITY_CONTROL keeps the matrix sound.
LEMMA SafeSetSparsityControl ==
  ASSUME NEW A, Ready(A), NEW c \in (SUBSET Formats) \ {{}}
  PROVE  Safe(A, SetSparsityControl(A, c))
  <1> DEFINE B == [A EXCEPT !.control = c]
  <1>1. Ready(B) /\ Fits(A, B)
    BY ReadySettings
  <1> HIDE DEF B
  <1>2. Safe(B, Conform(B))
    BY <1>1, SafeConform
  <1> QED BY <1>1, <1>2, SafeTrans DEF SetSparsityControl, B

\* Setting GxB_HYPER_HASH keeps the matrix sound.
LEMMA SafeSetHyperHash ==
  ASSUME NEW A, Ready(A), NEW wanted \in BOOLEAN
  PROVE  Safe(A, SetHyperHash(A, wanted))
  <1> DEFINE B == [A EXCEPT !.nohash = ~wanted]
  <1>1. Ready(B) /\ Fits(A, B)
    <2>1. (~wanted) \in BOOLEAN /\ Formats \in (SUBSET Formats) \ {{}}
      BY DEF Formats
    <2> QED BY <2>1, ReadySettings
  <1> HIDE DEF B
  <1>2. Safe(B, Conform(B))
    BY <1>1, SafeConform
  <1> QED BY <1>1, <1>2, SafeTrans DEF SetHyperHash, B

\* If all entries are equal then any one of them is the iso value.
LEMMA EntriesIso ==
  ASSUME NEW A, Ready(A), AllEntriesAreIso(A)
  PROVE  LET value == A.entry[CHOOSE p \in Held(A) : TRUE]
         IN  value \in Val /\ \A p \in Live(A) : A.entry[p] = value
  <1> DEFINE q == CHOOSE p \in Held(A) : TRUE
  <1>1. /\ A \in Matrices /\ StructureOK(A)
        /\ Nnz(A) # 0 /\ ~HasPending(A) /\ A.nzombies = 0
    BY DEF Ready, Good, AllEntriesAreIso
  <1>2. Cardinality(Held(A)) # 0
    <2>1. CASE A.fmt = "full"
      BY <1>1, <2>1, FullHolds DEF Nnz
    <2>2. CASE A.fmt # "full"
      BY <1>1, <2>2 DEF Nnz, StructureOK, CountsExact
    <2> QED BY <2>1, <2>2
  <1>3. q \in Held(A)
    <2>1. Held(A) # {}
      BY <1>2, FS_EmptySet
    <2> QED BY <2>1
  <1>4. Zombies(A) = {}
    <2>1. Cardinality(Zombies(A)) = 0
      BY <1>1 DEF StructureOK, CountsExact
    <2> QED BY <2>1, HeldType, CountNat, FS_EmptySet
  <1>5. Held(A) = Live(A)
    <2>1. A.entry \in [Pos -> Val \cup {Absent, Zombie}]
      BY <1>1 DEF Matrices
    <2> QED BY <1>4, <2>1, ValAssumption DEF Held, Live, Zombies
  <1> HIDE DEF q
  <1>6. A.entry[q] \in Val /\ \A p \in Live(A) : A.entry[p] = A.entry[q]
    BY <1>3, <1>5 DEF AllEntriesAreIso, Live
  <1> QED BY <1>6 DEF q

\* Setting GxB_ISO keeps the matrix sound, and ends in GB_conform.
LEMMA SafeSetIso ==
  ASSUME NEW A, Ready(A), NEW wanted \in BOOLEAN
  PROVE  /\ Safe(A, SetIso(A, wanted))
         /\ \A q \in SetIso(A, wanted) :
              q.info = "SUCCESS" => \E B : Ready(B) /\ q \in Conform(B)
  <1> DEFINE value == A.entry[CHOOSE p \in Held(A) : TRUE]
             done == CASE wanted /\ A.iso = NotIso /\ AllEntriesAreIso(A) -> AnyToIso(A, value)
                       [] ~wanted -> AnyToNonIso(A)
                       [] OTHER -> Done(A)
  <1>1. SetIso(A, wanted) = UNION {Then(r, Conform(r.m)) : r \in done}
    BY DEF SetIso
  <1>2. Safe(A, done)
    <2>1. CASE wanted /\ A.iso = NotIso /\ AllEntriesAreIso(A)
      <3>1. done = AnyToIso(A, value)
        BY <2>1
      <3>2. value \in Val /\ \A p \in Live(A) : A.entry[p] = value
        BY <2>1, EntriesIso
      <3>3. ~HasPending(A)
        BY <2>1 DEF AllEntriesAreIso
      <3> HIDE DEF value, done
      <3> QED BY <3>1, <3>2, <3>3, SafeAnyToIso
    <2>2. CASE ~wanted
      <3>1. done = AnyToNonIso(A)
        BY <2>2
      <3> HIDE DEF done
      <3> QED BY <3>1, SafeAnyToNonIso
    <2>3. CASE wanted /\ ~(A.iso = NotIso /\ AllEntriesAreIso(A))
      <3>1. done = Done(A)
        BY <2>3
      <3> HIDE DEF done
      <3> QED BY <3>1, SafeDone, FitsSame
    <2> QED BY <2>1, <2>2, <2>3
  <1> HIDE DEF done
  <1>3. ASSUME NEW r \in done, NEW q \in Then(r, Conform(r.m))
        PROVE  /\ q \in Outcomes /\ Good(q.m) /\ Fits(A, q.m)
               /\ q.info = "SUCCESS" => q.m.valid
               /\ q.info = "SUCCESS" => \E B : Ready(B) /\ q \in Conform(B)
    <2>1. /\ r \in Outcomes /\ Good(r.m) /\ Fits(A, r.m)
          /\ r.info = "SUCCESS" => r.m.valid
      BY <1>2, <1>3 DEF Safe
    <2>2. r.info = "SUCCESS" => Safe(r.m, Conform(r.m))
      BY <2>1, SafeConform DEF Ready
    <2>3. q.info = "SUCCESS" => \E B : Ready(B) /\ q \in Conform(B)
      BY <1>3, <2>1 DEF Ready, Then
    <2>4. /\ q \in Outcomes /\ Good(q.m) /\ Fits(A, q.m)
          /\ q.info = "SUCCESS" => q.m.valid
      BY <1>3, <2>1, <2>2, SafeStep
    <2> QED BY <2>3, <2>4
  <1> QED BY <1>1, <1>3 DEF Safe

-----------------------------------------------------------------------------
(* C = T *)

\* C = T keeps C usable, whatever work C had left.
LEMMA KeepsAssignResult ==
  ASSUME NEW A, Usable(A), NEW T, Ready(T), ~HasPending(T)
  PROVE  Keeps(AssignResult(A, T))
  <1> DEFINE back(r) == IF r.info = "SUCCESS" THEN r ELSE [r EXCEPT !.m = A]
             finished == {back(r) : r \in WaitIf(T.nzombies > 0, T)}
             moved == UNION {Then(r, TransplantConform(A, r.m)) : r \in finished}
  <1>1. Ready(A) /\ Orderly(A) /\ Good(A) /\ A \in Matrices
    BY DEF Usable, Ready, Good
  <1>2. AssignResult(A, T) = NoMemory(A) \cup UNION {Then(r, Block(r.m)) : r \in moved}
    BY DEF AssignResult
  <1>3. ASSUME NEW r \in WaitIf(T.nzombies > 0, T),
               NEW q \in Then(back(r), TransplantConform(A, back(r).m))
        PROVE  /\ q \in Outcomes /\ Good(q.m) /\ Orderly(q.m)
               /\ q.info = "SUCCESS" => q.m.valid
    <2>1. /\ r \in Outcomes /\ Good(r.m) /\ Fits(T, r.m)
          /\ r.info = "SUCCESS" => r.m.valid
      BY <1>3, SafeWaitIf DEF Safe
    <2>2. CASE r.info = "SUCCESS"
      <3>1. Ready(r.m) /\ ~HasPending(r.m) /\ q \in TransplantConform(A, r.m)
        BY <1>3, <2>1, <2>2 DEF Ready, Then, Fits
      <3>2. Safe(r.m, TransplantConform(A, r.m))
        BY <1>1, <3>1, SafeTransplantConform
      <3>3. Orderly(r.m)
        BY <3>1 DEF Orderly, PendingBounded
      <3> QED BY <3>1, <3>2, <3>3, FitsOrderly DEF Safe
    <2>3. CASE r.info # "SUCCESS"
      <3>1. q = [r EXCEPT !.m = A]
        BY <1>3, <2>1, <2>3 DEF Then, Outcomes
      <3> QED BY <1>1, <2>1, <2>3, <3>1 DEF Outcomes
    <2> QED BY <2>2, <2>3
  <1> HIDE DEF back
  <1>4. ASSUME NEW r \in moved, NEW q \in Then(r, Block(r.m))
        PROVE  q \in Outcomes /\ Good(q.m) /\ Orderly(q.m)
    <2>1. /\ r \in Outcomes /\ Good(r.m) /\ Orderly(r.m)
          /\ r.info = "SUCCESS" => r.m.valid
      BY <1>3, <1>4
    <2> HIDE DEF moved
    <2>2. CASE r.info = "SUCCESS"
      <3>1. Ready(r.m) /\ q \in Block(r.m)
        BY <1>4, <2>1, <2>2 DEF Ready, Then
      <3> QED BY <2>1, <3>1, KeepsBlock DEF Keeps, Orderly
    <2>3. CASE r.info # "SUCCESS"
      BY <1>4, <2>1, <2>3 DEF Then
    <2> QED BY <2>2, <2>3
  <1> HIDE DEF moved
  <1>5. Keeps(NoMemory(A))
    BY <1>1 DEF Keeps, NoMemory, Outcomes
  <1>6. ASSUME NEW q \in AssignResult(A, T)
        PROVE  q \in Outcomes /\ Good(q.m) /\ Orderly(q.m)
    <2>1. q \in NoMemory(A) \/ \E r \in moved : q \in Then(r, Block(r.m))
      BY <1>2, <1>6
    <2> QED BY <1>4, <1>5, <2>1 DEF Keeps
  <1> QED BY <1>6 DEF Keeps

-----------------------------------------------------------------------------
(* GrB_Matrix_new *)

\* A matrix from GrB_Matrix_new is usable.
LEMMA UsableNewMatrix ==
  ASSUME NEW vlen \in 0 .. MaxVlen, NEW vdim \in 0 .. MaxVdim
  PROVE  Usable(NewMatrix(vlen, vdim)) /\ ~HasPending(NewMatrix(vlen, vdim))
  <1> DEFINE A == NewMatrix(vlen, vdim)
  <1>1. EmptyEntry \in [Pos -> Val \cup {Absent, Zombie}] /\ NoPending \in PendingLists
    BY OpAssumption DEF EmptyEntry, NoPending, PendingLists
  <1>2. A \in Matrices
    BY <1>1 DEF NewMatrix, Matrices, Formats
  <1>3. /\ A.fmt \in {"hyper", "sparse"} /\ A.entry = EmptyEntry /\ A.valid
        /\ A.nvals = 0 /\ A.nzombies = 0 /\ A.nne = 0 /\ A.h = {} /\ A.Y = NoHash
        /\ A.iso = NotIso /\ ~A.jumbled /\ A.unsorted = {} /\ A.pend.tup = <<>>
    BY DEF NewMatrix, NoPending
  <1> HIDE DEF A
  <1>4. /\ Held(A) = {} /\ Live(A) = {} /\ Zombies(A) = {} /\ Nonempty(A) = {}
        /\ Cardinality({}) = 0
    BY <1>3, ValAssumption, FS_EmptySet DEF Held, Live, Zombies, EmptyEntry, Nonempty
  <1>5. StructureOK(A)
    BY <1>3, <1>4
    DEF StructureOK, EntriesInRange, CountsExact, NneExact, NvecNonempty, AllVectors,
        HyperlistCovers, HashMatches
  <1>6. WorkOK(A) /\ IsoOK(A) /\ ~HasPending(A) /\ Orderly(A)
    BY <1>3, <1>4
    DEF WorkOK, PendingDisjoint, PendingPos, JumbledCovers, DenseSettled, PendingSorted,
        AnyPendingWork, HasPending, IsoOK, Orderly, PendingBounded
  <1> QED BY <1>2, <1>3, <1>5, <1>6 DEF Usable, Ready, Good, A
=============================================================================
