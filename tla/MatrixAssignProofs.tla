-------------------------- MODULE MatrixAssignProofs --------------------------
(***************************************************************************)
(* GrB_assign and GxB_subassign leave the matrix sound, or free it, for    *)
(* every assignment that GB_assign_prep can make of their arguments.       *)
(***************************************************************************)
EXTENDS MatrixAssignSpec, MatrixProofs

-----------------------------------------------------------------------------
(* What the parts of an assignment promise of an outcome *)

\* What a user function promises.
Kept(r) ==
  /\ r \in Outcomes /\ Good(r.m) /\ Orderly(r.m)
  /\ r.info = "SUCCESS" => r.m.valid

\* There may be too many pending tuples, before GB_block.
Tidy(r) ==
  /\ r \in Outcomes /\ Good(r.m)
  /\ IF r.info = "SUCCESS" THEN r.m.valid /\ (r.m.jumbled => ~HasPending(r.m))
     ELSE Orderly(r.m)

\* An outcome that is kept is tidy.
LEMMA KeptTidy ==
  ASSUME NEW r, Kept(r)
  PROVE  Tidy(r)
  BY DEF Kept, Tidy, Orderly

\* A function that is safe, of a usable matrix.
LEMMA KeptSafe ==
  ASSUME NEW A, Orderly(A), NEW S, Safe(A, S), NEW r \in S
  PROVE  Kept(r)
  BY FitsOrderly DEF Safe, Kept

\* Done keeps a usable matrix, as does a failure.
LEMMA KeptDone ==
  ASSUME NEW A, Usable(A), NEW r, r \in Done(A) \/ r \in NoMemory(A)
  PROVE  Kept(r)
  BY DEF Usable, Ready, Good, Kept, Done, NoMemory, Outcomes

\* A matrix that an outcome has kept can be used again.
LEMMA KeptUsable ==
  ASSUME NEW r, Kept(r), r.info = "SUCCESS"
  PROVE  Usable(r.m)
  BY DEF Kept, Usable, Ready

\* A failure frees the matrix, whatever had been made of it.
LEMMA KeptFreed ==
  ASSUME NEW A \in Matrices
  PROVE  Good(PhybixFree(A)) /\ Orderly(PhybixFree(A)) /\ ~PhybixFree(A).valid
  BY GoodFreed, FreedOrderly

\* GB_FREE_ALL on the way out.
LEMMA KeptOnError ==
  ASSUME NEW r \in Outcomes, r.info = "SUCCESS" => Kept(r)
  PROVE  Kept(FreeOnError(r))
  <1>1. CASE r.info = "SUCCESS"
    BY <1>1 DEF FreeOnError
  <1>2. CASE r.info # "SUCCESS"
    <2>1. FreeOnError(r) = [r EXCEPT !.m = PhybixFree(r.m)]
      BY <1>2 DEF FreeOnError
    <2>2. r.m \in Matrices
      BY DEF Outcomes
    <2>3. LET F == PhybixFree(r.m) IN Good(F) /\ Orderly(F) /\ ~F.valid /\ F \in Matrices
      BY <2>2, KeptFreed DEF Good
    <2> QED BY <1>2, <2>1, <2>3 DEF Kept, Outcomes
  <1> QED BY <1>1, <1>2

-----------------------------------------------------------------------------
(* The order in which the tuples are inserted *)

Rank(S, p) == Cardinality({r \in S : Before(r, p)})

\* Column major order is a strict total order of the positions.
LEMMA BeforeTotal ==
  ASSUME NEW p \in Pos, NEW r \in Pos
  PROVE  /\ p = r \/ Before(p, r) \/ Before(r, p)
         /\ ~Before(p, p)
         /\ \A x \in Pos : Before(x, p) /\ Before(p, r) => Before(x, r)
  <1>1. \A x \in Pos : x = <<x[1], x[2]>> /\ x[1] \in Int /\ x[2] \in Int
    BY DimsAssumption DEF Pos
  <1> QED BY <1>1 DEF Before

\* A later position has a higher rank.
LEMMA RankLess ==
  ASSUME NEW S \in SUBSET Pos, NEW p \in S, NEW r \in Pos, Before(p, r)
  PROVE  Rank(S, p) < Rank(S, r)
  <1> DEFINE P == {x \in S : Before(x, p)}
             R == {x \in S : Before(x, r)}
  <1>1. P \subseteq R /\ p \in R /\ p \notin P
    BY BeforeTotal
  <1>2. P \in SUBSET Pos /\ R \in SUBSET Pos
    OBVIOUS
  <1>3. Rank(S, p) = Cardinality(P) /\ Rank(S, r) = Cardinality(R)
    BY DEF Rank
  <1> HIDE DEF P, R
  <1>4. IsFiniteSet(R) /\ Cardinality(P) \in Nat /\ Cardinality(R) \in Nat
    BY <1>2, CountNat
  <1>5. Cardinality(P) <= Cardinality(R) /\ (Cardinality(R) = Cardinality(P) => R = P)
    BY <1>1, <1>4, FS_Subset
  <1> QED BY <1>1, <1>3, <1>4, <1>5

\* The ranks in S are all the numbers below its size.
LEMMA RankTaken ==
  ASSUME NEW S \in SUBSET Pos, NEW k \in 1 .. Cardinality(S)
  PROVE  \E p \in S : Rank(S, p) = k - 1
  <1> DEFINE n == Cardinality(S)
             f == [p \in S |-> Rank(S, p)]
  <1>1. IsFiniteSet(S) /\ n \in Nat
    BY CountNat
  <1>2. \A p \in S : Rank(S, p) \in 0 .. n - 1
    <2> SUFFICES ASSUME NEW p \in S PROVE Rank(S, p) \in 0 .. n - 1
      OBVIOUS
    <2> DEFINE P == {x \in S : Before(x, p)}
    <2>1. P \subseteq S \ {p}
      BY BeforeTotal
    <2>2. Rank(S, p) = Cardinality(P) /\ P \in SUBSET Pos /\ S \ {p} \in SUBSET Pos
      BY DEF Rank
    <2> HIDE DEF P
    <2>3. Cardinality(P) <= Cardinality(S \ {p}) /\ Cardinality(P) \in Nat
      BY <2>1, <2>2, CountNat, FS_Subset
    <2>4. Cardinality(S \ {p}) = n - 1
      BY <1>1, FS_RemoveElement
    <2> QED BY <1>1, <2>2, <2>3, <2>4
  <1>3. f \in Injection(S, 0 .. n - 1)
    <2>1. f \in [S -> 0 .. n - 1]
      BY <1>2
    <2>2. ASSUME NEW p \in S, NEW r \in S, f[p] = f[r]
          PROVE  p = r
      <3>1. Rank(S, p) \in Int /\ Rank(S, p) = Rank(S, r)
        BY <1>2, <2>2
      <3> QED BY <3>1, RankLess, BeforeTotal
    <2> QED BY <2>1, <2>2 DEF Injection, IsInjective
  <1>4. IsFiniteSet(0 .. n - 1) /\ Cardinality(0 .. n - 1) = n
    <2>1. n - 1 \in Int /\ 0 \in Int
      BY <1>1
    <2> HIDE DEF n
    <2>2. IsFiniteSet(0 .. n - 1)
          /\ Cardinality(0 .. n - 1) = IF 0 > n - 1 THEN 0 ELSE (n - 1) - 0 + 1
      BY <2>1, FS_Interval
    <2> QED BY <1>1, <2>2
  <1>5. f \in Surjection(S, 0 .. n - 1)
    BY <1>3, <1>4, FS_Injection
  <1>6. k - 1 \in 0 .. n - 1
    BY <1>1
  <1> QED BY <1>5, <1>6 DEF Surjection

\* InOrder lists positions of S, each before the next.
LEMMA InOrderSorted ==
  ASSUME NEW S \in SUBSET Pos
  PROVE  /\ \A k \in 1 .. Cardinality(S) : InOrder(S)[k] \in S
         /\ \A k \in 1 .. Cardinality(S) - 1 :
              ~Before(InOrder(S)[k + 1], InOrder(S)[k])
  <1> DEFINE n == Cardinality(S)
  <1>1. n \in Nat
    BY CountNat
  <1>2. \A k \in 1 .. n : InOrder(S)[k] = CHOOSE p \in S : Rank(S, p) = k - 1
    BY DEF InOrder, Rank
  <1>3. \A k \in 1 .. n : InOrder(S)[k] \in S /\ Rank(S, InOrder(S)[k]) = k - 1
    BY <1>2, RankTaken
  <1>4. ASSUME NEW k \in 1 .. n - 1, Before(InOrder(S)[k + 1], InOrder(S)[k])
        PROVE  FALSE
    <2>1. k \in 1 .. n /\ k + 1 \in 1 .. n /\ k \in Int
      BY <1>1
    <2>2. Rank(S, InOrder(S)[k + 1]) < Rank(S, InOrder(S)[k])
      BY <1>3, <1>4, <2>1, RankLess
    <2>3. Rank(S, InOrder(S)[k]) = k - 1 /\ Rank(S, InOrder(S)[k + 1]) = (k + 1) - 1
      BY <1>3, <2>1
    <2> QED BY <2>1, <2>2, <2>3
  <1> QED BY <1>3, <1>4

-----------------------------------------------------------------------------
(* The arguments *)

\* An assignment to A, as GB_assign_prep has prepared it.
Asked(A, q) ==
  /\ q \in [kind : {"assign", "subassign"}, dims : {<<A.vlen, A.vdim>>},
            region : SUBSET Pos, M : Matrices \cup {NoMatrix}, comp : BOOLEAN,
            struct : BOOLEAN, replace : BOOLEAN, accum : Ops,
            A : Matrices \cup {NoMatrix}, s : Val, type : Types]
  /\ \A T \in {q.M, q.A} \ {NoMatrix} :
       /\ T.valid /\ T.pend = NoPending /\ T.nzombies = 0 /\ Zombies(T) = {}
       /\ Cardinality(Held(T)) = Nnz(T) /\ WorkOK(T) /\ IsoOK(T)
       /\ Whole(q) => T.vlen = A.vlen /\ T.vdim = A.vdim /\ StructureOK(T)
  /\ \A p \in q.region : InRange(A, p)
  /\ q.A # NoMatrix => Live(q.A) \subseteq q.region
  /\ q.A # NoMatrix /\ q.A.fmt = "full" => q.region \subseteq Live(q.A)

\* The assumption on the assignments says so of each.
LEMMA AskedAssignments ==
  ASSUME NEW A, NEW q \in Assignments, q.dims = <<A.vlen, A.vdim>>
  PROVE  Asked(A, q)
  <1>1. {q.M, q.A} \ {NoMatrix} \subseteq Operands
    BY DEF Operands
  <1>2. \A p \in q.region : InRange(A, p)
    BY AssignmentsAssumption DEF InRange
  <1>3. Whole(q) => \A T \in {q.M, q.A} \ {NoMatrix} :
                      T.vlen = A.vlen /\ T.vdim = A.vdim /\ StructureOK(T)
    BY AssignmentsAssumption
  <1> QED BY <1>1, <1>2, <1>3, AssignmentsAssumption DEF Asked

\* It is one for any matrix of the same dimensions, and remains one if nothing
\* is replaced.
LEMMA AskedSame ==
  ASSUME NEW A, NEW q, Asked(A, q), NEW B, B.vlen = A.vlen, B.vdim = A.vdim
  PROVE  Asked(B, q)
  BY DEF Asked, InRange

\* Only the replace option of a call changes (GB_assign_prep).
LEMMA AskedEffective ==
  ASSUME NEW A, NEW q, Asked(A, q), NEW B
  PROVE  LET e == Effective(B, q)
         IN  /\ Asked(A, e)
             /\ e.kind = q.kind /\ e.dims = q.dims /\ e.region = q.region /\ e.M = q.M
             /\ e.comp = q.comp /\ e.struct = q.struct /\ e.accum = q.accum
             /\ e.A = q.A /\ e.s = q.s /\ e.type = q.type
             /\ e.replace = (q.replace /\ ~NoMask(q) /\ ~EmptyMatrix(B))
  <1> DEFINE v == q.replace /\ ~NoMask(q) /\ ~EmptyMatrix(B)
             e == [q EXCEPT !.replace = v]
  <1>1. Effective(B, q) = e
    BY DEF Effective, Asked
  <1>2. v \in BOOLEAN
    BY DEF Asked
  <1> HIDE DEF v
  <1>3. /\ e.kind = q.kind /\ e.dims = q.dims /\ e.region = q.region /\ e.M = q.M
        /\ e.comp = q.comp /\ e.struct = q.struct /\ e.accum = q.accum
        /\ e.A = q.A /\ e.s = q.s /\ e.type = q.type /\ e.replace = v
        /\ e \in [kind : {"assign", "subassign"}, dims : {<<A.vlen, A.vdim>>},
                  region : SUBSET Pos, M : Matrices \cup {NoMatrix}, comp : BOOLEAN,
                  struct : BOOLEAN, replace : BOOLEAN, accum : Ops,
                  A : Matrices \cup {NoMatrix}, s : Val, type : Types]
    BY <1>2 DEF Asked
  <1> HIDE DEF e
  <1>4. Whole(e) = Whole(q)
    BY <1>3 DEF Whole
  <1>5. Asked(A, e)
    BY <1>3, <1>4 DEF Asked
  <1> QED BY <1>1, <1>3, <1>5 DEF v

\* What is given for a position is a value or nothing.
LEMMA GivenType ==
  ASSUME NEW A, NEW q, Asked(A, q), NEW p \in Pos
  PROVE  Given(q, p) \in Val \cup {Absent}
  <1>1. CASE Scalar(q)
    BY <1>1 DEF Given, Asked
  <1>2. CASE ~Scalar(q)
    <2>1. q.A \in Matrices /\ Zombies(q.A) = {}
      BY <1>2 DEF Asked, Scalar
    <2>2. q.A.entry[p] \in Val \cup {Absent, Zombie} /\ q.A.entry[p] # Zombie
      BY <2>1 DEF Matrices, Zombies
    <2> QED BY <1>2, <2>2 DEF Given
  <1> QED BY <1>1, <1>2

\* A result is a value or nothing, and the iso value if there is one.
LEMMA ResultType ==
  ASSUME NEW A \in Matrices, NEW q, Asked(A, q), NEW p \in Pos
  PROVE  /\ Result(A, q, p) \in Val \cup {Absent}
         /\ A.iso # NotIso =>
              Result(A, q, p) \in {A.iso, Absent} \/ Result(A, q, p) = A.entry[p]
         /\ A.entry[p] \notin Val /\ Result(A, q, p) # Absent => Given(q, p) \in Val
  <1> DEFINE old == IF A.entry[p] \in Val THEN A.entry[p] ELSE Absent
             new == Given(q, p)
             last == IF A.iso # NotIso THEN A.iso
                     ELSE IF q.accum = NoOp \/ old = Absent THEN Cast(q.type, new)
                     ELSE Apply(q.accum, old, q.type, new)
  <1>1. new \in Val \cup {Absent} /\ old \in Val \cup {Absent}
    BY GivenType
  <1>2. q.accum \in Ops /\ q.type \in Types /\ A.iso \in Val \cup {NotIso}
    BY DEF Asked, Matrices
  <1>3. new \in Val => last \in Val /\ (A.iso # NotIso => last = A.iso)
    BY <1>1, <1>2, OpAssumption
  <1>4. \/ Result(A, q, p) = Absent
        \/ Result(A, q, p) = old
        \/ new \in Val /\ Result(A, q, p) = last
    BY <1>1 DEF Result
  <1> HIDE DEF last, new
  <1> QED BY <1>1, <1>3, <1>4 DEF new

-----------------------------------------------------------------------------
(* Methods 01 to 20 *)

\* A matrix with the pattern of another one has its structure.
LEMMA SamePattern ==
  ASSUME NEW A \in Matrices, StructureOK(A), NEW B \in Matrices,
         B.vlen = A.vlen, B.vdim = A.vdim, B.fmt = A.fmt, B.h = A.h, B.nvals = A.nvals,
         B.nne = A.nne \/ B.nne = NvecNonempty(A), B.Y = A.Y \/ B.Y = NoHash,
         Held(B) = Held(A), B.nzombies = Cardinality(Zombies(B)),
         B.fmt = "full" => Zombies(B) = {}
  PROVE  StructureOK(B)
  <1>1. Nonempty(B) = Nonempty(A) /\ \A p : InRange(B, p) <=> InRange(A, p)
    BY DEF Nonempty, InRange
  <1>2. NvecNonempty(B) = NvecNonempty(A)
    BY <1>1 DEF NvecNonempty, AllVectors
  <1>3. EntriesInRange(B) /\ NneExact(B) /\ HyperlistCovers(B) /\ HashMatches(B)
    BY <1>1, <1>2
    DEF StructureOK, EntriesInRange, NneExact, HyperlistCovers, HashMatches
  <1>4. B.fmt = "full" => Live(B) = {p \in Pos : InRange(B, p)}
    <2> SUFFICES ASSUME B.fmt = "full" PROVE Live(B) = {p \in Pos : InRange(B, p)}
      OBVIOUS
    <2>1. Live(B) = Held(B)
      BY ValAssumption DEF Matrices, Live, Held, Zombies
    <2>2. Live(A) = {p \in Pos : InRange(A, p)} /\ Live(A) \subseteq Held(A)
      BY ValAssumption DEF StructureOK, CountsExact, Live, Held
    <2>3. Held(A) \subseteq {p \in Pos : InRange(A, p)}
      BY DEF StructureOK, EntriesInRange, Held
    <2> QED BY <1>1, <2>1, <2>2, <2>3
  <1>5. CountsExact(B)
    BY <1>4 DEF StructureOK, CountsExact
  <1> QED BY <1>3, <1>5 DEF StructureOK

\* One list after another.
LEMMA Concatenated ==
  ASSUME NEW T, NEW x \in Seq(T), NEW y \in Seq(T)
  PROVE  /\ x \o y \in Seq(T) /\ Len(x \o y) = Len(x) + Len(y)
         /\ DOMAIN (x \o y) = 1 .. Len(x) + Len(y)
         /\ \A k \in 1 .. Len(x) : (x \o y)[k] = x[k]
         /\ \A k \in 1 .. Len(y) : (x \o y)[Len(x) + k] = y[k]
  OBVIOUS

\* The tuples of a list, and the positions of the list.
LEMMA TupleTypes ==
  ASSUME NEW A \in Matrices
  PROVE  /\ A.pend \in PendingLists /\ A.pend.tup \in Seq(Tuples)
         /\ Len(A.pend.tup) \in Nat /\ DOMAIN A.pend.tup = 1 .. Len(A.pend.tup)
         /\ \A k \in 1 .. Len(A.pend.tup) : A.pend.tup[k] \in Tuples
         /\ PendingPos(A) \subseteq Pos
         /\ HasPending(A) <=> Len(A.pend.tup) # 0
  <1>1. A.pend \in PendingLists /\ A.pend.tup \in Seq(Tuples)
    BY DEF Matrices, PendingLists
  <1>2. /\ Len(A.pend.tup) \in Nat /\ DOMAIN A.pend.tup = 1 .. Len(A.pend.tup)
        /\ \A k \in 1 .. Len(A.pend.tup) : A.pend.tup[k] \in Tuples
    BY <1>1
  <1>3. PendingPos(A) \subseteq Pos
    BY <1>2 DEF PendingPos, Tuples
  <1>4. HasPending(A) <=> Len(A.pend.tup) # 0
    BY <1>1 DEF HasPending
  <1> QED BY <1>1, <1>2, <1>3, <1>4

\* The tuples that an assignment adds, in order, join the list in order.
LEMMA ReadyInsertTuples ==
  ASSUME NEW A, Ready(A), A.fmt \in {"hyper", "sparse"}, NEW q, Asked(A, q),
         NEW S \in SUBSET Pos, S # {},
         \A p \in S : InRange(A, p) /\ A.entry[p] = Absent /\ Given(q, p) \in Val
  PROVE  LET B == InsertTuples(A, q, S) IN Ready(B) /\ B.jumbled = A.jumbled
  <1> DEFINE n == Cardinality(S)
             m == Len(A.pend.tup)
             order == InOrder(S)
             new == [k \in 1 .. n |->
                       [pos |-> order[k],
                        s   |-> IF A.iso # NotIso THEN NoScalar ELSE Given(q, order[k])]]
             list == IF HasPending(A) THEN A.pend
                     ELSE [op |-> IF A.iso # NotIso THEN NoOp ELSE q.accum,
                           type |-> q.type, sorted |-> TRUE, tup |-> <<>>]
             last == list.tup[Len(list.tup)].pos
             ok == list.sorted /\ ~(HasPending(A) /\ Before(new[1].pos, last))
             joined == [list EXCEPT !.tup = list.tup \o new, !.sorted = ok]
             B == [A EXCEPT !.pend = joined]
  <1>1. /\ A \in Matrices /\ A.valid /\ StructureOK(A) /\ WorkOK(A) /\ IsoOK(A)
        /\ q.accum \in Ops /\ q.type \in Types
    BY DEF Ready, Good, Asked
  <1>2. /\ n \in Nat /\ n # 0 /\ n >= 1
    BY CountNat, FS_EmptySet
  <1>3. /\ \A k \in 1 .. n : order[k] \in S
        /\ \A k \in 1 .. n - 1 : ~Before(order[k + 1], order[k])
    BY InOrderSorted
  <1> HIDE DEF n, order
  <1>4. /\ new \in Seq(Tuples) /\ Len(new) = n
        /\ \A k \in 1 .. n : /\ new[k] \in Tuples /\ new[k].pos = order[k]
                             /\ (A.iso # NotIso) <=> (new[k].s = NoScalar)
    <2>1. \A k \in 1 .. n : [pos |-> order[k],
                             s |-> IF A.iso # NotIso THEN NoScalar ELSE Given(q, order[k])]
                              \in Tuples
      BY <1>3 DEF Tuples
    <2>2. new \in [1 .. n -> Tuples]
      BY <2>1
    <2>3. new \in Seq(Tuples) /\ Len(new) = n
      BY <1>2, <2>2
    <2>4. \A k \in 1 .. n : /\ new[k].pos = order[k]
                            /\ (A.iso # NotIso) <=> (new[k].s = NoScalar)
      BY <1>3, ValAssumption
    <2> QED BY <2>2, <2>3, <2>4
  <1>5. /\ list \in PendingLists /\ list.tup = A.pend.tup
        /\ HasPending(A) => list.sorted = A.pend.sorted
        /\ A.iso # NotIso => list.op = NoOp
    <2>1. CASE HasPending(A)
      BY <1>1, <2>1, TupleTypes DEF IsoOK
    <2>2. CASE ~HasPending(A)
      <3>1. A.pend.tup = <<>> /\ <<>> \in Seq(Tuples)
        BY <2>2 DEF HasPending
      <3> QED BY <1>1, <2>2, <3>1, OpAssumption DEF PendingLists
    <2> QED BY <2>1, <2>2
  <1> HIDE DEF new, list
  <1> DEFINE tup == A.pend.tup \o new
  <1>6. /\ m \in Nat /\ DOMAIN A.pend.tup = 1 .. m /\ A.pend.tup \in Seq(Tuples)
        /\ HasPending(A) <=> m # 0
    BY <1>1, TupleTypes
  <1> HIDE DEF m
  <1>7. /\ tup \in Seq(Tuples) /\ Len(tup) = m + n /\ DOMAIN tup = 1 .. m + n
        /\ \A k \in 1 .. m : tup[k] = A.pend.tup[k]
        /\ \A k \in m + 1 .. m + n : tup[k] = new[k - m]
    <2>1. /\ tup \in Seq(Tuples) /\ Len(tup) = m + n /\ DOMAIN tup = 1 .. m + n
          /\ \A k \in 1 .. m : tup[k] = A.pend.tup[k]
          /\ \A k \in 1 .. n : tup[m + k] = new[k]
      <3>1. /\ tup \in Seq(Tuples) /\ Len(tup) = Len(A.pend.tup) + Len(new)
            /\ DOMAIN tup = 1 .. Len(A.pend.tup) + Len(new)
            /\ \A k \in 1 .. Len(A.pend.tup) : tup[k] = A.pend.tup[k]
            /\ \A k \in 1 .. Len(new) : tup[Len(A.pend.tup) + k] = new[k]
        <4> DEFINE x == A.pend.tup
        <4>1. x \in Seq(Tuples) /\ new \in Seq(Tuples)
          BY <1>4, <1>6
        <4> HIDE DEF x
        <4>2. /\ x \o new \in Seq(Tuples) /\ Len(x \o new) = Len(x) + Len(new)
              /\ DOMAIN (x \o new) = 1 .. Len(x) + Len(new)
              /\ \A k \in 1 .. Len(x) : (x \o new)[k] = x[k]
              /\ \A k \in 1 .. Len(new) : (x \o new)[Len(x) + k] = new[k]
          BY <4>1, Concatenated
        <4> QED BY <4>2 DEF x
      <3> QED BY <1>4, <3>1 DEF m
    <2> HIDE DEF tup
    <2>2. \A k \in m + 1 .. m + n : k - m \in 1 .. n /\ m + (k - m) = k
      BY <1>2, <1>6
    <2> QED BY <2>1, <2>2
  <1>8. joined \in PendingLists /\ joined.tup = tup /\ joined.sorted = ok /\ joined.op = list.op
    <2>1. ok \in BOOLEAN
      BY <1>5 DEF PendingLists
    <2> HIDE DEF ok
    <2> QED BY <1>5, <1>7, <2>1 DEF PendingLists
  <1>9. InsertTuples(A, q, S) = B
    BY DEF InsertTuples, new, list, order, n
  <1>10. B \in Matrices
    BY <1>1, <1>8 DEF Matrices
  <1>11. /\ B.fmt = A.fmt /\ B.entry = A.entry /\ B.nvals = A.nvals /\ B.iso = A.iso
         /\ B.nzombies = A.nzombies /\ B.nne = A.nne /\ B.h = A.h /\ B.Y = A.Y
         /\ B.jumbled = A.jumbled /\ B.unsorted = A.unsorted /\ B.valid = A.valid
         /\ B.vlen = A.vlen /\ B.vdim = A.vdim /\ B.pend.tup = tup
         /\ B.pend.sorted = ok /\ B.pend.op = list.op
    BY <1>1, <1>8 DEF Matrices
  <1> HIDE DEF tup, joined
  <1>12. ok => (m # 0 => A.pend.sorted /\ ~Before(order[1], A.pend.tup[m].pos))
    <2>1. new[1].pos = order[1] /\ last = A.pend.tup[m].pos
      BY <1>2, <1>4, <1>5 DEF m
    <2> HIDE DEF last
    <2> QED BY <1>5, <1>6, <2>1
  <1> HIDE DEF ok, B
  <1>13. \A k \in 1 .. m + n :
           \/ k \in 1 .. m /\ tup[k] = A.pend.tup[k]
           \/ k - m \in 1 .. n /\ tup[k] = new[k - m]
    BY <1>2, <1>6, <1>7
  <1>14. StructureOK(B)
    BY <1>1, <1>10, <1>11, SameSets, SamePattern DEF StructureOK, CountsExact
  <1>15. PendingDisjoint(B)
    <2>1. ASSUME NEW p \in PendingPos(B)
          PROVE  InRange(A, p) /\ A.entry[p] = Absent
      <3>1. PICK k \in 1 .. m + n : p = tup[k].pos
        BY <1>7, <1>11, <2>1 DEF PendingPos
      <3>2. CASE k \in 1 .. m /\ tup[k] = A.pend.tup[k]
        <4>1. p \in PendingPos(A)
          BY <1>6, <3>1, <3>2 DEF PendingPos
        <4> QED BY <1>1, <4>1 DEF WorkOK, PendingDisjoint
      <3>3. CASE k - m \in 1 .. n /\ tup[k] = new[k - m]
        <4>1. p \in S
          BY <1>3, <1>4, <3>1, <3>3
        <4> QED BY <4>1
      <3> QED BY <1>13, <3>2, <3>3
    <2> QED BY <1>11, <2>1 DEF PendingDisjoint, InRange
  <1>16. PendingSorted(B)
    <2> DEFINE le(x, y) == x[2] < y[2] \/ (x[2] = y[2] /\ x[1] <= y[1])
    <2>1. \A x, y \in Pos : ~Before(y, x) => le(x, y)
      <3>1. \A x \in Pos : x[1] \in Int /\ x[2] \in Int
        BY DimsAssumption DEF Pos
      <3> QED BY <3>1 DEF Before
    <2>2. SUFFICES ASSUME ok, NEW k \in 1 .. m + n - 1
                   PROVE  le(tup[k].pos, tup[k + 1].pos)
      <3> HIDE DEF le
      <3>1. (ok => \A k \in 1 .. m + n - 1 : le(tup[k].pos, tup[k + 1].pos))
              => (B.pend.sorted => \A k \in 1 .. Len(B.pend.tup) - 1 :
                                     le(B.pend.tup[k].pos, B.pend.tup[k + 1].pos))
        <4>1. (B.pend.sorted <=> ok) /\ B.pend.tup = tup /\ Len(tup) = m + n
          BY <1>7, <1>11
        <4> SUFFICES ASSUME ok => \A j \in 1 .. m + n - 1 : le(tup[j].pos, tup[j + 1].pos),
                            B.pend.sorted, NEW j \in 1 .. Len(B.pend.tup) - 1
                     PROVE  le(B.pend.tup[j].pos, B.pend.tup[j + 1].pos)
          OBVIOUS
        <4>2. j \in 1 .. m + n - 1
          BY <1>2, <1>6, <4>1
        <4>3. le(tup[j].pos, tup[j + 1].pos)
          BY <4>1, <4>2
        <4> QED BY <4>1, <4>3
      <3>2. (B.pend.sorted => \A k \in 1 .. Len(B.pend.tup) - 1 :
                                le(B.pend.tup[k].pos, B.pend.tup[k + 1].pos))
              => PendingSorted(B)
        BY DEF PendingSorted, le
      <3> QED BY <3>1, <3>2
    <2>3. k \in Int /\ k >= 1 /\ k <= m + n - 1
      BY <1>2, <1>6
    <2>4. CASE k + 1 <= m
      <3>1. k \in 1 .. m - 1 /\ k \in 1 .. m /\ k + 1 \in 1 .. m
        BY <1>6, <2>3, <2>4
      <3>2. A.pend.sorted
        BY <1>6, <1>12, <2>2, <3>1
      <3>3. le(A.pend.tup[k].pos, A.pend.tup[k + 1].pos)
        BY <1>1, <3>1, <3>2 DEF WorkOK, PendingSorted, m
      <3> QED BY <1>7, <3>1, <3>3
    <2>5. CASE k = m
      <3>1. m # 0 /\ k \in 1 .. m /\ k + 1 \in m + 1 .. m + n /\ k + 1 - m = 1
        BY <1>2, <1>6, <2>3, <2>5
      <3>2. tup[k].pos = A.pend.tup[m].pos /\ tup[k + 1].pos = order[1]
        BY <1>2, <1>4, <1>7, <2>5, <3>1
      <3>3. A.pend.tup[m].pos \in Pos /\ order[1] \in Pos
        BY <1>1, <1>2, <1>3, <3>1, TupleTypes DEF Tuples, m
      <3> QED BY <1>12, <2>1, <2>2, <3>1, <3>2, <3>3
    <2>6. CASE k > m
      <3>1. /\ k \in m + 1 .. m + n /\ k + 1 \in m + 1 .. m + n
            /\ k - m \in 1 .. n - 1 /\ k - m \in 1 .. n /\ (k + 1) - m \in 1 .. n
            /\ (k + 1) - m = (k - m) + 1
        BY <1>2, <1>6, <2>3, <2>6
      <3>2. tup[k].pos = order[k - m] /\ tup[k + 1].pos = order[(k - m) + 1]
        BY <1>4, <1>7, <3>1
      <3>3. order[k - m] \in Pos /\ order[(k - m) + 1] \in Pos
        BY <1>3, <3>1
      <3> QED BY <1>3, <2>1, <3>1, <3>2, <3>3
    <2> QED BY <1>6, <2>3, <2>4, <2>5, <2>6
  <1>17. WorkOK(B)
    BY <1>1, <1>11, <1>15, <1>16 DEF WorkOK, JumbledCovers, DenseSettled
  <1>18. IsoOK(B)
    <2>1. \A k \in 1 .. m + n : (A.iso # NotIso) <=> (tup[k].s = NoScalar)
      <3>1. \A k \in 1 .. m : (A.iso # NotIso) <=> (A.pend.tup[k].s = NoScalar)
        BY <1>1, <1>6 DEF IsoOK
      <3> QED BY <1>4, <1>13, <3>1
    <2> QED BY <1>1, <1>5, <1>7, <1>11, <2>1, SameSets DEF IsoOK
  <1> QED BY <1>1, <1>9, <1>10, <1>11, <1>14, <1>17, <1>18 DEF Ready, Good

\* Another content with the same pattern: the pending tuples are as they were.
LEMMA SamePatternWork ==
  ASSUME NEW A, WorkOK(A), NEW B, B.fmt = A.fmt, B.vlen = A.vlen, B.vdim = A.vdim,
         B.pend = A.pend, B.jumbled = A.jumbled, B.unsorted = A.unsorted,
         \A p \in PendingPos(A) : A.entry[p] = Absent => B.entry[p] = Absent,
         B.fmt \in {"bitmap", "full"} => B.nzombies = A.nzombies
  PROVE  WorkOK(B)
  <1>1. PendingPos(B) = PendingPos(A)
    BY DEF PendingPos
  <1>2. PendingDisjoint(B)
    BY <1>1 DEF WorkOK, PendingDisjoint, InRange
  <1>3. JumbledCovers(B) /\ DenseSettled(B) /\ PendingSorted(B)
    BY DEF WorkOK, JumbledCovers, DenseSettled, PendingSorted, AnyPendingWork, HasPending
  <1> QED BY <1>2, <1>3 DEF WorkOK

\* The positions that are not held and are given a value.
Inserted(A, q) == {p \in q.region \ Held(A) : Result(A, q, p) # Absent}

\* B is A with the results of an assignment in the structure that is there.
Rewrites(A, q, B) ==
  /\ Ready(B) /\ B.vlen = A.vlen /\ B.vdim = A.vdim /\ B.fmt = A.fmt
  /\ B.pend = A.pend /\ B.iso = A.iso /\ B.jumbled = A.jumbled
  /\ \A p \in Pos :
       /\ p \notin q.region \/ p \in Inserted(A, q) => B.entry[p] = A.entry[p]
       /\ p \in q.region /\ p \notin Inserted(A, q) =>
            IF Result(A, q, p) = Absent THEN B.entry[p] \notin Val
            ELSE B.entry[p] = Result(A, q, p)

\* The live entries that an assignment deletes become zombies, the zombies that it
\* gives a value live again, and the others that it gives one become tuples.
LEMMA UpdatedEntries ==
  ASSUME NEW A, Ready(A), ~A.jumbled, A.fmt # "bitmap", NEW q, Asked(A, q),
         A.fmt = "full" => ~q.replace /\ (q.accum # NoOp \/ Scalar(q))
  PROVE  \E B : /\ Rewrites(A, q, B)
                /\ UpdateEntries(A, q) = IF Inserted(A, q) = {} THEN B
                                         ELSE InsertTuples(B, q, Inserted(A, q))
                /\ Inserted(A, q) # {} => B.fmt \in {"hyper", "sparse"}
                /\ Inserted(A, q) \subseteq Pos
                /\ \A p \in Inserted(A, q) :
                     InRange(B, p) /\ B.entry[p] = Absent /\ Given(q, p) \in Val
  <1> DEFINE result(p) == IF p \in q.region THEN Result(A, q, p) ELSE A.entry[p]
             deleted   == {p \in q.region \cap Live(A) : result(p) = Absent}
             undeleted == {p \in q.region \cap Zombies(A) : result(p) # Absent}
             inserted  == {p \in q.region \ Held(A) : result(p) # Absent}
             content == [p \in Pos |->
                           IF p \in deleted THEN Zombie
                           ELSE IF p \in inserted \/ result(p) = Absent THEN A.entry[p]
                           ELSE result(p)]
             count == A.nzombies + Cardinality(deleted) - Cardinality(undeleted)
             B == [A EXCEPT !.entry = content, !.nzombies = count]
  <1>1. /\ A \in Matrices /\ A.valid /\ StructureOK(A) /\ WorkOK(A) /\ IsoOK(A)
        /\ A.entry \in [Pos -> Val \cup {Absent, Zombie}] /\ q.region \subseteq Pos
        /\ A.nzombies \in Nat /\ A.nzombies = Cardinality(Zombies(A))
    BY DEF Ready, Good, Asked, Matrices, StructureOK, CountsExact
  <1>2. UpdateEntries(A, q) = IF inserted = {} THEN B ELSE InsertTuples(B, q, inserted)
    BY <1>1 DEF UpdateEntries
  <1>3. \A p \in q.region :
          /\ result(p) \in Val \cup {Absent}
          /\ A.iso # NotIso => result(p) \in {A.iso, Absent} \/ result(p) = A.entry[p]
          /\ A.entry[p] \notin Val /\ result(p) # Absent => Given(q, p) \in Val
    BY <1>1, ResultType
  <1>4. /\ deleted \subseteq Live(A) /\ undeleted \subseteq Zombies(A)
        /\ inserted \subseteq Pos /\ inserted \cap Held(A) = {}
        /\ \A p \in inserted : InRange(A, p) /\ Given(q, p) \in Val
    BY <1>1, <1>3, ValAssumption DEF Asked, Held
  <1>5. ASSUME NEW p \in Pos
        PROVE  /\ content[p] \in Val \cup {Absent, Zombie}
               /\ content[p] = Absent <=> A.entry[p] = Absent
               /\ content[p] = Zombie <=> p \in (Zombies(A) \ undeleted) \cup deleted
               /\ A.iso # NotIso /\ content[p] \in Val => content[p] = A.iso
    <2>1. A.entry[p] \in Val \cup {Absent, Zombie}
      BY <1>1
    <2>2. A.iso # NotIso /\ A.entry[p] \in Val => A.entry[p] = A.iso
      BY <1>1 DEF IsoOK, Live
    <2>3. CASE p \in deleted
      BY <2>1, <2>3, ValAssumption DEF Live
    <2>4. CASE p \in q.region /\ p \notin deleted
      <3>1. result(p) \in Val \cup {Absent}
            /\ (A.iso # NotIso => result(p) \in {A.iso, Absent} \/ result(p) = A.entry[p])
        BY <1>3, <2>4
      <3> HIDE DEF result
      <3>2. CASE A.entry[p] = Absent
        <4>1. p \in inserted \/ result(p) = Absent
          BY <2>4, <3>2 DEF Held
        <4>2. content[p] = Absent
          BY <2>4, <3>2, <4>1
        <4> QED BY <2>4, <3>2, <4>2, ValAssumption DEF Zombies
      <3>3. CASE A.entry[p] = Zombie
        <4>1. p \notin inserted
          BY <3>3, ValAssumption DEF Held
        <4>2. content[p] = IF result(p) = Absent THEN Zombie ELSE result(p)
          BY <2>4, <3>3, <4>1
        <4>3. p \in Zombies(A) /\ (p \in undeleted <=> result(p) # Absent)
          BY <2>4, <3>3 DEF Zombies
        <4> QED BY <2>4, <3>1, <3>3, <4>2, <4>3, ValAssumption
      <3>4. CASE A.entry[p] \in Val
        <4>1. p \notin inserted /\ p \in Live(A) /\ p \notin Zombies(A)
          BY <3>4, ValAssumption DEF Held, Live, Zombies
        <4>2. result(p) # Absent
          BY <2>4, <4>1
        <4>3. content[p] = result(p)
          BY <2>4, <4>1, <4>2
        <4> QED BY <2>2, <2>4, <3>1, <3>4, <4>1, <4>2, <4>3, ValAssumption
      <3> QED BY <2>1, <3>2, <3>3, <3>4
    <2>5. CASE p \notin q.region
      <3>1. content[p] = A.entry[p] /\ p \notin deleted /\ p \notin undeleted
        BY <2>5
      <3> QED BY <2>1, <2>2, <3>1 DEF Zombies
    <2> QED BY <2>3, <2>4, <2>5
  <1>6. IsFiniteSet(Zombies(A)) /\ IsFiniteSet(deleted)
        /\ Cardinality(deleted) \in Nat /\ Cardinality(undeleted) \in Nat
    <2>1. Zombies(A) \in SUBSET Pos /\ deleted \in SUBSET Pos /\ undeleted \in SUBSET Pos
      BY <1>4, HeldType
    <2> HIDE DEF deleted, undeleted
    <2> QED BY <2>1, CountNat
  <1>7. count = Cardinality((Zombies(A) \ undeleted) \cup deleted) /\ count \in Nat
    <2>1. Zombies(A) \cap undeleted = undeleted /\ (Zombies(A) \ undeleted) \cap deleted = {}
      BY <1>4, ValAssumption DEF Zombies, Live
    <2> HIDE DEF deleted, undeleted
    <2> DEFINE Z == Zombies(A)
    <2>2. IsFiniteSet(Z \ undeleted)
          /\ Cardinality(Z \ undeleted) = A.nzombies - Cardinality(undeleted)
      <3> IsFiniteSet(Z) /\ Z \cap undeleted = undeleted /\ Cardinality(Z) = A.nzombies
        BY <1>1, <1>6, <2>1
      <3> HIDE DEF Z
      <3>1. /\ IsFiniteSet(Z \ undeleted)
            /\ Cardinality(Z \ undeleted) = Cardinality(Z) - Cardinality(Z \cap undeleted)
        BY FS_Difference
      <3> QED BY <3>1
    <2> DEFINE rest == Zombies(A) \ undeleted
    <2>3. IsFiniteSet(rest) /\ rest \cap deleted = {}
          /\ Cardinality(rest) = A.nzombies - Cardinality(undeleted)
      BY <2>1, <2>2
    <2> HIDE DEF rest
    <2>4. IsFiniteSet(rest \cup deleted)
          /\ Cardinality(rest \cup deleted)
               = Cardinality(rest) + Cardinality(deleted) - Cardinality(rest \cap deleted)
      BY <1>6, <2>3, FS_Union
    <2>5. Cardinality(rest \cap deleted) = 0
      BY <2>3, FS_EmptySet
    <2>6. Cardinality(rest \cup deleted) \in Nat
      BY <2>4, FS_CardinalityType
    <2> QED BY <1>1, <1>6, <2>3, <2>4, <2>5, <2>6 DEF rest
  <1>8. A.fmt = "full" => deleted = {} /\ inserted = {} /\ Zombies(A) = {}
    <2> SUFFICES ASSUME A.fmt = "full"
                 PROVE  deleted = {} /\ inserted = {} /\ Zombies(A) = {}
      OBVIOUS
    <2>1. \A p \in Pos : InRange(A, p) => A.entry[p] \in Val
      BY <1>1 DEF StructureOK, CountsExact, Live
    <2>2. inserted = {}
      BY <1>4, <2>1, ValAssumption DEF Held
    <2>3. A.nzombies = 0
      BY <1>1 DEF WorkOK, DenseSettled, AnyPendingWork
    <2>4. Zombies(A) = {}
      BY <1>1, <1>6, <2>3, FS_EmptySet
    <2>5. ASSUME NEW p \in q.region \cap Live(A)
          PROVE  Result(A, q, p) # Absent
      <3>1. A.entry[p] \in Val /\ A.entry[p] # Absent
        BY <2>5, ValAssumption DEF Live
      <3>2. Scalar(q) => Given(q, p) # Absent
        BY ValAssumption DEF Given, Asked
      <3>3. Given(q, p) \in Val \cup {Absent} /\ A.iso \in Val \cup {NotIso}
            /\ q.accum \in Ops /\ q.type \in Types
        BY <1>1, <2>5, GivenType DEF Asked, Matrices
      <3>4. Given(q, p) \in Val => /\ Cast(q.type, Given(q, p)) \in Val
                                   /\ Apply(q.accum, A.entry[p], q.type, Given(q, p)) \in Val
        BY <3>1, <3>3, OpAssumption
      <3> QED BY <3>1, <3>2, <3>3, <3>4, ValAssumption DEF Result
    <2>6. deleted = {}
      BY <2>5
    <2> QED BY <2>2, <2>4, <2>6
  <1> HIDE DEF result, deleted, undeleted, inserted, count
  <1>9. content \in [Pos -> Val \cup {Absent, Zombie}]
    BY <1>5
  <1>10. B \in Matrices
    BY <1>1, <1>7, <1>9 DEF Matrices
  <1>11. /\ B.fmt = A.fmt /\ B.entry = content /\ B.nvals = A.nvals /\ B.iso = A.iso
         /\ B.nzombies = count /\ B.nne = A.nne /\ B.h = A.h /\ B.Y = A.Y
         /\ B.jumbled = A.jumbled /\ B.unsorted = A.unsorted /\ B.valid = A.valid
         /\ B.vlen = A.vlen /\ B.vdim = A.vdim /\ B.pend = A.pend
    BY <1>1 DEF Matrices
  <1> HIDE DEF B, content
  <1>12. Held(B) = Held(A) /\ Zombies(B) = (Zombies(A) \ undeleted) \cup deleted
    <2>1. Held(B) = Held(A)
      BY <1>5, <1>11 DEF Held
    <2>2. (Zombies(A) \ undeleted) \cup deleted \subseteq Pos
      BY <1>1, <1>4 DEF Zombies, Live
    <2> QED BY <1>5, <1>11, <2>1, <2>2 DEF Zombies
  <1>13. StructureOK(B)
    <2>1. B.nzombies = Cardinality(Zombies(B)) /\ (B.fmt = "full" => Zombies(B) = {})
      BY <1>7, <1>8, <1>11, <1>12
    <2> QED BY <1>1, <1>10, <1>11, <1>12, <2>1, SamePattern
  <1>14. WorkOK(B)
    <2>1. B.fmt \in {"bitmap", "full"} => B.nzombies = A.nzombies
      BY <1>1, <1>7, <1>8, <1>11, FS_EmptySet
    <2>2. \A p \in PendingPos(A) : A.entry[p] = Absent => B.entry[p] = Absent
      BY <1>1, <1>5, <1>11, TupleTypes
    <2> QED BY <1>1, <1>11, <2>1, <2>2, SamePatternWork
  <1>15. IsoOK(B)
    <2>1. A.iso # NotIso => \A p \in Live(B) : B.entry[p] = A.iso
      BY <1>5, <1>11 DEF Live
    <2> QED BY <1>1, <1>11, <2>1 DEF IsoOK, HasPending
  <1>16. Ready(B)
    BY <1>1, <1>10, <1>11, <1>13, <1>14, <1>15 DEF Ready, Good
  <1>17. inserted = Inserted(A, q) /\ inserted \subseteq Pos
    BY <1>4 DEF inserted, result, Inserted
  <1>18. ASSUME NEW p \in Pos
         PROVE  /\ p \notin q.region \/ p \in inserted => content[p] = A.entry[p]
                /\ p \in q.region /\ p \notin inserted =>
                     IF Result(A, q, p) = Absent THEN content[p] \notin Val
                     ELSE content[p] = Result(A, q, p)
    <2>1. p \in q.region => result(p) = Result(A, q, p)
      BY DEF result
    <2>2. p \notin q.region => result(p) = A.entry[p] /\ p \notin deleted
      BY DEF result, deleted
    <2>3. p \in deleted <=> p \in q.region /\ A.entry[p] \in Val /\ result(p) = Absent
      BY <1>1 DEF deleted, Live
    <2>4. p \in inserted => A.entry[p] = Absent
      BY <1>4 DEF Held
    <2>5. content[p] = IF p \in deleted THEN Zombie
                       ELSE IF p \in inserted \/ result(p) = Absent THEN A.entry[p]
                       ELSE result(p)
      BY <1>18 DEF content
    <2> QED BY <2>1, <2>2, <2>3, <2>4, <2>5, ValAssumption
  <1>19. \A p \in inserted : InRange(B, p) /\ B.entry[p] = Absent /\ Given(q, p) \in Val
    <2>1. \A p \in inserted : p \in Pos /\ A.entry[p] = Absent
      BY <1>4 DEF Held
    <2> QED BY <1>4, <1>5, <1>11, <2>1 DEF InRange
  <1>20. inserted # {} => B.fmt \in {"hyper", "sparse"}
    BY <1>1, <1>8, <1>11 DEF Matrices, Formats
  <1>21. Rewrites(A, q, B)
    BY <1>11, <1>16, <1>17, <1>18 DEF Rewrites
  <1> QED BY <1>2, <1>17, <1>19, <1>20, <1>21

\* The matrix is sound afterwards, and as sorted as it was.
LEMMA ReadyUpdateEntries ==
  ASSUME NEW A, Ready(A), ~A.jumbled, A.fmt # "bitmap", NEW q, Asked(A, q),
         A.fmt = "full" => ~q.replace /\ (q.accum # NoOp \/ Scalar(q))
  PROVE  LET B == UpdateEntries(A, q) IN Ready(B) /\ ~B.jumbled
  <1> DEFINE S == Inserted(A, q)
  <1>1. PICK B : /\ Rewrites(A, q, B)
                 /\ UpdateEntries(A, q) = IF S = {} THEN B ELSE InsertTuples(B, q, S)
                 /\ S # {} => B.fmt \in {"hyper", "sparse"}
                 /\ S \subseteq Pos
                 /\ \A p \in S : InRange(B, p) /\ B.entry[p] = Absent /\ Given(q, p) \in Val
    BY UpdatedEntries
  <1> HIDE DEF S
  <1>2. Ready(B) /\ ~B.jumbled /\ Asked(B, q)
    BY <1>1, AskedSame DEF Rewrites
  <1>3. CASE S = {}
    BY <1>1, <1>2, <1>3
  <1>4. CASE S # {}
    <2>1. LET D == InsertTuples(B, q, S) IN Ready(D) /\ D.jumbled = B.jumbled
      BY <1>1, <1>2, <1>4, ReadyInsertTuples
    <2> QED BY <1>1, <1>2, <1>4, <2>1
  <1> QED BY <1>3, <1>4

\* GB_UNJUMBLE.
LEMMA SafeUnjumbled ==
  ASSUME NEW A, Ready(A)
  PROVE  /\ Safe(A, Unjumbled(A))
         /\ \A r \in Unjumbled(A) : r.info = "SUCCESS" => ~r.m.jumbled
  <1>1. A \in Matrices /\ A.nzombies \in Nat /\ A.jumbled \in BOOLEAN
    BY DEF Ready, Good, Matrices
  <1>2. CASE ~A.jumbled
    <2>1. Unjumbled(A) = Done(A)
      BY <1>2 DEF Unjumbled
    <2>2. Safe(A, Done(A))
      BY SafeDone, FitsSame
    <2>3. \A r \in Done(A) : r.m = A
      BY DEF Done
    <2> QED BY <1>2, <2>1, <2>2, <2>3
  <1>3. CASE A.jumbled /\ A.nzombies > 0
    <2>1. Unjumbled(A) = Wait(A)
      BY <1>1, <1>3 DEF Unjumbled
    <2> QED BY <2>1, SafeWait DEF Settled, AnyPendingWork
  <1>4. CASE A.jumbled /\ A.nzombies = 0
    <2>1. Unjumbled(A) = Unjumble(A)
      BY <1>1, <1>4 DEF Unjumbled
    <2> QED BY <2>1, SafeUnjumble
  <1> QED BY <1>1, <1>2, <1>3, <1>4

\* The hash is built before the entries are updated.
LEMMA TidyEntries ==
  ASSUME NEW A, Usable(A), ~A.jumbled, A.fmt # "bitmap", NEW q, Asked(A, q),
         A.fmt = "full" => ~q.replace /\ (q.accum # NoOp \/ Scalar(q)),
         NEW y \in Done(A) \cup HyperHashBuild(A),
         NEW r \in Then(y, Done(UpdateEntries(y.m, q)) \cup NoMemory(y.m))
  PROVE  Tidy(r)
  <1>1. Ready(A) /\ Orderly(A)
    BY DEF Usable
  <1>2. Kept(y) /\ Fits(A, y.m) /\ (y.info = "SUCCESS" => y.m.fmt = A.fmt)
    <2>1. CASE y \in Done(A)
      BY <2>1, KeptDone, FitsSame DEF Done
    <2>2. CASE y \in HyperHashBuild(A)
      <3>1. Safe(A, HyperHashBuild(A))
        BY <1>1, SafeHyperHashBuild
      <3>2. y.info = "SUCCESS" => y.m.fmt = A.fmt
        BY <1>1, <2>2 DEF HyperHashBuild, Done, NoMemory, Ready, Good, Matrices
      <3> QED BY <1>1, <2>2, <3>1, <3>2, KeptSafe DEF Safe
    <2> QED BY <2>1, <2>2
  <1>3. CASE y.info # "SUCCESS"
    BY <1>2, <1>3, KeptTidy DEF Then
  <1>4. CASE y.info = "SUCCESS"
    <2>1. Usable(y.m) /\ ~y.m.jumbled /\ y.m.fmt = A.fmt
      BY <1>2, <1>4, KeptUsable DEF Fits
    <2>2. Asked(y.m, q)
      BY <1>2, AskedSame DEF Fits
    <2>3. LET B == UpdateEntries(y.m, q) IN Ready(B) /\ ~B.jumbled
      BY <2>1, <2>2, ReadyUpdateEntries DEF Usable
    <2>4. CASE r \in Done(UpdateEntries(y.m, q))
      BY <2>3, <2>4 DEF Done, Tidy, Outcomes, Ready, Good
    <2>5. CASE r \in NoMemory(y.m)
      BY <2>1, <2>5, KeptDone, KeptTidy
    <2> QED BY <1>4, <2>4, <2>5 DEF Then
  <1> QED BY <1>3, <1>4

\* Methods 01 to 20.
LEMMA TidyUpdate ==
  ASSUME NEW A, Usable(A), A.fmt # "bitmap", NEW q, Asked(A, q),
         A.fmt = "full" => ~q.replace /\ (q.accum # NoOp \/ Scalar(q)),
         NEW r \in Update(A, q)
  PROVE  Tidy(r)
  <1> DEFINE fits(B) == B.fmt = A.fmt \/ {B.fmt, A.fmt} \subseteq {"sparse", "hyper"}
             entries(B) == Done(UpdateEntries(B, q)) \cup NoMemory(B)
             update(B)  == IF fits(B) THEN Each(Done(B) \cup HyperHashBuild(B), entries)
                           ELSE {[m |-> B, info |-> "CRASH"]}
  <1>1. Ready(A) /\ Orderly(A)
    BY DEF Usable
  <1>2. PICK x \in Unjumbled(A) : r \in Then(x, update(x.m))
    BY DEF Update, Each
  <1>3. Kept(x) /\ Fits(A, x.m) /\ (x.info = "SUCCESS" => ~x.m.jumbled)
    BY <1>1, SafeUnjumbled, KeptSafe DEF Safe
  <1>4. CASE x.info # "SUCCESS"
    BY <1>2, <1>3, <1>4, KeptTidy DEF Then
  <1>5. CASE x.info = "SUCCESS" /\ ~fits(x.m)
    <2>1. r \in update(x.m)
      BY <1>2, <1>5 DEF Then
    <2>2. update(x.m) = {[m |-> x.m, info |-> "CRASH"]}
      BY <1>5
    <2>3. r = [m |-> x.m, info |-> "CRASH"]
      BY <2>1, <2>2
    <2> QED BY <1>3, <2>3 DEF Kept, Tidy, Outcomes
  <1>6. CASE x.info = "SUCCESS" /\ fits(x.m)
    <2>1. PICK y \in Done(x.m) \cup HyperHashBuild(x.m) : r \in Then(y, entries(y.m))
      BY <1>2, <1>6 DEF Then, Each
    <2>2. Usable(x.m) /\ ~x.m.jumbled /\ Asked(x.m, q)
      BY <1>3, <1>6, KeptUsable, AskedSame DEF Fits
    <2>3. x.m.fmt # "bitmap" /\ (x.m.fmt = "full" => A.fmt = "full")
      BY <1>6
    <2> QED BY <2>1, <2>2, <2>3, TidyEntries
  <1> QED BY <1>4, <1>5, <1>6

\* A bitmap or full matrix is made sparse.
LEMMA SafeNotDense ==
  ASSUME NEW A, Ready(A)
  PROVE  /\ Safe(A, NotDense(A))
         /\ \A r \in NotDense(A) : r.info = "SUCCESS" => r.m.fmt \in {"sparse", "hyper"}
  <1>1. CASE A.fmt \in {"bitmap", "full"}
    BY <1>1, SafeAnyToSparse DEF NotDense
  <1>2. CASE A.fmt \notin {"bitmap", "full"}
    <2>1. NotDense(A) = Done(A) /\ A.fmt \in {"sparse", "hyper"}
      BY <1>2 DEF NotDense, Ready, Good, Matrices, Formats
    <2> QED BY <2>1, SafeDone, FitsSame DEF Done
  <1> QED BY <1>1, <1>2

\* More entries become zombies: those outside of C(I,J).
LEMMA ReadyDeleteOutside ==
  ASSUME NEW A, Ready(A), A.fmt \in {"sparse", "hyper"}, NEW q
  PROVE  LET B == DeleteOutside(A, q)
         IN  Ready(B) /\ B.pend = A.pend /\ B.jumbled = A.jumbled
  <1> DEFINE doomed == {p \in Live(A) \ q.region : ~MaskTrue(q, p)}
             content == [p \in Pos |-> IF p \in doomed THEN Zombie ELSE A.entry[p]]
             count == A.nzombies + Cardinality(doomed)
             B == [A EXCEPT !.entry = content, !.nzombies = count]
  <1>1. /\ A \in Matrices /\ A.valid /\ StructureOK(A) /\ WorkOK(A) /\ IsoOK(A)
        /\ A.entry \in [Pos -> Val \cup {Absent, Zombie}]
        /\ A.nzombies \in Nat /\ A.nzombies = Cardinality(Zombies(A))
    BY DEF Ready, Good, Matrices, StructureOK, CountsExact
  <1>2. DeleteOutside(A, q) = B
    BY <1>1 DEF DeleteOutside, Matrices
  <1>3. doomed \subseteq Live(A)
    OBVIOUS
  <1> HIDE DEF doomed
  <1>4. doomed \in SUBSET Pos /\ Zombies(A) \in SUBSET Pos /\ Zombies(A) \cap doomed = {}
    BY <1>3, HeldType, ValAssumption DEF Live, Zombies
  <1>5. /\ IsFiniteSet(doomed) /\ IsFiniteSet(Zombies(A))
        /\ Cardinality(doomed) \in Nat /\ Cardinality({}) = 0
    BY <1>4, CountNat, FS_EmptySet
  <1>6. count = Cardinality(Zombies(A) \cup doomed) /\ count \in Nat
    <2> DEFINE Z == Zombies(A)
    <2>1. IsFiniteSet(Z) /\ Z \cap doomed = {} /\ Cardinality(Z) = A.nzombies
      BY <1>1, <1>4, <1>5
    <2> HIDE DEF Z
    <2>2. Cardinality(Z \cup doomed)
            = Cardinality(Z) + Cardinality(doomed) - Cardinality(Z \cap doomed)
      BY <1>5, <2>1, FS_Union
    <2>3. Cardinality(Z \cap doomed) = 0
      BY <1>5, <2>1
    <2>4. Cardinality(Z \cup doomed) = count
      BY <1>5, <2>1, <2>2, <2>3
    <2>5. count \in Nat
      BY <1>1, <1>5
    <2> QED BY <2>4, <2>5 DEF Z
  <1> HIDE DEF count
  <1>7. \A p \in Pos : /\ content[p] \in Val \cup {Absent, Zombie}
                       /\ content[p] = Absent <=> A.entry[p] = Absent
                       /\ content[p] = Zombie <=> p \in Zombies(A) \cup doomed
                       /\ content[p] \in Val => content[p] = A.entry[p]
    BY <1>1, <1>3, ValAssumption DEF Zombies, Live
  <1>8. content \in [Pos -> Val \cup {Absent, Zombie}]
    BY <1>7
  <1>9. B \in Matrices
    BY <1>1, <1>6, <1>8 DEF Matrices
  <1>10. /\ B.fmt = A.fmt /\ B.entry = content /\ B.nvals = A.nvals /\ B.iso = A.iso
         /\ B.nzombies = count /\ B.nne = A.nne /\ B.h = A.h /\ B.Y = A.Y
         /\ B.jumbled = A.jumbled /\ B.unsorted = A.unsorted /\ B.valid = A.valid
         /\ B.vlen = A.vlen /\ B.vdim = A.vdim /\ B.pend = A.pend
    BY <1>1 DEF Matrices
  <1> HIDE DEF B, content
  <1>11. Held(B) = Held(A) /\ Zombies(B) = Zombies(A) \cup doomed
    BY <1>4, <1>7, <1>10 DEF Held, Zombies
  <1>12. StructureOK(B)
    BY <1>1, <1>6, <1>9, <1>10, <1>11, SamePattern
  <1>13. WorkOK(B)
    <2>1. \A p \in PendingPos(A) : A.entry[p] = Absent => B.entry[p] = Absent
      BY <1>1, <1>7, <1>10, TupleTypes
    <2> QED BY <1>1, <1>10, <2>1, SamePatternWork
  <1>14. IsoOK(B)
    BY <1>1, <1>7, <1>10 DEF IsoOK, HasPending, Live
  <1> QED BY <1>1, <1>2, <1>9, <1>10, <1>12, <1>13, <1>14 DEF Ready, Good

\* The second phase of GrB_assign with replace.
LEMMA KeptReplaceOutside ==
  ASSUME NEW A, Usable(A), NEW q, NEW r \in ReplaceOutside(A, q)
  PROVE  Kept(r)
  <1>1. PICK y \in Each(WaitIf(HasPending(A), A), NotDense) :
          r \in Then(y, Done(DeleteOutside(y.m, q)))
    BY DEF ReplaceOutside, Each
  <1>2. PICK x \in WaitIf(HasPending(A), A) : y \in Then(x, NotDense(x.m))
    BY <1>1 DEF Each
  <1>3. Ready(A) /\ Orderly(A)
    BY DEF Usable
  <1>4. Kept(x)
    BY <1>3, SafeWaitIf, KeptSafe
  <1>5. CASE x.info # "SUCCESS"
    BY <1>1, <1>2, <1>4, <1>5 DEF Then
  <1>6. CASE x.info = "SUCCESS"
    <2>1. Ready(x.m) /\ Orderly(x.m) /\ y \in NotDense(x.m)
      BY <1>2, <1>4, <1>6, KeptUsable DEF Usable, Then
    <2>2. Kept(y) /\ (y.info = "SUCCESS" => y.m.fmt \in {"sparse", "hyper"})
      BY <2>1, SafeNotDense, KeptSafe
    <2>3. CASE y.info # "SUCCESS"
      BY <1>1, <2>2, <2>3 DEF Then
    <2>4. CASE y.info = "SUCCESS"
      <3>1. Ready(y.m) /\ Orderly(y.m)
        BY <2>2, <2>4, KeptUsable DEF Usable
      <3> DEFINE B == DeleteOutside(y.m, q)
      <3>2. Ready(B) /\ B.pend = y.m.pend /\ B.jumbled = y.m.jumbled
        BY <2>2, <2>4, <3>1, ReadyDeleteOutside
      <3>3. B.vlen = y.m.vlen /\ B.vdim = y.m.vdim
        BY <3>1 DEF DeleteOutside, Ready, Good, Matrices
      <3>4. r = [m |-> B, info |-> "SUCCESS"]
        BY <1>1, <2>4 DEF Then, Done
      <3> HIDE DEF B
      <3>5. Orderly(B)
        BY <3>1, <3>2, <3>3 DEF Orderly, PendingBounded, HasPending, Dense
      <3> QED BY <3>2, <3>4, <3>5 DEF Kept, Ready, Good, Outcomes
    <2> QED BY <2>3, <2>4
  <1> QED BY <1>5, <1>6

-----------------------------------------------------------------------------
(* Methods 21, 24, 05e and 25 *)

\* A matrix that is sound but for its iso value, which an assignment to all of it
\* has set before its entries.
Loose(A) ==
  A \in Matrices /\ A.valid /\ StructureOK(A) /\ WorkOK(A) /\ ~HasPending(A)

\* A sound matrix without tuples.
LEMMA ReadyLoose ==
  ASSUME NEW A, Ready(A), ~HasPending(A)
  PROVE  Loose(A)
  BY DEF Ready, Good, Loose

\* No tuples are pending.
LEMMA NoTuplesWork ==
  ASSUME NEW B \in Matrices, ~HasPending(B), B.unsorted # {} => B.jumbled,
         B.fmt \in {"bitmap", "full"} => B.nzombies = 0 /\ ~B.jumbled
  PROVE  WorkOK(B)
  <1>1. B.pend.tup = <<>> /\ B.nzombies \in Nat
    BY DEF HasPending, Matrices
  <1>2. PendingPos(B) = {} /\ Len(B.pend.tup) = 0
    BY <1>1 DEF PendingPos
  <1>3. PendingSorted(B)
    BY <1>2 DEF PendingSorted
  <1>4. PendingDisjoint(B) /\ JumbledCovers(B) /\ DenseSettled(B)
    BY <1>1, <1>2 DEF PendingDisjoint, JumbledCovers, DenseSettled, AnyPendingWork
  <1> QED BY <1>3, <1>4 DEF WorkOK

\* Without tuples the iso value is a matter of the entries alone.
LEMMA NoTuplesIso ==
  ASSUME NEW B \in Matrices, ~HasPending(B),
         B.iso # NotIso => \A p \in Live(B) : B.entry[p] = B.iso
  PROVE  IsoOK(B)
  <1>1. B.pend.tup = <<>>
    BY DEF HasPending
  <1> QED BY <1>1 DEF IsoOK

\* A full matrix, made of any other.
LEMMA ReadyFilled ==
  ASSUME NEW A \in Matrices, StructureOK(A), NEW B \in Matrices, B.valid,
         B.fmt = "full", B.vlen = A.vlen, B.vdim = A.vdim, B.nne = AnyToFull(A).nne,
         B.h = AnyToFull(A).h, B.Y = AnyToFull(A).Y, B.nzombies = 0, ~HasPending(B),
         ~B.jumbled, B.unsorted = {},
         \A p \in Pos : IF InRange(A, p) THEN B.entry[p] \in Val ELSE B.entry[p] = Absent,
         B.iso # NotIso => \A p \in Live(B) : B.entry[p] = B.iso
  PROVE  Ready(B)
  <1>1. \A p : InRange(B, p) <=> InRange(A, p)
    BY DEF InRange
  <1>2. AllVectors(B) = AllVectors(A)
    BY DEF AllVectors
  <1>3. /\ B.h = {} /\ B.Y = NoHash
        /\ B.nne # -1 => B.nne = AllVectors(A)
    BY DEF AnyToFull, Matrices, StructureOK, HyperlistCovers, HashMatches, NneExact, NvecNonempty
  <1>4. EntriesInRange(B) /\ Live(B) = {p \in Pos : InRange(B, p)} /\ Zombies(B) = {}
    BY <1>1, ValAssumption DEF EntriesInRange, Live, Held, Zombies
  <1>5. Cardinality(Zombies(B)) = 0
    BY <1>4, FS_EmptySet
  <1>6. StructureOK(B)
    BY <1>2, <1>3, <1>4, <1>5
    DEF StructureOK, CountsExact, NneExact, NvecNonempty, HyperlistCovers, HashMatches
  <1> QED BY <1>6, NoTuplesWork, NoTuplesIso DEF Ready, Good

\* A copy of a finished matrix, with other entries in the same pattern.
LEMMA ReadyCopied ==
  ASSUME NEW T \in Matrices, StructureOK(T), WorkOK(T), NEW B \in Matrices, B.valid,
         B.vlen = T.vlen, B.vdim = T.vdim, B.fmt = T.fmt, B.h = T.h, B.nvals = T.nvals,
         B.nne = NvecNonempty(T), B.Y = NoHash, ~HasPending(B), B.jumbled = T.jumbled,
         B.unsorted = T.unsorted, \A p \in Pos : B.entry[p] = Absent <=> T.entry[p] = Absent,
         B.nzombies = Cardinality(Zombies(B)),
         B.fmt \in {"bitmap", "full"} => Zombies(B) = {},
         B.iso # NotIso => \A p \in Live(B) : B.entry[p] = B.iso
  PROVE  Ready(B)
  <1>1. Held(B) = Held(T)
    BY DEF Held
  <1>2. StructureOK(B)
    BY <1>1, SamePattern
  <1>3. B.fmt \in {"bitmap", "full"} => B.nzombies = 0 /\ ~B.jumbled
    BY FS_EmptySet DEF WorkOK, DenseSettled, AnyPendingWork
  <1>4. WorkOK(B)
    BY <1>3, NoTuplesWork DEF WorkOK, JumbledCovers
  <1> QED BY <1>2, <1>4, NoTuplesIso DEF Ready, Good

\* Method 21.
LEMMA ReadySplatted ==
  ASSUME NEW A, Loose(A), A.nzombies = 0, ~A.jumbled, A.iso \in Val
  PROVE  Ready(Splatted(A)) /\ ~HasPending(Splatted(A))
  <1> DEFINE entry == [p \in Pos |-> IF InRange(A, p) THEN A.iso ELSE Absent]
             F == AnyToFull(A)
             B == [F EXCEPT !.entry = entry]
  <1>1. A \in Matrices /\ A.valid /\ StructureOK(A) /\ WorkOK(A) /\ ~HasPending(A)
    BY DEF Loose
  <1>2. AllVectors(A) \in Nat /\ A.unsorted = {}
    BY <1>1, DenseNat DEF WorkOK, JumbledCovers
  <1>3. entry \in [Pos -> Val \cup {Absent, Zombie}]
    OBVIOUS
  <1>4. F \in Matrices
    BY <1>1, <1>2 DEF AnyToFull, Matrices, Formats
  <1>5. /\ F.fmt = "full" /\ F.vlen = A.vlen /\ F.vdim = A.vdim /\ F.valid
        /\ F.nzombies = 0 /\ F.pend = A.pend /\ ~F.jumbled /\ F.unsorted = {}
        /\ F.iso = A.iso
    BY <1>1, <1>2 DEF AnyToFull, Matrices
  <1>6. B = Splatted(A)
    BY DEF Splatted
  <1> HIDE DEF entry, F
  <1>7. /\ B \in Matrices /\ B.entry = entry
        /\ B.fmt = F.fmt /\ B.vlen = F.vlen /\ B.vdim = F.vdim /\ B.nne = F.nne /\ B.h = F.h
        /\ B.Y = F.Y /\ B.nzombies = F.nzombies /\ B.pend = F.pend /\ B.jumbled = F.jumbled
        /\ B.unsorted = F.unsorted /\ B.iso = F.iso /\ B.valid = F.valid
    BY <1>3, <1>4 DEF Matrices
  <1> HIDE DEF B
  <1>8. \A p \in Pos : B.entry[p] = IF InRange(A, p) THEN A.iso ELSE Absent
    BY <1>7 DEF entry
  <1>9. ~HasPending(B)
    BY <1>1, <1>5, <1>7 DEF HasPending
  <1>10. \A p \in Live(B) : B.entry[p] = B.iso
    BY <1>5, <1>7, <1>8, ValAssumption DEF Live
  <1>11. Ready(B)
    BY <1>1, <1>5, <1>7, <1>8, <1>9, <1>10, ReadyFilled DEF F
  <1> QED BY <1>6, <1>9, <1>11

\* The values of A, cast.
LEMMA CastEntries ==
  ASSUME NEW D, NEW q, Asked(D, q), ~Scalar(q)
  PROVE  /\ CastValues(q, q.A.entry) \in [Pos -> Val \cup {Absent, Zombie}]
         /\ \A p \in Pos : /\ CastValues(q, q.A.entry)[p] = Absent <=> q.A.entry[p] = Absent
                           /\ CastValues(q, q.A.entry)[p] # Zombie
                           /\ CastIso(q) # NotIso /\ CastValues(q, q.A.entry)[p] \in Val =>
                                CastValues(q, q.A.entry)[p] = CastIso(q)
         /\ CastIso(q) \in Val \cup {NotIso}
  <1>1. /\ q.A \in Matrices /\ Zombies(q.A) = {} /\ IsoOK(q.A) /\ q.type \in Types
    BY DEF Asked, Scalar
  <1>2. \A p \in Pos : /\ q.A.entry[p] \in Val \cup {Absent, Zombie}
                       /\ q.A.entry[p] # Zombie
    BY <1>1 DEF Matrices, Zombies
  <1>3. q.A.iso \in Val \cup {NotIso}
        /\ (q.A.iso # NotIso => \A p \in Pos : q.A.entry[p] \in Val => q.A.entry[p] = q.A.iso)
    BY <1>1 DEF IsoOK, Live, Matrices
  <1>4. \A v \in Val : Cast(q.type, v) \in Val
    BY <1>1, OpAssumption
  <1>5. CastIso(q) \in Val \cup {NotIso}
        /\ (CastIso(q) # NotIso => q.A.iso \in Val /\ CastIso(q) = Cast(q.type, q.A.iso))
    BY <1>3, <1>4 DEF CastIso
  <1> QED BY <1>2, <1>3, <1>4, <1>5, ValAssumption DEF CastValues

\* Method 24, where C and A are dense: C keeps its header and takes the values.
LEMMA ReadyCopyValues ==
  ASSUME NEW D, Loose(D), NEW q, Asked(D, q), Whole(q), ~Scalar(q),
         IsDense(q.A), ~q.A.jumbled, NEW B,
         B = [AnyToFull(D) EXCEPT !.entry = CastValues(q, q.A.entry), !.iso = CastIso(q),
                                  !.nzombies = 0, !.pend = NoPending,
                                  !.jumbled = FALSE, !.unsorted = {}]
  PROVE  Ready(B) /\ ~HasPending(B)
  <1> DEFINE F == AnyToFull(D)
  <1>1. D \in Matrices /\ D.valid /\ StructureOK(D)
    BY DEF Loose
  <1>2. Ready(q.A) /\ AsIfFull(q.A) /\ q.A.vlen = D.vlen /\ q.A.vdim = D.vdim
    BY DEF Asked, Scalar, Ready, Good, AsIfFull, AnyPendingWork, HasPending, NoPending, IsDense
  <1>3. Live(q.A) = {p \in Pos : InRange(q.A, p)}
    BY <1>2, AsIfFullHolds
  <1>4. \A p \in Pos : /\ InRange(D, p) => q.A.entry[p] \in Val
                       /\ ~InRange(D, p) => q.A.entry[p] = Absent
    <2>1. \A p \in Held(q.A) : InRange(q.A, p)
      BY <1>2 DEF Ready, Good, StructureOK, EntriesInRange
    <2> QED BY <1>2, <1>3, <2>1 DEF Live, Held, InRange
  <1>5. F \in Matrices /\ F.fmt = "full" /\ F.vlen = D.vlen /\ F.vdim = D.vdim /\ F.valid
    BY <1>1, DenseNat DEF AnyToFull, Matrices, Formats
  <1> HIDE DEF F
  <1>6. /\ CastValues(q, q.A.entry) \in [Pos -> Val \cup {Absent, Zombie}]
        /\ CastIso(q) \in Val \cup {NotIso}
        /\ NoPending \in PendingLists
    BY CastEntries, OpAssumption DEF NoPending, PendingLists
  <1>7. /\ B \in Matrices /\ B.valid
        /\ B.entry = CastValues(q, q.A.entry) /\ B.iso = CastIso(q)
        /\ B.fmt = "full" /\ B.vlen = D.vlen /\ B.vdim = D.vdim /\ B.nne = F.nne /\ B.h = F.h
        /\ B.Y = F.Y /\ B.nzombies = 0 /\ B.pend = NoPending /\ ~B.jumbled /\ B.unsorted = {}
    BY <1>5, <1>6 DEF Matrices, F
  <1>8. \A p \in Pos : IF InRange(D, p) THEN B.entry[p] \in Val ELSE B.entry[p] = Absent
    <2>1. \A p \in Pos : q.A.entry[p] \in Val => B.entry[p] \in Val
      BY <1>6, <1>7, CastEntries, ValAssumption
    <2> QED BY <1>4, <1>7, <2>1, CastEntries
  <1>9. ~HasPending(B)
    BY <1>7 DEF HasPending, NoPending
  <1>10. B.iso # NotIso => \A p \in Live(B) : B.entry[p] = B.iso
    BY <1>7, CastEntries DEF Live
  <1>11. B.nne = AnyToFull(D).nne /\ B.h = AnyToFull(D).h /\ B.Y = AnyToFull(D).Y
    BY <1>7 DEF F
  <1>12. Ready(B)
    BY <1>1, <1>7, <1>8, <1>9, <1>10, <1>11, ReadyFilled
  <1> QED BY <1>9, <1>12

\* What GB_dup_worker makes of a finished matrix.
Copied(T, entry, iso, n, control) ==
  [Duplicate(T, entry, iso) EXCEPT !.nzombies = n, !.control = control]

\* What the copy takes from the matrix that is copied.
LEMMA CopiedFields ==
  ASSUME NEW T \in Matrices, T.valid, NEW entry \in [Pos -> Val \cup {Absent, Zombie}],
         NEW iso \in Val \cup {NotIso}, NEW n \in Nat,
         NEW control \in (SUBSET Formats) \ {{}}
  PROVE  LET B == Copied(T, entry, iso, n, control)
         IN  /\ B \in Matrices /\ B.valid
             /\ B.vlen = T.vlen /\ B.vdim = T.vdim /\ B.fmt = T.fmt /\ B.h = T.h
             /\ B.nvals = T.nvals /\ B.nne = NvecNonempty(T) /\ B.Y = NoHash
             /\ B.pend = T.pend /\ B.jumbled = T.jumbled /\ B.unsorted = T.unsorted
             /\ B.entry = entry /\ B.iso = iso /\ B.nzombies = n
  <1>1. NvecNonempty(T) \in Nat
    BY HeldCounts, DenseNat DEF NvecNonempty
  <1> QED BY <1>1 DEF Copied, Duplicate, Matrices

\* The mask or A.
LEMMA AskedOperand ==
  ASSUME NEW D, NEW q, Asked(D, q), NEW T \in {q.M, q.A}, T # NoMatrix
  PROVE  /\ T \in Matrices /\ T.valid /\ T.pend = NoPending /\ T.nzombies = 0
         /\ Zombies(T) = {} /\ Cardinality(Held(T)) = Nnz(T) /\ WorkOK(T) /\ IsoOK(T)
         /\ Whole(q) => T.vlen = D.vlen /\ T.vdim = D.vdim /\ StructureOK(T)
         /\ ~HasPending(T) /\ T.control \in (SUBSET Formats) \ {{}}
         /\ \A p \in Pos : T.entry[p] \in Val \cup {Absent}
  <1>1. T \in Matrices /\ Zombies(T) = {} /\ T.pend = NoPending
    BY DEF Asked
  <1>2. \A p \in Pos : T.entry[p] \in Val \cup {Absent}
    BY <1>1 DEF Matrices, Zombies
  <1>3. ~HasPending(T) /\ T.control \in (SUBSET Formats) \ {{}}
    BY <1>1 DEF HasPending, NoPending, Matrices
  <1> QED BY <1>2, <1>3 DEF Asked

\* Method 24.
LEMMA ReadyCopyMatrix ==
  ASSUME NEW D, Loose(D), NEW q, Asked(D, q), Whole(q), ~Scalar(q)
  PROVE  Ready(CopyMatrix(D, q)) /\ ~HasPending(CopyMatrix(D, q))
  <1> DEFINE values == CastValues(q, q.A.entry)
             reuse == IsDense(D) /\ IsDense(q.A) /\ ~q.A.jumbled
             B == [Duplicate(q.A, values, CastIso(q)) EXCEPT !.control = D.control]
  <1>1. CASE reuse
    <2>1. CopyMatrix(D, q) = [AnyToFull(D) EXCEPT !.entry = values, !.iso = CastIso(q),
                                                  !.nzombies = 0, !.pend = NoPending,
                                                  !.jumbled = FALSE, !.unsorted = {}]
      BY <1>1 DEF CopyMatrix
    <2> QED BY <1>1, <2>1, ReadyCopyValues
  <1>2. CASE ~reuse
    <2>1. CopyMatrix(D, q) = B
      BY <1>2 DEF CopyMatrix
    <2>2. /\ q.A \in Matrices /\ q.A.valid /\ q.A.nzombies = 0 /\ ~HasPending(q.A)
          /\ StructureOK(q.A) /\ WorkOK(q.A)
      BY AskedOperand DEF Scalar
    <2>3. D.control \in (SUBSET Formats) \ {{}} /\ 0 \in Nat
      BY DEF Loose, Matrices
    <2>4. /\ values \in [Pos -> Val \cup {Absent, Zombie}]
          /\ \A p \in Pos : /\ values[p] = Absent <=> q.A.entry[p] = Absent
                            /\ values[p] # Zombie
                            /\ CastIso(q) # NotIso /\ values[p] \in Val => values[p] = CastIso(q)
          /\ CastIso(q) \in Val \cup {NotIso}
      BY CastEntries
    <2> HIDE DEF values
    <2>5. B = Copied(q.A, values, CastIso(q), 0, D.control)
      BY <2>2 DEF Copied, Duplicate, Matrices
    <2> HIDE DEF B
    <2>6. /\ B \in Matrices /\ B.valid
          /\ B.vlen = q.A.vlen /\ B.vdim = q.A.vdim /\ B.fmt = q.A.fmt /\ B.h = q.A.h
          /\ B.nvals = q.A.nvals /\ B.nne = NvecNonempty(q.A) /\ B.Y = NoHash
          /\ B.pend = q.A.pend /\ B.jumbled = q.A.jumbled /\ B.unsorted = q.A.unsorted
          /\ B.entry = values /\ B.iso = CastIso(q) /\ B.nzombies = 0
      BY <2>2, <2>3, <2>4, <2>5, CopiedFields
    <2>7. Zombies(B) = {} /\ B.nzombies = Cardinality(Zombies(B))
      BY <2>4, <2>6, FS_EmptySet DEF Zombies
    <2>8. ~HasPending(B)
      BY <2>2, <2>6 DEF HasPending
    <2>9. B.iso # NotIso => \A p \in Live(B) : B.entry[p] = B.iso
      BY <2>4, <2>6 DEF Live
    <2>10. Ready(B)
      BY <2>2, <2>4, <2>6, <2>7, <2>8, <2>9, ReadyCopied
    <2> QED BY <2>1, <2>8, <2>10
  <1> QED BY <1>1, <1>2

\* Method 05e.
LEMMA ReadyCopyPattern ==
  ASSUME NEW D, NEW q, Asked(D, q), Whole(q), q.M # NoMatrix
  PROVE  Ready(CopyPattern(D, q)) /\ ~HasPending(CopyPattern(D, q))
  <1> DEFINE x == Cast(q.type, q.s)
             entry == [p \in Pos |-> IF q.M.entry[p] \in Val THEN x ELSE Absent]
             B == Duplicate(q.M, entry, x)
  <1>1. /\ q.M \in Matrices /\ q.M.valid /\ q.M.nzombies = 0 /\ ~HasPending(q.M)
        /\ StructureOK(q.M) /\ WorkOK(q.M) /\ q.M.control \in (SUBSET Formats) \ {{}}
        /\ \A p \in Pos : q.M.entry[p] \in Val \cup {Absent}
    BY AskedOperand
  <1>2. x \in Val
    BY OpAssumption DEF Asked
  <1>3. CopyPattern(D, q) = B
    BY DEF CopyPattern
  <1> HIDE DEF x
  <1>4. /\ entry \in [Pos -> Val \cup {Absent, Zombie}]
        /\ \A p \in Pos : /\ entry[p] = Absent <=> q.M.entry[p] = Absent
                          /\ entry[p] \in {x, Absent}
    BY <1>1, <1>2, ValAssumption
  <1> HIDE DEF entry
  <1>5. B = Copied(q.M, entry, x, 0, q.M.control)
    BY <1>1 DEF Copied, Duplicate, Matrices
  <1> HIDE DEF B
  <1>6. /\ B \in Matrices /\ B.valid
        /\ B.vlen = q.M.vlen /\ B.vdim = q.M.vdim /\ B.fmt = q.M.fmt /\ B.h = q.M.h
        /\ B.nvals = q.M.nvals /\ B.nne = NvecNonempty(q.M) /\ B.Y = NoHash
        /\ B.pend = q.M.pend /\ B.jumbled = q.M.jumbled /\ B.unsorted = q.M.unsorted
        /\ B.entry = entry /\ B.iso = x /\ B.nzombies = 0
    BY <1>1, <1>2, <1>4, <1>5, CopiedFields
  <1>7. Zombies(B) = {} /\ B.nzombies = Cardinality(Zombies(B))
    BY <1>2, <1>4, <1>6, ValAssumption, FS_EmptySet DEF Zombies
  <1>8. ~HasPending(B)
    BY <1>1, <1>6 DEF HasPending
  <1>9. \A p \in Live(B) : B.entry[p] = B.iso
    BY <1>2, <1>4, <1>6, ValAssumption DEF Live
  <1>10. Ready(B)
    BY <1>1, <1>4, <1>6, <1>7, <1>8, <1>9, ReadyCopied
  <1> QED BY <1>3, <1>8, <1>10

\* Method 25.
LEMMA ReadyCopyMasked ==
  ASSUME NEW D, NEW q, Asked(D, q), Whole(q), q.M # NoMatrix, ~Scalar(q),
         q.M.fmt \notin {"bitmap", "full"}
  PROVE  Ready(CopyMasked(D, q)) /\ ~HasPending(CopyMasked(D, q))
  <1> DEFINE entry == [p \in Pos |->
                         CASE q.M.entry[p] \notin Val -> Absent
                           [] q.M.entry[p] \in Val /\ Given(q, p) = Absent -> Zombie
                           [] OTHER -> Cast(q.type, Given(q, p))]
             X == Duplicate(q.M, entry, CastIso(q))
             n == Cardinality(Zombies(X))
             B == [X EXCEPT !.nzombies = n]
  <1>1. /\ q.M \in Matrices /\ q.M.valid /\ q.M.nzombies = 0 /\ ~HasPending(q.M)
        /\ StructureOK(q.M) /\ WorkOK(q.M) /\ q.M.control \in (SUBSET Formats) \ {{}}
        /\ \A p \in Pos : q.M.entry[p] \in Val \cup {Absent}
    BY AskedOperand
  <1>2. /\ q.A \in Matrices /\ IsoOK(q.A)
        /\ \A p \in Pos : q.A.entry[p] \in Val \cup {Absent} /\ Given(q, p) = q.A.entry[p]
    BY AskedOperand DEF Given, Scalar
  <1>3. q.type \in Types /\ \A v \in Val : Cast(q.type, v) \in Val
    BY OpAssumption DEF Asked
  <1>4. /\ CastIso(q) \in Val \cup {NotIso}
        /\ CastIso(q) # NotIso => /\ CastIso(q) = Cast(q.type, q.A.iso)
                                  /\ \A p \in Pos : q.A.entry[p] \in Val => q.A.entry[p] = q.A.iso
    BY <1>2, <1>3 DEF CastIso, IsoOK, Live, Matrices
  <1>5. CopyMasked(D, q) = B
    BY DEF CopyMasked
  <1>6. ASSUME NEW p \in Pos
        PROVE  /\ entry[p] \in Val \cup {Absent, Zombie}
               /\ entry[p] = Absent <=> q.M.entry[p] = Absent
               /\ CastIso(q) # NotIso /\ entry[p] \in Val => entry[p] = CastIso(q)
    <2>1. CASE q.M.entry[p] \notin Val
      BY <1>1, <2>1, ValAssumption
    <2>2. CASE q.M.entry[p] \in Val /\ Given(q, p) = Absent
      <3>1. entry[p] = Zombie
        BY <2>2
      <3> QED BY <2>2, <3>1, ValAssumption
    <2>3. CASE q.M.entry[p] \in Val /\ Given(q, p) # Absent
      <3>1. entry[p] = Cast(q.type, q.A.entry[p]) /\ q.A.entry[p] \in Val
        BY <1>2, <2>3
      <3> QED BY <1>3, <1>4, <2>3, <3>1, ValAssumption
    <2> QED BY <2>1, <2>2, <2>3
  <1> HIDE DEF entry
  <1>7. entry \in [Pos -> Val \cup {Absent, Zombie}]
    <2>1. entry = [p \in Pos |-> entry[p]]
      BY DEF entry
    <2> QED BY <1>6, <2>1
  <1>8. n \in Nat
    BY HeldCounts
  <1> HIDE DEF n
  <1>9. B = Copied(q.M, entry, CastIso(q), n, q.M.control)
    BY <1>1 DEF Copied, Duplicate, Matrices
  <1>10. X.entry = entry
    BY <1>1 DEF Duplicate, Matrices
  <1> HIDE DEF B, X
  <1>11. /\ B \in Matrices /\ B.valid
        /\ B.vlen = q.M.vlen /\ B.vdim = q.M.vdim /\ B.fmt = q.M.fmt /\ B.h = q.M.h
        /\ B.nvals = q.M.nvals /\ B.nne = NvecNonempty(q.M) /\ B.Y = NoHash
        /\ B.pend = q.M.pend /\ B.jumbled = q.M.jumbled /\ B.unsorted = q.M.unsorted
        /\ B.entry = entry /\ B.iso = CastIso(q) /\ B.nzombies = n
    <2>1. q.M \in Matrices /\ q.M.valid /\ q.M.control \in (SUBSET Formats) \ {{}}
      BY <1>1
    <2>2. CastIso(q) \in Val \cup {NotIso}
      BY <1>4
    <2> QED BY <1>7, <1>8, <1>9, <2>1, <2>2, CopiedFields
  <1>12. B.nzombies = Cardinality(Zombies(B))
    BY <1>10, <1>11 DEF n, Zombies
  <1>13. ~HasPending(B)
    BY <1>1, <1>11 DEF HasPending
  <1>14. B.iso # NotIso => \A p \in Live(B) : B.entry[p] = B.iso
    BY <1>6, <1>11 DEF Live
  <1>15. Ready(B)
    BY <1>1, <1>6, <1>11, <1>12, <1>13, <1>14, ReadyCopied
  <1> QED BY <1>5, <1>13, <1>15

-----------------------------------------------------------------------------
(* Method 26 *)

\* The vectors that method 26 appends are not in the hyperlist.
LEMMA AppendedVectors ==
  ASSUME NEW D, Ready(D), NEW q, Asked(D, q), Appends(D, q),
         NEW vecs, vecs = {p[2] : p \in q.region}
  PROVE  /\ vecs \subseteq 0 .. D.vdim - 1 /\ vecs \subseteq Vectors
         /\ vecs \cap D.h = {} /\ vecs \cap Nonempty(D) = {}
         /\ Held(q.A) \subseteq q.region /\ Nonempty(q.A) \subseteq vecs
  <1> DEFINE first == IF D.h = {} THEN 0 ELSE Max(D.h) + 1
  <1>1. /\ D \in Matrices /\ D.fmt = "hyper" /\ D.vdim \in Nat /\ D.vlen \in Nat
        /\ q.region \subseteq Pos /\ \A p \in q.region : InRange(D, p)
    BY DenseNat DEF Ready, Good, Appends, Asked
  <1>2. \A p \in Pos : p[1] \in Nat /\ p[2] \in Vectors /\ p[2] \in Nat
    BY DimsAssumption DEF Pos, Vectors
  <1>3. vecs \subseteq 0 .. D.vdim - 1 /\ vecs \subseteq Vectors
    BY <1>1, <1>2 DEF InRange
  <1>4. D.h \subseteq 0 .. D.vdim - 1 /\ Nonempty(D) \subseteq D.h
    BY <1>1 DEF Ready, Good, StructureOK, HyperlistCovers
  <1>5. first \in Nat /\ \A k \in D.h : k < first
    <2>1. CASE D.h = {}
      BY <2>1
    <2>2. CASE D.h # {}
      <3>1. \A k \in D.h : k \in Int /\ 0 <= k /\ k <= D.vdim
        BY <1>1, <1>4
      <3>2. Max(D.h) \in D.h /\ \A k \in D.h : Max(D.h) >= k
        BY <1>1, <2>2, <3>1, MaxIn
      <3> QED BY <2>2, <3>1, <3>2
    <2> QED BY <2>1, <2>2
  <1> HIDE DEF first
  <1>6. vecs = first .. first + Cardinality(vecs) - 1
    BY DEF Appends, first
  <1>7. \A k \in vecs : k >= first /\ k \in Int
    <2> DEFINE last == first + Cardinality(vecs) - 1
    <2>1. vecs = first .. last
      BY <1>6
    <2> HIDE DEF last
    <2> QED BY <1>5, <2>1, <1>3
  <1>8. vecs \cap D.h = {}
    BY <1>1, <1>4, <1>5, <1>7
  <1>9. Held(q.A) \subseteq q.region
    <2>1. q.A # NoMatrix /\ Live(q.A) \subseteq q.region
      BY DEF Appends, Scalar, Asked
    <2>2. \A p \in Pos : q.A.entry[p] \in Val \cup {Absent}
      BY <2>1, AskedOperand
    <2> QED BY <2>1, <2>2 DEF Held, Live
  <1> QED BY <1>3, <1>4, <1>8, <1>9 DEF Nonempty

\* Method 26: the new vectors do not disturb the others.
LEMMA ReadyAppend26 ==
  ASSUME NEW D, Ready(D), ~HasPending(D), D.Y = NoHash,
         NEW q, Asked(D, q), Appends(D, q)
  PROVE  Ready(Append26(D, q)) /\ ~HasPending(Append26(D, q))
  <1> DEFINE vecs == {p[2] : p \in q.region}
             new == Cardinality(Nonempty(q.A))
             content == [p \in Pos |-> IF p[2] \in vecs THEN q.A.entry[p] ELSE D.entry[p]]
             count == IF D.nne >= 0 THEN D.nne + new ELSE D.nne
             B == [D EXCEPT !.entry = content, !.h = D.h \cup vecs,
                            !.nvals = D.nvals + q.A.nvals, !.nne = count,
                            !.jumbled = D.jumbled \/ q.A.jumbled,
                            !.unsorted = D.unsorted \cup q.A.unsorted]
  <1>1. /\ D \in Matrices /\ D.valid /\ StructureOK(D) /\ WorkOK(D) /\ IsoOK(D)
        /\ D.fmt = "hyper" /\ D.iso = NotIso
        /\ D.entry \in [Pos -> Val \cup {Absent, Zombie}]
    BY DEF Ready, Good, Appends, Matrices
  <1>2. /\ q.A \in Matrices /\ q.A.fmt = "sparse" /\ WorkOK(q.A)
        /\ q.A.nvals = Cardinality(Held(q.A))
        /\ \A p \in Pos : q.A.entry[p] \in Val \cup {Absent}
    BY AskedOperand DEF Appends, Scalar, Nnz
  <1>3. Append26(D, q) = B
    BY <1>1 DEF Append26, Matrices
  <1>4. /\ vecs \subseteq 0 .. D.vdim - 1 /\ vecs \subseteq Vectors
        /\ vecs \cap D.h = {} /\ vecs \cap Nonempty(D) = {}
        /\ Held(q.A) \subseteq q.region /\ Nonempty(q.A) \subseteq vecs
    BY AppendedVectors
  <1>5. /\ q.region \subseteq Pos /\ \A p \in q.region : InRange(D, p) /\ p[2] \in vecs
        /\ Held(q.A) \subseteq Pos
    BY HeldType DEF Asked
  <1>6. \A p \in Held(D) : p[2] \notin vecs
    BY <1>4 DEF Nonempty
  <1>7. \A p \in Held(q.A) : p[2] \in vecs
    BY <1>4, <1>5
  <1> HIDE DEF vecs
  <1>8. \A p \in Pos : /\ content[p] \in Val \cup {Absent, Zombie}
                       /\ content[p] # Absent <=> p \in Held(D) \cup Held(q.A)
                       /\ content[p] = Zombie <=> p \in Zombies(D)
    BY <1>1, <1>2, <1>6, <1>7, ValAssumption DEF Held, Zombies
  <1>9. content \in [Pos -> Val \cup {Absent, Zombie}]
    BY <1>8
  <1>10. /\ new \in Nat /\ D.nne \in Nat \cup {-1} /\ D.nvals \in Nat /\ q.A.nvals \in Nat
         /\ count \in Nat \cup {-1}
    BY <1>1, <1>2, HeldCounts DEF Matrices
  <1>11. B \in Matrices
    <2> DEFINE h == D.h \cup vecs
               nvals == D.nvals + q.A.nvals
               jumbled == D.jumbled \/ q.A.jumbled
               unsorted == D.unsorted \cup q.A.unsorted
    <2>1. h \in SUBSET Vectors /\ nvals \in Nat /\ unsorted \in SUBSET Vectors
      <3>1. D.h \subseteq Vectors /\ D.unsorted \subseteq Vectors
        BY <1>1 DEF Matrices
      <3>2. q.A.unsorted \subseteq Vectors
        BY <1>2 DEF Matrices
      <3>3. nvals \in Nat
        BY <1>10
      <3>4. vecs \subseteq Vectors
        BY <1>4
      <3> HIDE DEF nvals
      <3> QED BY <3>1, <3>2, <3>3, <3>4
    <2>2. jumbled \in BOOLEAN
      OBVIOUS
    <2>3. D \in Matrices /\ count \in Nat \cup {-1}
          /\ content \in [Pos -> Val \cup {Absent, Zombie}]
      BY <1>1, <1>9, <1>10
    <2>4. B = [D EXCEPT !.entry = content, !.h = h, !.nvals = nvals, !.nne = count,
                        !.jumbled = jumbled, !.unsorted = unsorted]
      OBVIOUS
    <2> HIDE DEF h, nvals, jumbled, unsorted, content, count
    <2> HIDE DEF B
    <2> QED BY <2>1, <2>2, <2>3, <2>4 DEF Matrices
  <1>12. /\ B.fmt = D.fmt /\ B.entry = content /\ B.nvals = D.nvals + q.A.nvals
         /\ B.iso = D.iso /\ B.nzombies = D.nzombies /\ B.nne = count /\ B.h = D.h \cup vecs
         /\ B.Y = D.Y /\ B.jumbled = (D.jumbled \/ q.A.jumbled)
         /\ B.unsorted = D.unsorted \cup q.A.unsorted /\ B.valid = D.valid
         /\ B.vlen = D.vlen /\ B.vdim = D.vdim /\ B.pend = D.pend
    BY <1>1 DEF Matrices
  <1> HIDE DEF B, content
  <1>13. /\ Held(B) = Held(D) \cup Held(q.A) /\ Zombies(B) = Zombies(D)
         /\ Held(D) \cap Held(q.A) = {}
    <2>1. Zombies(D) \subseteq Pos /\ Held(D) \subseteq Pos
      BY HeldType
    <2> QED BY <1>5, <1>6, <1>7, <1>8, <1>12, <2>1 DEF Held, Zombies
  <1>14. Nonempty(B) = Nonempty(D) \cup Nonempty(q.A) /\ Nonempty(D) \cap Nonempty(q.A) = {}
    BY <1>4, <1>13 DEF Nonempty
  <1>15. B.nvals = Cardinality(Held(B))
    <2> DEFINE H == Held(D)
               K == Held(q.A)
    <2>1. IsFiniteSet(H) /\ IsFiniteSet(K) /\ H \cap K = {} /\ Held(B) = H \cup K
      BY <1>13, HeldType, CountNat
    <2>2. /\ Cardinality(H) = D.nvals /\ Cardinality(K) = q.A.nvals
          /\ Cardinality({}) = 0
      BY <1>1, <1>2, FS_EmptySet DEF StructureOK, CountsExact
    <2> HIDE DEF H, K
    <2>3. Cardinality(H \cup K) = Cardinality(H) + Cardinality(K) - Cardinality(H \cap K)
      BY <2>1, FS_Union
    <2>4. Cardinality(H \cap K) = 0
      BY <2>1, <2>2
    <2> QED BY <1>10, <1>12, <2>1, <2>2, <2>3, <2>4
  <1>16. NneExact(B)
    <2> DEFINE H == Nonempty(D)
               K == Nonempty(q.A)
    <2>1. IsFiniteSet(H) /\ IsFiniteSet(K) /\ H \cap K = {} /\ Nonempty(B) = H \cup K
      BY <1>14, HeldType, CountVectors
    <2>2. /\ D.nne # -1 => D.nne = Cardinality(H)
          /\ new = Cardinality(K) /\ Cardinality({}) = 0
      BY <1>1, FS_EmptySet DEF StructureOK, NneExact, NvecNonempty
    <2> HIDE DEF H, K
    <2>3. Cardinality(H \cup K) = Cardinality(H) + Cardinality(K) - Cardinality(H \cap K)
      BY <2>1, FS_Union
    <2>4. Cardinality(H \cap K) = 0
      BY <2>1, <2>2
    <2> HIDE DEF new
    <2>5. B.nne # -1 => B.nne = Cardinality(H \cup K)
      <3>1. Cardinality(H) \in Nat
        BY <2>1, FS_CardinalityType
      <3> QED BY <1>10, <1>12, <2>2, <2>3, <2>4, <3>1
    <2> QED BY <1>1, <1>12, <2>1, <2>5 DEF NneExact, NvecNonempty
  <1>17. EntriesInRange(B)
    BY <1>1, <1>4, <1>5, <1>12, <1>13 DEF StructureOK, EntriesInRange, InRange
  <1>18. HyperlistCovers(B) /\ HashMatches(B)
    BY <1>1, <1>4, <1>12, <1>14 DEF StructureOK, HyperlistCovers, HashMatches
  <1>19. CountsExact(B)
    BY <1>1, <1>12, <1>13, <1>15 DEF StructureOK, CountsExact
  <1>20. ~HasPending(B)
    BY <1>12 DEF HasPending
  <1>21. WorkOK(B)
    <2>1. B.unsorted # {} => B.jumbled
      BY <1>1, <1>2, <1>12 DEF WorkOK, JumbledCovers
    <2> QED BY <1>1, <1>11, <1>12, <1>20, <2>1, NoTuplesWork
  <1>22. IsoOK(B)
    BY <1>1, <1>11, <1>12, <1>20, NoTuplesIso
  <1> QED BY <1>1, <1>3, <1>11, <1>12, <1>16, <1>17, <1>18, <1>19, <1>20, <1>21, <1>22
          DEF Ready, Good, StructureOK

-----------------------------------------------------------------------------
(* GB_bitmap_assign *)

\* An assignment to all of an iso matrix leaves its iso value, or nothing.
LEMMA SplatResult ==
  ASSUME NEW D \in Matrices, NEW q, Asked(D, q), Splat(q), D.iso # NotIso, NEW p \in Pos
  PROVE  Result(D, q, p) \in {D.iso, Absent}
  <1>1. MaskTrue(q, p)
    BY DEF Splat, NoMask, MaskTrue, Asked
  <1>2. CASE Given(q, p) = Absent
    BY <1>1, <1>2 DEF Result, Splat
  <1>3. CASE Given(q, p) # Absent
    BY <1>1, <1>3 DEF Result
  <1> QED BY <1>2, <1>3

\* The entries of a bitmap are set and deleted in place, and counted.
LEMMA ReadyBitmapEntries ==
  ASSUME NEW D, Loose(D), D.fmt = "bitmap", NEW q, Asked(D, q), IsoOK(D) \/ Splat(q)
  PROVE  Ready(BitmapEntries(D, q)) /\ ~HasPending(BitmapEntries(D, q))
  <1> DEFINE drop(p) == /\ p \notin q.region /\ q.kind = "assign" /\ q.replace
                        /\ InRange(D, p) /\ ~MaskTrue(q, p)
             content == [p \in Pos |-> CASE p \in q.region -> Result(D, q, p)
                                         [] drop(p) -> Absent
                                         [] OTHER -> D.entry[p]]
             X == [D EXCEPT !.entry = content]
             n == Cardinality(Live(X))
             B == [X EXCEPT !.nvals = n]
  <1>1. /\ D \in Matrices /\ D.valid /\ StructureOK(D) /\ WorkOK(D) /\ ~HasPending(D)
        /\ D.entry \in [Pos -> Val \cup {Absent, Zombie}]
    BY DEF Loose, Matrices
  <1>2. BitmapEntries(D, q) = B
    BY DEF BitmapEntries
  <1>3. D.nzombies = 0 /\ ~D.jumbled /\ D.unsorted = {} /\ Zombies(D) = {}
    <2>1. D.nzombies = 0 /\ ~D.jumbled /\ D.unsorted = {} /\ D.nzombies = Cardinality(Zombies(D))
      BY <1>1 DEF WorkOK, DenseSettled, AnyPendingWork, JumbledCovers, StructureOK,
                  CountsExact, Matrices
    <2>2. IsFiniteSet(Zombies(D))
      BY HeldType, CountNat
    <2> QED BY <2>1, <2>2, FS_EmptySet
  <1>4. \A p \in Pos : /\ D.entry[p] \in Val \cup {Absent}
                       /\ D.entry[p] # Absent => InRange(D, p)
    BY <1>1, <1>3 DEF Zombies, StructureOK, EntriesInRange, Held
  <1>5. q.region \subseteq Pos /\ \A p \in q.region : InRange(D, p)
    BY DEF Asked
  <1>6. ASSUME NEW p \in Pos
        PROVE  \/ p \in q.region /\ content[p] = Result(D, q, p)
               \/ content[p] = Absent
               \/ p \notin q.region /\ content[p] = D.entry[p]
    OBVIOUS
  <1>7. \A p \in q.region : Result(D, q, p) \in Val \cup {Absent}
    BY <1>1, <1>5, ResultType
  <1> HIDE DEF content
  <1>8. \A p \in Pos : /\ content[p] \in Val \cup {Absent}
                       /\ content[p] # Absent => InRange(D, p)
    BY <1>4, <1>5, <1>6, <1>7
  <1>9. content \in [Pos -> Val \cup {Absent, Zombie}]
    <2>1. content = [p \in Pos |-> content[p]]
      BY DEF content
    <2> QED BY <1>8, <2>1
  <1>10. X \in Matrices /\ X.entry = content
    BY <1>1, <1>9 DEF Matrices
  <1>11. n \in Nat
    BY HeldCounts
  <1>12. /\ B \in Matrices /\ B.valid /\ B.entry = content /\ B.nvals = n
         /\ B.fmt = "bitmap" /\ B.vlen = D.vlen /\ B.vdim = D.vdim /\ B.nne = D.nne
         /\ B.h = D.h /\ B.Y = D.Y /\ B.nzombies = 0 /\ B.pend = D.pend
         /\ ~B.jumbled /\ B.unsorted = {} /\ B.iso = D.iso
    BY <1>1, <1>3, <1>9, <1>11 DEF Matrices
  <1>13. n = Cardinality(Live(B))
    BY <1>10, <1>12 DEF Live
  <1> HIDE DEF n, X, B
  <1>14. /\ Live(B) = Held(B) /\ Zombies(B) = {} /\ EntriesInRange(B)
    BY <1>8, <1>12, ValAssumption DEF Live, Held, Zombies, EntriesInRange, InRange
  <1>15. StructureOK(B)
    <2>1. Cardinality(Zombies(B)) = 0
      BY <1>14, FS_EmptySet
    <2>2. NneExact(B) /\ HyperlistCovers(B) /\ HashMatches(B)
      BY <1>1, <1>12
      DEF StructureOK, NneExact, NvecNonempty, AllVectors, HyperlistCovers, HashMatches
    <2> QED BY <1>12, <1>13, <1>14, <2>1, <2>2 DEF StructureOK, CountsExact
  <1>16. ~HasPending(B)
    BY <1>1, <1>12 DEF HasPending
  <1>17. ASSUME B.iso # NotIso, NEW p \in Live(B)
         PROVE  B.entry[p] = B.iso
    <2>1. p \in Pos /\ content[p] \in Val /\ content[p] # Absent
      BY <1>12, <1>17, ValAssumption DEF Live
    <2>2. CASE Splat(q)
      <3>1. InRange(D, p) => p \in q.region
        BY <2>1, <2>2 DEF Splat, Whole, Asked, InRange
      <3>2. p \in q.region => Result(D, q, p) \in {D.iso, Absent}
        BY <1>1, <1>12, <1>17, <2>1, <2>2, SplatResult
      <3>3. content[p] = Result(D, q, p) /\ p \in q.region
        BY <1>6, <1>8, <2>1, <3>1
      <3> QED BY <1>12, <2>1, <3>2, <3>3
    <2>3. CASE IsoOK(D)
      <3>1. D.entry[p] \in Val => D.entry[p] = D.iso
        BY <1>12, <1>17, <2>1, <2>3 DEF IsoOK, Live
      <3>2. Result(D, q, p) \in {D.iso, Absent} \/ Result(D, q, p) = D.entry[p]
        BY <1>1, <1>12, <1>17, <2>1, ResultType
      <3> QED BY <1>6, <1>12, <2>1, <3>1, <3>2
    <2> QED BY <2>2, <2>3
  <1>18. IsoOK(B)
    BY <1>12, <1>16, <1>17, NoTuplesIso
  <1>19. WorkOK(B)
    BY <1>12, <1>16, NoTuplesWork
  <1> QED BY <1>2, <1>12, <1>15, <1>16, <1>18, <1>19 DEF Ready, Good

\* A sound matrix with nothing pending is kept.
LEMMA KeptReady ==
  ASSUME NEW A, Ready(A), ~HasPending(A), NEW r, r = [m |-> A, info |-> "SUCCESS"]
  PROVE  Kept(r)
  BY DEF Ready, Good, Kept, Outcomes, Orderly, PendingBounded

\* What GB_bitmap_assign can be called with.
ForBitmap(D, q) ==
  /\ Asked(D, q) /\ Loose(D)
  /\ IF Splat(q) THEN D.fmt = "bitmap" /\ (Scalar(q) => D.iso \in Val) ELSE IsoOK(D)

\* The conversion to bitmap makes a bitmap.
LEMMA ToBitmapFormat ==
  ASSUME NEW A \in Matrices, NEW y \in AnyToBitmap(A), y.info = "SUCCESS"
  PROVE  y.m.fmt = "bitmap"
  <1>1. CASE A.fmt = "bitmap"
    BY <1>1 DEF AnyToBitmap, Done
  <1>2. CASE A.fmt # "bitmap"
    <2>1. y \in FullToBitmap(A) \/ y \in SparseToBitmap(A)
      BY <1>2 DEF AnyToBitmap
    <2> DEFINE F == [A EXCEPT !.fmt = "bitmap", !.nvals = Dense(A)]
               S == [A EXCEPT !.fmt = "bitmap",
                       !.entry = [p \in Pos |-> IF @[p] = Zombie THEN Absent ELSE @[p]],
                       !.nvals = @ - A.nzombies, !.nzombies = 0,
                       !.nne = AllVectors(A), !.h = {}, !.Y = NoHash,
                       !.jumbled = FALSE, !.unsorted = {}]
    <2>2. F.fmt = "bitmap" /\ S.fmt = "bitmap"
      BY DEF Matrices
    <2>3. /\ FullToBitmap(A) = Done(F) \cup NoMemory(A)
          /\ SparseToBitmap(A) = Done(S) \cup NoMemory(A)
      BY DEF FullToBitmap, SparseToBitmap
    <2> HIDE DEF F, S
    <2>4. y.m = F \/ y.m = S
      BY <2>1, <2>3, DoneResult
    <2> QED BY <2>2, <2>4
  <1> QED BY <1>1, <1>2

\* GB_bitmap_assign keeps or frees C.
LEMMA KeptBitmapAssign ==
  ASSUME NEW D, NEW q, ForBitmap(D, q), NEW r \in BitmapAssign(D, q)
  PROVE  Kept(r)
  <1> DEFINE copied(B) == /\ Splat(q) /\ ~Scalar(q)
                          /\ q.A.fmt \in {"sparse", "hyper"} \cap SparsityControl(B)
             result(B) == IF Splat(q) /\ Scalar(q) THEN Splatted(B)
                          ELSE IF copied(B) THEN CopyMatrix(B, q) ELSE BitmapEntries(B, q)
             assign(B) == Done(result(B))
  <1>1. Asked(D, q) /\ Loose(D) /\ D \in Matrices
    BY DEF ForBitmap, Loose
  <1>2. PICK z \in Each(AnyToBitmap(D), assign) \cup NoMemory(D) : r = FreeOnError(z)
    BY DEF BitmapAssign
  <1>3. SUFFICES z \in Outcomes /\ (z.info = "SUCCESS" => Kept(z))
    BY <1>2, KeptOnError
  <1>4. CASE z \in NoMemory(D)
    BY <1>1, <1>4 DEF NoMemory, Outcomes
  <1>5. CASE z \in Each(AnyToBitmap(D), assign)
    <2>1. PICK y \in AnyToBitmap(D) : z \in Then(y, assign(y.m))
      BY <1>5 DEF Each
    <2>2. /\ y \in Outcomes
          /\ y.info = "SUCCESS" =>
               /\ Loose(y.m) /\ y.m.fmt = "bitmap" /\ y.m.vlen = D.vlen /\ y.m.vdim = D.vdim
               /\ IF Splat(q) THEN y.m = D ELSE IsoOK(y.m)
      <3>1. CASE D.fmt = "bitmap"
        <4>1. y = [m |-> D, info |-> "SUCCESS"]
          BY <2>1, <3>1 DEF AnyToBitmap, Done
        <4> QED BY <1>1, <3>1, <4>1 DEF ForBitmap, Outcomes
      <3>2. CASE D.fmt # "bitmap"
        <4>1. Ready(D) /\ ~HasPending(D) /\ ~Splat(q)
          BY <1>1, <3>2 DEF ForBitmap, Loose, Ready, Good
        <4>2. Safe(D, AnyToBitmap(D))
          BY <4>1, SafeAnyToBitmap
        <4>3. y.info = "SUCCESS" => y.m.fmt = "bitmap"
          BY <1>1, <2>1, ToBitmapFormat
        <4>4. /\ y \in Outcomes /\ Good(y.m) /\ Fits(D, y.m)
              /\ y.info = "SUCCESS" => y.m.valid
          BY <2>1, <4>2 DEF Safe
        <4> QED BY <4>1, <4>3, <4>4 DEF Fits, Good, Loose
      <3> QED BY <3>1, <3>2
    <2>3. CASE y.info # "SUCCESS"
      BY <2>1, <2>2, <2>3 DEF Then
    <2>4. CASE y.info = "SUCCESS"
      <3> DEFINE B == y.m
      <3>1. z = [m |-> result(B), info |-> "SUCCESS"]
        BY <2>1, <2>4 DEF Then, Done
      <3>2. Loose(B) /\ B.fmt = "bitmap" /\ Asked(B, q)
        BY <1>1, <2>2, <2>4, AskedSame
      <3>3. CASE Splat(q) /\ Scalar(q)
        <4>1. B.iso \in Val
          BY <2>2, <2>4, <3>3 DEF ForBitmap
        <4>2. B.nzombies = 0 /\ ~B.jumbled
          BY <3>2 DEF Loose, WorkOK, DenseSettled, AnyPendingWork, Matrices
        <4>3. Ready(Splatted(B)) /\ ~HasPending(Splatted(B))
          BY <3>2, <4>1, <4>2, ReadySplatted
        <4> QED BY <3>1, <3>3, <4>3, KeptReady DEF Kept
      <3>4. CASE copied(B)
        <4>1. Ready(CopyMatrix(B, q)) /\ ~HasPending(CopyMatrix(B, q))
          BY <3>2, <3>4, ReadyCopyMatrix DEF Splat
        <4> QED BY <3>1, <3>4, <4>1, KeptReady DEF Kept
      <3>5. CASE ~(Splat(q) /\ Scalar(q)) /\ ~copied(B)
        <4>1. IsoOK(B) \/ Splat(q)
          BY <2>2, <2>4
        <4>2. Ready(BitmapEntries(B, q)) /\ ~HasPending(BitmapEntries(B, q))
          BY <3>2, <4>1, ReadyBitmapEntries
        <4>3. result(B) = BitmapEntries(B, q)
          BY <3>5
        <4> QED BY <3>1, <4>2, <4>3, KeptReady DEF Kept
      <3> QED BY <3>3, <3>4, <3>5
    <2> QED BY <2>3, <2>4
  <1> QED BY <1>2, <1>4, <1>5

-----------------------------------------------------------------------------
(* GB_subassigner *)

\* GB_block makes what is tidy orderly.
LEMMA KeptBlock ==
  ASSUME NEW y, Tidy(y), NEW r \in Then(y, Block(y.m))
  PROVE  Kept(r)
  <1>1. CASE y.info # "SUCCESS"
    BY <1>1 DEF Then, Tidy, Kept
  <1>2. CASE y.info = "SUCCESS"
    <2>1. Ready(y.m) /\ (y.m.jumbled => ~HasPending(y.m)) /\ r \in Block(y.m)
      BY <1>2 DEF Then, Tidy, Ready
    <2>2. Keeps(Block(y.m)) /\ Safe(y.m, Block(y.m))
      BY <2>1, KeepsBlock, SafeBlock
    <2> QED BY <2>1, <2>2 DEF Keeps, Safe, Kept
  <1> QED BY <1>1, <1>2

\* As for what is kept.
LEMMA TidyOnError ==
  ASSUME NEW z \in Outcomes, z.info = "SUCCESS" => Tidy(z)
  PROVE  Tidy(FreeOnError(z))
  <1>1. CASE z.info = "SUCCESS"
    BY <1>1 DEF FreeOnError
  <1>2. CASE z.info # "SUCCESS"
    BY <1>2, KeptOnError, KeptTidy
  <1> QED BY <1>1, <1>2

\* The methods.
Methods == {"21", "24", "05e", "25", "26", "update"}

\* What a method can be called with, once C has its new iso value.
Fed(D, q, m) ==
  /\ Asked(D, q)
  /\ D \in Matrices /\ D.valid /\ StructureOK(D) /\ WorkOK(D) /\ Orderly(D)
  /\ m \in Methods
  /\ m \notin {"21", "24"} => IsoOK(D) /\ ~Splat(q)
  /\ m # "update" => ~HasPending(D)
  /\ m = "21" => Splat(q) /\ Scalar(q) /\ D.iso \in Val /\ D.nzombies = 0 /\ ~D.jumbled
  /\ m = "24" => Splat(q) /\ ~Scalar(q)
  /\ m = "05e" => Whole(q) /\ q.M # NoMatrix
  /\ m = "25" => Whole(q) /\ q.M # NoMatrix /\ ~Scalar(q)
  /\ m = "26" => Appends(D, q) /\ D.Y = NoHash

\* A matrix without zombies is sorted, and otherwise as it was.
LEMMA FedUnjumbled ==
  ASSUME NEW D, NEW q, NEW m, Fed(D, q, m), D.nzombies = 0, NEW r \in Unjumbled(D)
  PROVE  /\ r \in Outcomes
         /\ r.info = "SUCCESS" => Fed(r.m, q, m) /\ r.m.fmt = D.fmt
  <1>1. D \in Matrices /\ D.valid /\ StructureOK(D) /\ WorkOK(D) /\ Orderly(D) /\ Asked(D, q)
    BY DEF Fed
  <1>2. CASE ~D.jumbled
    <2>1. r = [m |-> D, info |-> "SUCCESS"]
      BY <1>2 DEF Unjumbled, Done
    <2> QED BY <1>1, <2>1 DEF Outcomes
  <1>3. CASE D.jumbled
    <2> DEFINE B == UpdateNne(D)
               E == [B EXCEPT !.jumbled = FALSE, !.unsorted = {}]
    <2>1. r \in Done(E) \cup NoMemory(B)
      BY <1>3 DEF Unjumbled, Unjumble
    <2>2. NvecNonempty(D) \in Nat
      BY <1>1, HeldCounts, DenseNat DEF NvecNonempty
    <2>3. B = [D EXCEPT !.nne = B.nne] /\ B.nne \in {D.nne, NvecNonempty(D)} /\ B \in Matrices
      BY <1>1, <2>2 DEF UpdateNne, Matrices
    <2> HIDE DEF B
    <2>4. /\ E \in Matrices /\ E.fmt = D.fmt /\ E.vlen = D.vlen /\ E.vdim = D.vdim
          /\ E.entry = D.entry /\ E.iso = D.iso /\ E.nvals = D.nvals
          /\ E.nzombies = D.nzombies /\ E.nne \in {D.nne, NvecNonempty(D)} /\ E.h = D.h
          /\ E.Y = D.Y /\ ~E.jumbled /\ E.unsorted = {} /\ E.pend = D.pend /\ E.valid
          /\ E.control = D.control
      BY <1>1, <2>3 DEF Matrices
    <2> HIDE DEF E
    <2>5. /\ Held(E) = Held(D) /\ Live(E) = Live(D) /\ Zombies(E) = Zombies(D)
          /\ (HasPending(E) <=> HasPending(D)) /\ Dense(E) = Dense(D) /\ ~HasPending(D)
      BY <1>1, <1>3, <2>4, SameSets DEF HasPending, Dense, Orderly
    <2>6. E.nzombies = Cardinality(Zombies(E)) /\ (E.fmt = "full" => Zombies(E) = {})
      <3>1. D.nzombies = Cardinality(Zombies(D)) /\ IsFiniteSet(Zombies(D))
        BY <1>1, HeldType, CountNat DEF StructureOK, CountsExact
      <3> QED BY <2>4, <2>5, <3>1, FS_EmptySet
    <2>7. StructureOK(E)
      BY <1>1, <2>4, <2>5, <2>6, SamePattern
    <2>8. WorkOK(E)
      BY <2>4, <2>5, NoTuplesWork
    <2>9. IsoOK(D) => IsoOK(E)
      BY <2>4, <2>5 DEF IsoOK, HasPending
    <2>10. Asked(E, q) /\ (Appends(D, q) => Appends(E, q))
      BY <1>1, <2>4, AskedSame DEF Appends
    <2>11. Orderly(E)
      BY <2>4, <2>5 DEF Orderly, PendingBounded
    <2>12. Fed(E, q, m)
      BY <2>4, <2>5, <2>7, <2>8, <2>9, <2>10, <2>11 DEF Fed
    <2> QED BY <2>1, <2>3, <2>4, <2>12 DEF Done, NoMemory, Outcomes
  <1> QED BY <1>1, <1>2, <1>3 DEF Matrices

\* What is left of C if a method is not done by GB_bitmap_assign.
LEMMA TidyMethod ==
  ASSUME NEW D, NEW q, NEW m, Fed(D, q, m), ~ByBitmap(D, q, m), NEW D0 \in Matrices,
         NEW z,
         \/ m = "21" /\ z \in Done(Splatted(D))
         \/ m = "24" /\ z \in Done(CopyMatrix(D, q)) \cup NoMemory(D0)
         \/ m = "05e" /\ z \in Done(CopyPattern(D, q)) \cup NoMemory(D0)
         \/ m = "25" /\ z \in Done(CopyMasked(D, q)) \cup NoMemory(D0)
         \/ m = "26" /\ z \in Done(Append26(D, q)) \cup NoMemory(D0)
         \/ m = "update" /\ z \in Update(D, q)
  PROVE  z \in Outcomes /\ (z.info = "SUCCESS" => Tidy(z))
  <1>1. Asked(D, q) /\ D \in Matrices /\ D.valid
    BY DEF Fed
  <1>2. m # "update" => Loose(D)
    BY DEF Fed, Loose
  <1>3. m \notin {"21", "24"} => Usable(D)
    BY DEF Fed, Usable, Ready, Good
  <1>4. ASSUME NEW B, Ready(B), ~HasPending(B), z \in Done(B) \cup NoMemory(D0)
        PROVE  z \in Outcomes /\ (z.info = "SUCCESS" => Tidy(z))
    <2>1. CASE z \in NoMemory(D0)
      BY <2>1 DEF NoMemory, Outcomes
    <2>2. CASE z \in Done(B)
      <3>1. z = [m |-> B, info |-> "SUCCESS"]
        BY <2>2 DEF Done
      <3>2. Kept(z)
        BY <1>4, <3>1, KeptReady
      <3> QED BY <3>2, KeptTidy DEF Kept
    <2> QED BY <1>4, <2>1, <2>2
  <1>5. CASE m = "21"
    <2>1. Ready(Splatted(D)) /\ ~HasPending(Splatted(D))
      BY <1>2, <1>5, ReadySplatted DEF Fed
    <2> QED BY <1>4, <1>5, <2>1
  <1>6. CASE m = "24"
    <2>1. Ready(CopyMatrix(D, q)) /\ ~HasPending(CopyMatrix(D, q))
      BY <1>1, <1>2, <1>6, ReadyCopyMatrix DEF Fed, Splat
    <2> QED BY <1>4, <1>6, <2>1
  <1>7. CASE m = "05e"
    <2>1. Ready(CopyPattern(D, q)) /\ ~HasPending(CopyPattern(D, q))
      BY <1>1, <1>7, ReadyCopyPattern DEF Fed
    <2> QED BY <1>4, <1>7, <2>1
  <1>8. CASE m = "25"
    <2>1. q.M.fmt \notin {"bitmap", "full"}
      BY <1>8 DEF ByBitmap
    <2>2. Ready(CopyMasked(D, q)) /\ ~HasPending(CopyMasked(D, q))
      BY <1>1, <1>8, <2>1, ReadyCopyMasked DEF Fed
    <2> QED BY <1>4, <1>8, <2>2
  <1>9. CASE m = "26"
    <2>1. Ready(Append26(D, q)) /\ ~HasPending(Append26(D, q))
      BY <1>1, <1>3, <1>9, ReadyAppend26 DEF Fed, Usable
    <2> QED BY <1>4, <1>9, <2>1
  <1>10. CASE m = "update"
    <2>1. /\ D.fmt # "bitmap"
          /\ D.fmt = "full" => ~q.replace /\ (q.accum # NoOp \/ Scalar(q))
      BY <1>10 DEF ByBitmap
    <2>2. Tidy(z)
      BY <1>1, <1>3, <1>10, <2>1, TidyUpdate
    <2> QED BY <2>2 DEF Tidy
  <1> QED BY <1>5, <1>6, <1>7, <1>8, <1>9, <1>10

\* The bitmap methods are called with what they need.
LEMMA FedForBitmap ==
  ASSUME NEW D, NEW q, NEW m, Fed(D, q, m),
         ByBitmap(D, q, m) \/ (D.fmt \in {"bitmap", "full"} /\ ~Whole(q) /\ q.M # NoMatrix)
  PROVE  ForBitmap(D, q)
  <1>1. /\ Asked(D, q) /\ D \in Matrices /\ D.valid /\ StructureOK(D) /\ WorkOK(D)
        /\ m \in Methods
    BY DEF Fed
  <1>2. ~HasPending(D)
    <2>1. D.fmt \in {"bitmap", "full"} => ~HasPending(D)
      BY <1>1 DEF WorkOK, DenseSettled, AnyPendingWork
    <2>2. m = "update" => D.fmt \in {"bitmap", "full"}
      BY DEF ByBitmap
    <2> QED BY <2>1, <2>2 DEF Fed
  <1>3. CASE Splat(q)
    <2>1. m \in {"21", "24"}
      BY <1>3 DEF Fed
    <2>2. D.fmt = "bitmap"
      BY <1>3, <2>1 DEF ByBitmap, Splat
    <2>3. Scalar(q) => D.iso \in Val
      BY <2>1 DEF Fed
    <2> QED BY <1>1, <1>2, <1>3, <2>2, <2>3 DEF ForBitmap, Loose
  <1>4. CASE ~Splat(q)
    <2>1. IsoOK(D)
      BY <1>4 DEF Fed
    <2> QED BY <1>1, <1>2, <1>4, <2>1 DEF ForBitmap, Loose
  <1> QED BY <1>3, <1>4

\* GB_subassigner keeps or frees C.
LEMMA KeptSubassigner ==
  ASSUME NEW D, NEW q, NEW m, Fed(D, q, m), NEW r \in Subassigner(D, q, m)
  PROVE  Kept(r)
  <1> DEFINE settled == IsDense(D) /\ ~HasPending(D) /\ D.nzombies = 0 /\ D.fmt # "bitmap"
             apply(B) ==
               CASE ByBitmap(D, q, m) -> BitmapAssign(B, q)
                 [] ~ByBitmap(D, q, m) /\ m = "21"  -> Done(Splatted(B))
                 [] ~ByBitmap(D, q, m) /\ m = "24"  -> Done(CopyMatrix(B, q)) \cup NoMemory(D)
                 [] ~ByBitmap(D, q, m) /\ m = "05e" -> Done(CopyPattern(B, q)) \cup NoMemory(D)
                 [] ~ByBitmap(D, q, m) /\ m = "25"  -> Done(CopyMasked(B, q)) \cup NoMemory(D)
                 [] ~ByBitmap(D, q, m) /\ m = "26"  -> Done(Append26(B, q)) \cup NoMemory(D)
                 [] ~ByBitmap(D, q, m) /\ m = "update" -> Update(B, q)
             start == IF settled THEN Unjumbled(D) ELSE Done(D)
             applied == Each(start, apply)
  <1>1. PICK y \in {FreeOnError(z) : z \in applied} : r \in Then(y, Block(y.m))
    BY DEF Subassigner, Each
  <1>2. PICK z \in applied : y = FreeOnError(z)
    BY <1>1
  <1>3. PICK x \in start : z \in Then(x, apply(x.m))
    BY <1>2 DEF Each
  <1>4. D \in Matrices /\ m \in Methods
    BY DEF Fed
  <1>5. x \in Outcomes /\ (x.info = "SUCCESS" => Fed(x.m, q, m) /\ x.m.fmt = D.fmt)
    <2>1. CASE settled
      BY <1>3, <2>1, FedUnjumbled
    <2>2. CASE ~settled
      <3>1. x = [m |-> D, info |-> "SUCCESS"]
        BY <1>3, <2>2 DEF Done
      <3> QED BY <1>4, <3>1 DEF Outcomes
    <2> QED BY <2>1, <2>2
  <1>6. z \in Outcomes /\ (z.info = "SUCCESS" => Tidy(z))
    <2>1. CASE x.info # "SUCCESS"
      BY <1>3, <1>5, <2>1 DEF Then
    <2>2. CASE x.info = "SUCCESS"
      <3>1. z \in apply(x.m) /\ Fed(x.m, q, m)
        BY <1>3, <1>5, <2>2 DEF Then
      <3>2. ByBitmap(x.m, q, m) = ByBitmap(D, q, m)
        BY <1>5, <2>2 DEF ByBitmap
      <3>3. CASE ByBitmap(D, q, m)
        <4>1. z \in BitmapAssign(x.m, q)
          BY <3>1, <3>3
        <4>2. Kept(z)
          BY <3>1, <3>2, <3>3, <4>1, FedForBitmap, KeptBitmapAssign
        <4> QED BY <4>2, KeptTidy DEF Kept
      <3>4. CASE ~ByBitmap(D, q, m)
        <4>1. \/ m = "21" /\ z \in Done(Splatted(x.m))
              \/ m = "24" /\ z \in Done(CopyMatrix(x.m, q)) \cup NoMemory(D)
              \/ m = "05e" /\ z \in Done(CopyPattern(x.m, q)) \cup NoMemory(D)
              \/ m = "25" /\ z \in Done(CopyMasked(x.m, q)) \cup NoMemory(D)
              \/ m = "26" /\ z \in Done(Append26(x.m, q)) \cup NoMemory(D)
              \/ m = "update" /\ z \in Update(x.m, q)
          BY <1>4, <3>1, <3>4 DEF Methods
        <4> HIDE DEF apply
        <4> QED BY <1>4, <3>1, <3>2, <3>4, <4>1, TidyMethod
      <3> QED BY <3>3, <3>4
    <2> QED BY <2>1, <2>2
  <1>7. Tidy(y)
    BY <1>2, <1>6, TidyOnError
  <1> QED BY <1>1, <1>7, KeptBlock

\* GB_assign and GB_subassign: the second phase deletes the rest of C.
LEMMA KeptAssignBody ==
  ASSUME NEW D, NEW q, NEW m, Fed(D, q, m), NEW r \in AssignBody(D, q, m)
  PROVE  Kept(r)
  <1> DEFINE outside == q.kind = "assign" /\ q.M # NoMatrix /\ q.replace /\ ~Whole(q)
             bitmap  == /\ q.kind = "assign"
                        /\ ByBitmap(D, q, m) \/ (outside /\ D.fmt \in {"bitmap", "full"})
             inside  == IF bitmap THEN BitmapAssign(D, q) ELSE Subassigner(D, q, m)
  <1>1. AssignBody(D, q, m)
          = IF outside /\ ~bitmap THEN Each(inside, LAMBDA B : ReplaceOutside(B, q)) ELSE inside
    BY DEF AssignBody
  <1>2. ASSUME NEW z \in inside
        PROVE  Kept(z)
    <2>1. CASE bitmap
      <3>1. ForBitmap(D, q)
        BY <2>1, FedForBitmap
      <3> QED BY <1>2, <2>1, <3>1, KeptBitmapAssign
    <2>2. CASE ~bitmap
      BY <1>2, <2>2, KeptSubassigner
    <2> QED BY <2>1, <2>2
  <1> HIDE DEF outside, bitmap, inside
  <1>3. CASE r \in inside
    BY <1>2, <1>3
  <1>4. CASE r \in Each(inside, LAMBDA B : ReplaceOutside(B, q))
    <2>1. PICK z \in inside : r \in Then(z, ReplaceOutside(z.m, q))
      BY <1>4 DEF Each
    <2>2. Kept(z)
      BY <1>2
    <2>3. CASE z.info # "SUCCESS"
      BY <2>1, <2>2, <2>3 DEF Then
    <2>4. CASE z.info = "SUCCESS"
      BY <2>1, <2>2, <2>4, KeptUsable, KeptReplaceOutside DEF Then
    <2> QED BY <2>3, <2>4
  <1> QED BY <1>1, <1>3, <1>4

-----------------------------------------------------------------------------
(* The iso value that C is given *)

\* The value that is assigned, where there is one, is a value of its type.
LEMMA IsoAfterType ==
  ASSUME NEW D, NEW q, Asked(D, q)
  PROVE  IsoAfter(D, q) \in Val \cup {NotIso}
  <1>1. q.type \in Types /\ q.s \in Val
    BY DEF Asked
  <1>2. ASSUME IsoGiven(q)
        PROVE  ValueGiven(q) \in Val
    <2>1. CASE Scalar(q)
      BY <1>1, <2>1 DEF ValueGiven
    <2>2. CASE ~Scalar(q) /\ q.A.iso # NotIso
      <3>1. q.A.iso \in Val
        BY <2>2, AskedOperand DEF Scalar, Matrices
      <3> QED BY <2>2, <3>1 DEF ValueGiven
    <2>3. CASE ~Scalar(q) /\ q.A.iso = NotIso
      <3>1. Cardinality(Held(q.A)) = 1
        BY <1>2, <2>3, AskedOperand DEF Scalar, IsoGiven
      <3>2. Held(q.A) # {}
        BY <3>1, FS_EmptySet
      <3>3. \A p \in Held(q.A) : p \in Live(q.A)
        BY <2>3, AskedOperand DEF Scalar, Held, Live
      <3>4. (CHOOSE p \in Live(q.A) : TRUE) \in Live(q.A)
        BY <3>2, <3>3
      <3> QED BY <2>3, <3>4 DEF ValueGiven, Live
    <2> QED BY <2>1, <2>2, <2>3
  <1>3. IsoGiven(q) => Cast(q.type, ValueGiven(q)) \in Val
    BY <1>1, <1>2, OpAssumption
  <1> QED BY <1>3 DEF IsoAfter

\* If C keeps entries, its new iso value is the old one.
LEMMA IsoAfterKept ==
  ASSUME NEW D, NEW q, IsoAfter(D, q) # NotIso
  PROVE  /\ Method(D, q) # "26"
         /\ Method(D, q) = "update" => EmptyMatrix(D) \/ D.iso = IsoAfter(D, q)
  BY DEF IsoAfter

\* Which method it is.
LEMMA MethodCases ==
  ASSUME NEW D, NEW q, NEW m, m = Method(D, q)
  PROVE  /\ m \in Methods
         /\ Splat(q) <=> m \in {"21", "24"}
         /\ Splat(q) /\ Scalar(q) <=> m = "21"
         /\ m = "05e" => CopiesMask(D, q)
         /\ m = "25" => CopiesMask(D, q) /\ ~Scalar(q)
         /\ m = "26" => Appends(D, q)
  <1>1. Splat(q) => NoMask(q) /\ Whole(q)
    BY DEF Splat
  <1>2. CopiesMask(D, q) => ~NoMask(q)
    BY DEF CopiesMask, NoMask
  <1>3. Appends(D, q) => NoMask(q) /\ ~Whole(q)
    BY DEF Appends
  <1> QED BY <1>1, <1>2, <1>3 DEF Method, Methods

\* A scalar assigned to all of C makes it iso.
LEMMA IsoAfterSplat ==
  ASSUME NEW D, NEW q, Asked(D, q), Splat(q), Scalar(q)
  PROVE  IsoAfter(D, q) \in Val
  <1>1. Method(D, q) = "21" /\ IsoGiven(q)
    BY MethodCases DEF IsoGiven
  <1>2. IsoAfter(D, q) = Cast(q.type, ValueGiven(q))
    BY <1>1 DEF IsoAfter
  <1>3. ValueGiven(q) = q.s
    BY DEF ValueGiven
  <1> QED BY <1>2, <1>3, OpAssumption DEF Asked

\* An empty matrix holds nothing.
LEMMA EmptyHolds ==
  ASSUME NEW A, Ready(A), EmptyMatrix(A)
  PROVE  Held(A) = {} /\ Live(A) = {} /\ ~HasPending(A)
  <1>1. Cardinality(Held(A)) = 0
    <2>1. CASE A.fmt = "full"
      BY <2>1, FullHolds DEF EmptyMatrix, Nnz
    <2>2. CASE A.fmt # "full"
      BY <2>2 DEF EmptyMatrix, Nnz, Ready, Good, StructureOK, CountsExact
    <2> QED BY <2>1, <2>2
  <1>2. IsFiniteSet(Held(A))
    BY HeldType, CountNat
  <1>3. Held(A) = {}
    BY <1>1, <1>2, FS_EmptySet
  <1> QED BY <1>3, ValAssumption DEF Held, Live, EmptyMatrix

\* All but the iso value and the list of tuples.
SameShape(A, B) ==
  /\ B \in Matrices /\ B.valid /\ B.vlen = A.vlen /\ B.vdim = A.vdim
  /\ B.fmt = A.fmt /\ B.entry = A.entry /\ B.nvals = A.nvals /\ B.nzombies = A.nzombies
  /\ B.nne = A.nne /\ B.h = A.h /\ B.Y = A.Y
  /\ (B.jumbled <=> A.jumbled) /\ B.unsorted = A.unsorted
  /\ (HasPending(B) => HasPending(A))

\* The structure of a matrix does not depend on them.
LEMMA ShapeOK ==
  ASSUME NEW A \in Matrices, StructureOK(A), WorkOK(A), NEW B, SameShape(A, B)
  PROVE  StructureOK(B) /\ (~HasPending(A) => WorkOK(B))
  <1>1. /\ Held(B) = Held(A) /\ Live(B) = Live(A) /\ Zombies(B) = Zombies(A)
        /\ B \in Matrices
    BY SameSets DEF SameShape
  <1>2. B.nzombies = Cardinality(Zombies(B)) /\ (B.fmt = "full" => Zombies(B) = {})
    <2>1. A.nzombies = Cardinality(Zombies(A)) /\ IsFiniteSet(Zombies(A))
      BY HeldType, CountNat DEF StructureOK, CountsExact
    <2>2. A.fmt = "full" => A.nzombies = 0
      BY DEF WorkOK, DenseSettled, AnyPendingWork, Matrices
    <2> QED BY <1>1, <2>1, <2>2, FS_EmptySet DEF SameShape
  <1>3. StructureOK(B)
    BY <1>1, <1>2, SamePattern DEF SameShape
  <1>4. ~HasPending(A) => WorkOK(B)
    <2>1. B.fmt \in {"bitmap", "full"} => B.nzombies = 0 /\ ~B.jumbled
      BY DEF SameShape, WorkOK, DenseSettled, AnyPendingWork, Matrices
    <2>2. B.unsorted # {} => B.jumbled
      BY DEF SameShape, WorkOK, JumbledCovers
    <2> QED BY <1>1, <2>1, <2>2, NoTuplesWork DEF SameShape
  <1> QED BY <1>3, <1>4

\* Only the iso value and the values of the tuples change.
LEMMA NonIsoShape ==
  ASSUME NEW A, Ready(A), NEW r \in AnyToNonIso(A), r.info = "SUCCESS"
  PROVE  SameShape(A, r.m) /\ Ready(r.m) /\ r.m.iso = NotIso
         /\ (Orderly(A) => Orderly(r.m))
  <1>1. Safe(A, AnyToNonIso(A))
    BY SafeAnyToNonIso
  <1>2. r.m \in Matrices /\ Good(r.m) /\ Fits(A, r.m) /\ r.m.valid
    BY <1>1 DEF Safe, Good
  <1> DEFINE typed == [A.pend EXCEPT !.type = CType]
             withX == [typed EXCEPT !.tup =
                         [k \in DOMAIN @ |-> [@[k] EXCEPT !.s = A.iso]]]
             X == [A EXCEPT !.iso = NotIso]
             Y == [A EXCEPT !.iso = NotIso, !.pend = withX]
             F == PhybixFree(A)
             G == [A EXCEPT !.pend = typed]
  <1>3. A \in Matrices
    BY DEF Ready, Good
  <1>4. /\ A.iso = NotIso => AnyToNonIso(A) = Done(A)
        /\ A.iso # NotIso /\ ~HasPending(A) => AnyToNonIso(A) = Done(X) \cup NoMemory(F)
        /\ A.iso # NotIso /\ HasPending(A) =>
             AnyToNonIso(A) = (Done(Y) \cup NoMemory(F)) \cup NoMemory(G)
    BY DEF AnyToNonIso
  <1> HIDE DEF typed, withX
  <1>5. /\ X.fmt = A.fmt /\ X.entry = A.entry /\ X.nvals = A.nvals /\ X.nzombies = A.nzombies
        /\ X.nne = A.nne /\ X.h = A.h /\ X.Y = A.Y /\ X.jumbled = A.jumbled
        /\ X.unsorted = A.unsorted /\ X.iso = NotIso
    BY <1>3 DEF Matrices
  <1>6. /\ Y.fmt = A.fmt /\ Y.entry = A.entry /\ Y.nvals = A.nvals /\ Y.nzombies = A.nzombies
        /\ Y.nne = A.nne /\ Y.h = A.h /\ Y.Y = A.Y /\ Y.jumbled = A.jumbled
        /\ Y.unsorted = A.unsorted /\ Y.iso = NotIso
    BY <1>3 DEF Matrices
  <1> HIDE DEF X, Y, F, G
  <1>7. r.m = X \/ r.m = Y \/ (r.m = A /\ A.iso = NotIso)
    BY <1>4, DoneResult DEF Done, NoMemory
  <1>8. SameShape(A, r.m) /\ r.m.iso = NotIso
    BY <1>2, <1>5, <1>6, <1>7 DEF SameShape, Fits
  <1>9. Orderly(A) => Orderly(r.m)
    BY <1>2, FitsOrderly
  <1> QED BY <1>2, <1>8, <1>9 DEF Ready

\* A matrix of the shape of C can be given to the method.
LEMMA FedShape ==
  ASSUME NEW D, Usable(D), NEW q, Asked(D, q), NEW m, m = Method(D, q),
         m # "update" => ~HasPending(D),
         Splat(q) /\ Scalar(q) => D.nzombies = 0 /\ ~D.jumbled,
         Appends(D, q) => D.Y = NoHash,
         NEW E, SameShape(D, E), WorkOK(E), Orderly(E), Splat(q) \/ IsoOK(E),
         m = "21" => E.iso \in Val, m = "26" => E.iso = NotIso
  PROVE  Fed(E, q, m)
  <1>1. D \in Matrices /\ StructureOK(D) /\ WorkOK(D)
    BY DEF Usable, Ready, Good
  <1>2. StructureOK(E) /\ Asked(E, q) /\ E \in Matrices /\ E.valid
    BY <1>1, ShapeOK, AskedSame DEF SameShape
  <1>3. m = "26" => Appends(E, q) /\ E.Y = NoHash
    <2>1. m = "26" => Appends(D, q) /\ D.Y = NoHash
      BY MethodCases
    <2>2. Appends(D, q) /\ E.iso = NotIso => Appends(E, q)
      BY DEF SameShape, Appends
    <2> QED BY <2>1, <2>2 DEF SameShape
  <1>4. m = "21" => E.nzombies = 0 /\ ~E.jumbled /\ Splat(q) /\ Scalar(q)
    BY MethodCases DEF SameShape
  <1>5. m = "24" => Splat(q) /\ ~Scalar(q)
    BY MethodCases
  <1>6. m = "05e" => Whole(q) /\ q.M # NoMatrix
    BY MethodCases DEF CopiesMask
  <1>7. m = "25" => Whole(q) /\ q.M # NoMatrix /\ ~Scalar(q)
    BY MethodCases DEF CopiesMask
  <1>8. m \in Methods /\ (m \notin {"21", "24"} => ~Splat(q) /\ IsoOK(E))
    BY MethodCases
  <1>9. m # "update" => ~HasPending(E)
    BY DEF SameShape
  <1> QED BY <1>2, <1>3, <1>4, <1>5, <1>6, <1>7, <1>8, <1>9 DEF Fed

\* The operator of the tuples that will be added.
LEMMA UsableRepended ==
  ASSUME NEW D, Usable(D), NEW op \in Ops, D.iso # NotIso /\ HasPending(D) => op = NoOp
  PROVE  LET B == [D EXCEPT !.pend.op = op]
         IN  /\ Usable(B) /\ SameShape(D, B) /\ B.iso = D.iso /\ B.pend.op = op
             /\ B.pend.tup = D.pend.tup
  <1> DEFINE list == [D.pend EXCEPT !.op = op]
             B == [D EXCEPT !.pend = list]
  <1>1. /\ D \in Matrices /\ D.valid /\ StructureOK(D) /\ WorkOK(D) /\ IsoOK(D) /\ Orderly(D)
        /\ D.pend \in PendingLists
    BY DEF Usable, Ready, Good, Matrices
  <1>2. [D EXCEPT !.pend.op = op] = B
    BY <1>1 DEF Matrices
  <1>3. /\ list \in PendingLists /\ list.op = op /\ list.tup = D.pend.tup
        /\ list.sorted = D.pend.sorted
    BY <1>1 DEF PendingLists
  <1> HIDE DEF list
  <1>4. B \in Matrices
    BY <1>1, <1>3 DEF Matrices
  <1>5. /\ B.fmt = D.fmt /\ B.entry = D.entry /\ B.nvals = D.nvals /\ B.iso = D.iso
        /\ B.nzombies = D.nzombies /\ B.nne = D.nne /\ B.h = D.h /\ B.Y = D.Y
        /\ B.jumbled = D.jumbled /\ B.unsorted = D.unsorted /\ B.valid = D.valid
        /\ B.vlen = D.vlen /\ B.vdim = D.vdim /\ B.pend = list
    BY <1>1 DEF Matrices
  <1> HIDE DEF B
  <1>6. /\ HasPending(B) <=> HasPending(D)
        /\ B.pend.tup = D.pend.tup /\ B.pend.op = op /\ B.pend.sorted = D.pend.sorted
    BY <1>3, <1>5 DEF HasPending
  <1>7. SameShape(D, B)
    BY <1>1, <1>4, <1>5, <1>6 DEF SameShape
  <1>8. StructureOK(B)
    BY <1>1, <1>7, ShapeOK
  <1>9. PendingPos(B) = PendingPos(D)
    BY <1>6 DEF PendingPos
  <1>10. WorkOK(B)
    <2>1. PendingDisjoint(B)
      BY <1>1, <1>5, <1>9 DEF WorkOK, PendingDisjoint, InRange
    <2>2. JumbledCovers(B) /\ DenseSettled(B)
      BY <1>1, <1>5, <1>6 DEF WorkOK, JumbledCovers, DenseSettled, AnyPendingWork
    <2>3. PendingSorted(B)
      BY <1>1, <1>6 DEF WorkOK, PendingSorted
    <2> QED BY <2>1, <2>2, <2>3 DEF WorkOK
  <1>11. IsoOK(B)
    BY <1>1, <1>5, <1>6, SameSets DEF IsoOK
  <1>12. Orderly(B)
    BY <1>1, <1>5, <1>6 DEF Orderly, PendingBounded, Dense
  <1> QED BY <1>1, <1>2, <1>4, <1>5, <1>6, <1>7, <1>8, <1>10, <1>11, <1>12 DEF Usable, Ready, Good

\* The iso value of C is set before the method, which was chosen before that.
LEMMA FedWithIso ==
  ASSUME NEW D, Usable(D), NEW q, Asked(D, q), ~MustWait(D, q),
         Splat(q) => ~HasPending(D),
         Splat(q) /\ Scalar(q) => D.nzombies = 0 /\ ~D.jumbled,
         Appends(D, q) => D.Y = NoHash,
         NEW r \in WithIso(D, q)
  PROVE  IF r.info = "SUCCESS" THEN Fed(r.m, q, Method(D, q)) ELSE Kept(r)
  <1> DEFINE iso == IsoAfter(D, q)
             op  == IF HasPending(D) /\ iso = NotIso THEN q.accum ELSE NoOp
             B   == [D EXCEPT !.pend.op = op]
             m   == Method(D, q)
             E   == [B EXCEPT !.iso = iso]
  <1>1. /\ D \in Matrices /\ Ready(D) /\ q.accum \in Ops /\ iso \in Val \cup {NotIso}
        /\ D.iso \in Val \cup {NotIso} /\ op \in Ops
    BY IsoAfterType, OpAssumption DEF Usable, Ready, Good, Asked, Matrices
  <1>2. /\ iso = NotIso => WithIso(D, q) = AnyToNonIso(B)
        /\ iso # NotIso /\ D.iso = NotIso => WithIso(D, q) = AnyToIso(B, iso)
        /\ iso # NotIso /\ D.iso # NotIso => WithIso(D, q) = Done(E)
    BY DEF WithIso
  <1>3. /\ iso # NotIso => m # "26" /\ (m = "update" => EmptyMatrix(D) \/ D.iso = iso)
        /\ m = "21" => iso \in Val
    BY IsoAfterKept, IsoAfterSplat, MethodCases
  <1>4. HasPending(D) => (D.iso # NotIso <=> iso # NotIso)
    BY DEF MustWait
  <1>5. m # "update" => ~HasPending(D)
    <2>1. Appends(D, q) => ~HasPending(D)
      BY DEF MustWait, Appends
    <2>2. CopiesMask(D, q) => ~HasPending(D)
      BY DEF CopiesMask, EmptyMatrix
    <2>3. m \in Methods /\ (m \in {"21", "24"} => Splat(q)) /\ (m = "26" => Appends(D, q))
          /\ (m \in {"05e", "25"} => CopiesMask(D, q))
      BY MethodCases
    <2> QED BY <2>1, <2>2, <2>3 DEF Methods
  <1>6. D.iso # NotIso /\ HasPending(D) => op = NoOp
    BY <1>4
  <1> HIDE DEF op
  <1>7. /\ Usable(B) /\ SameShape(D, B) /\ B.iso = D.iso /\ B.pend.op = op
        /\ B.pend.tup = D.pend.tup
    BY <1>1, <1>6, UsableRepended
  <1> HIDE DEF B, iso, m
  <1>8. Ready(B) /\ Orderly(B) /\ B \in Matrices /\ WorkOK(B) /\ IsoOK(B)
    BY <1>7 DEF Usable, Ready, Good
  <1>9. CASE iso = NotIso
    <2>1. r \in AnyToNonIso(B) /\ Safe(B, AnyToNonIso(B))
      BY <1>2, <1>8, <1>9, SafeAnyToNonIso
    <2>2. CASE r.info # "SUCCESS"
      BY <1>8, <2>1, <2>2, KeptSafe
    <2>3. CASE r.info = "SUCCESS"
      <3>1. SameShape(B, r.m) /\ Ready(r.m) /\ r.m.iso = NotIso /\ Orderly(r.m)
        BY <1>8, <2>1, <2>3, NonIsoShape
      <3>2. SameShape(D, r.m) /\ WorkOK(r.m) /\ IsoOK(r.m)
        BY <1>7, <3>1 DEF SameShape, Ready, Good
      <3>3. m # "21"
        BY <1>3, <1>9, ValAssumption
      <3>4. Fed(r.m, q, m)
        BY <1>5, <3>1, <3>2, <3>3, FedShape DEF m
      <3> QED BY <2>3, <3>4 DEF m
    <2> QED BY <2>2, <2>3
  <1>10. CASE iso # NotIso
    <2>1. /\ E \in Matrices /\ E.iso = iso
          /\ E.fmt = B.fmt /\ E.entry = B.entry /\ E.nvals = B.nvals /\ E.nzombies = B.nzombies
          /\ E.nne = B.nne /\ E.h = B.h /\ E.Y = B.Y /\ E.jumbled = B.jumbled
          /\ E.unsorted = B.unsorted /\ E.valid = B.valid /\ E.vlen = B.vlen
          /\ E.vdim = B.vdim /\ E.pend = B.pend
      BY <1>1, <1>8 DEF Matrices
    <2> HIDE DEF E
    <2>2. SameShape(D, E) /\ (HasPending(E) <=> HasPending(B)) /\ (HasPending(B) <=> HasPending(D))
      BY <1>7, <2>1 DEF SameShape, HasPending
    <2>3. Orderly(E) /\ WorkOK(E)
      <3>1. E.fmt \in {"bitmap", "full"} => ~AnyPendingWork(B)
        BY <1>8, <2>1 DEF WorkOK, DenseSettled
      <3>2. WorkOK(E)
        BY <1>8, <2>1, <3>1, SameWork
      <3> QED BY <1>8, <2>1, <2>2, <3>2 DEF Orderly, PendingBounded, Dense
    <2>4. ~Splat(q) => IsoOK(E)
      <3> SUFFICES ASSUME ~Splat(q) PROVE IsoOK(E)
        OBVIOUS
      <3>1. EmptyMatrix(D) \/ D.iso = iso
        <4>1. m = "update" \/ CopiesMask(D, q)
          BY <1>3, <1>10, MethodCases DEF m, Methods
        <4> QED BY <1>3, <1>10, <4>1 DEF CopiesMask
      <3>2. CASE D.iso = iso
        BY <1>7, <1>8, <2>1, <3>2, SameIso
      <3>3. CASE EmptyMatrix(D)
        <4>1. Live(D) = {} /\ ~HasPending(E)
          BY <1>1, <2>2, <3>3, EmptyHolds
        <4>2. Live(E) = {}
          BY <1>7, <2>1, <4>1, SameSets DEF SameShape
        <4> QED BY <2>1, <4>1, <4>2, NoTuplesIso
      <3> QED BY <3>1, <3>2, <3>3
    <2>5. E.iso \in Val
      BY <1>1, <1>10, <2>1
    <2>6. Fed(E, q, m)
      BY <1>3, <1>5, <1>10, <2>2, <2>3, <2>4, <2>5, FedShape DEF m
    <2>7. r \in Done(E) \cup NoMemory(PhybixFree(B))
      BY <1>2, <1>10 DEF AnyToIso, E
    <2>8. CASE r \in Done(E)
      BY <2>6, <2>8 DEF Done, m
    <2>9. CASE r \in NoMemory(PhybixFree(B))
      <3>1. Safe(B, NoMemory(PhybixFree(B)))
        BY <1>8, SafeFreed
      <3>2. Kept(r) /\ r.info # "SUCCESS"
        BY <1>8, <2>9, <3>1, KeptSafe DEF NoMemory
      <3> QED BY <3>2
    <2> QED BY <2>7, <2>8, <2>9
  <1> QED BY <1>9, <1>10

-----------------------------------------------------------------------------
(* GB_wait keeps the hash, or drops it; it never builds another one *)

SameHash(A, B) == B.iso = A.iso /\ B.Y \in {A.Y, NoHash}

OldHash(A, S) == \A r \in S : r.info = "SUCCESS" => SameHash(A, r.m)

\* A function of one step.
LEMMA OldDone ==
  ASSUME NEW A, NEW B, SameHash(A, B), NEW X, NEW S, S \subseteq Done(B) \cup NoMemory(X)
  PROVE  OldHash(A, S)
  BY DEF OldHash, Done, NoMemory

\* A function after a step that keeps the iso value and the hash.
LEMMA OldTrans ==
  ASSUME NEW A, NEW B, SameHash(A, B), NEW S, OldHash(B, S)
  PROVE  OldHash(A, S)
  BY DEF OldHash, SameHash

\* The conversions.
LEMMA OldOneStep ==
  ASSUME NEW A \in Matrices
  PROVE  /\ OldHash(A, FullToBitmap(A)) /\ OldHash(A, FullToSparse(A))
         /\ OldHash(A, BitmapToSparse(A)) /\ OldHash(A, SparseToHyper(A))
         /\ OldHash(A, HyperToSparse(A)) /\ OldHash(A, SparseToBitmap(A))
         /\ SameHash(A, AnyToFull(A)) /\ SameHash(A, UpdateNne(A))
         /\ SameHash(A, ConformStart(A)) /\ SameHash(A, A)
  <1>1. OldHash(A, FullToBitmap(A))
    <2> DEFINE B == [A EXCEPT !.fmt = "bitmap", !.nvals = Dense(A)]
    <2>1. SameHash(A, B)
      BY DEF Matrices, SameHash
    <2>2. FullToBitmap(A) = Done(B) \cup NoMemory(A)
      BY DEF FullToBitmap
    <2> HIDE DEF B
    <2> QED BY <2>1, <2>2, OldDone
  <1>2. OldHash(A, FullToSparse(A))
    <2> DEFINE B == [A EXCEPT !.fmt = "sparse", !.nvals = Dense(A), !.nne = AllVectors(A)]
    <2>1. SameHash(A, B)
      BY DEF Matrices, SameHash
    <2>2. FullToSparse(A) = Done(B) \cup NoMemory(A)
      BY DEF FullToSparse
    <2> HIDE DEF B
    <2> QED BY <2>1, <2>2, OldDone
  <1>3. OldHash(A, BitmapToSparse(A))
    <2> DEFINE B == [A EXCEPT !.fmt = "sparse", !.nne = Cardinality(Nonempty(A))]
    <2>1. SameHash(A, B)
      BY DEF Matrices, SameHash
    <2>2. BitmapToSparse(A) = Done(B) \cup NoMemory(A)
      BY DEF BitmapToSparse
    <2> HIDE DEF B
    <2> QED BY <2>1, <2>2, OldDone
  <1>4. OldHash(A, SparseToHyper(A))
    <2> DEFINE B == [A EXCEPT !.fmt = "hyper", !.h = Nonempty(A),
                              !.nne = Cardinality(Nonempty(A))]
    <2>1. SameHash(A, B)
      BY DEF Matrices, SameHash
    <2>2. SparseToHyper(A) = Done(B) \cup NoMemory(A)
      BY DEF SparseToHyper
    <2> HIDE DEF B
    <2> QED BY <2>1, <2>2, OldDone
  <1>5. OldHash(A, HyperToSparse(A))
    <2> DEFINE all == A.vdim # 1 /\ A.h = 0 .. A.vdim - 1
               B == [A EXCEPT !.fmt = "sparse", !.h = {}, !.Y = NoHash,
                              !.nne = IF all THEN @ ELSE Cardinality(Nonempty(A))]
    <2>1. SameHash(A, B)
      BY DEF Matrices, SameHash
    <2>2. HyperToSparse(A) \subseteq Done(B) \cup NoMemory(A)
      BY DEF HyperToSparse
    <2> HIDE DEF B
    <2> QED BY <2>1, <2>2, OldDone
  <1>6. OldHash(A, SparseToBitmap(A))
    <2> DEFINE B == [A EXCEPT !.fmt = "bitmap",
                       !.entry = [p \in Pos |-> IF @[p] = Zombie THEN Absent ELSE @[p]],
                       !.nvals = @ - A.nzombies, !.nzombies = 0,
                       !.nne = AllVectors(A), !.h = {}, !.Y = NoHash,
                       !.jumbled = FALSE, !.unsorted = {}]
    <2>1. SameHash(A, B)
      BY DEF Matrices, SameHash
    <2>2. SparseToBitmap(A) = Done(B) \cup NoMemory(A)
      BY DEF SparseToBitmap
    <2> HIDE DEF B
    <2> QED BY <2>1, <2>2, OldDone
  <1>7. SameHash(A, AnyToFull(A))
    BY DEF SameHash, AnyToFull, Matrices
  <1>8. SameHash(A, UpdateNne(A))
    BY DEF SameHash, UpdateNne, Matrices
  <1>9. SameHash(A, ConformStart(A))
    BY DEF SameHash, ConformStart, HyperHashFree, UpdateNne, Matrices
  <1>10. SameHash(A, A)
    BY DEF SameHash
  <1> QED BY <1>1, <1>2, <1>3, <1>4, <1>5, <1>6, <1>7, <1>8, <1>9, <1>10

\* One function after another.
LEMMA OldThen ==
  ASSUME NEW A, NEW r, r.info = "SUCCESS" => SameHash(A, r.m), NEW S,
         r.info = "SUCCESS" => OldHash(r.m, S), NEW q \in Then(r, S), q.info = "SUCCESS"
  PROVE  SameHash(A, q.m)
  BY DEF Then, OldHash, SameHash

\* The conversions of more than one step.
LEMMA OldAny ==
  ASSUME NEW A, Ready(A)
  PROVE  OldHash(A, AnyToSparse(A)) /\ OldHash(A, AnyToHyper(A)) /\ OldHash(A, AnyToBitmap(A))
  <1>1. A \in Matrices /\ A.fmt \in Formats
    BY DEF Ready, Good, Matrices
  <1>2. OldHash(A, Done(A))
    BY <1>1, OldOneStep, OldDone
  <1>3. OldHash(A, AnyToSparse(A))
    BY <1>1, <1>2, OldOneStep DEF AnyToSparse, Formats
  <1>4. OldHash(A, AnyToBitmap(A))
    BY <1>1, <1>2, OldOneStep DEF AnyToBitmap, Formats
  <1>5. OldHash(A, AnyToHyper(A))
    <2>1. CASE A.fmt = "hyper"
      BY <1>2, <2>1 DEF AnyToHyper
    <2>2. CASE A.fmt # "hyper"
      <3> SUFFICES ASSUME NEW q \in AnyToHyper(A), q.info = "SUCCESS" PROVE SameHash(A, q.m)
        BY DEF OldHash
      <3>1. PICK r \in AnyToSparse(A) : q \in Then(r, SparseToHyper(r.m))
        BY <2>2 DEF AnyToHyper
      <3>2. r.m \in Matrices /\ (r.info = "SUCCESS" => SameHash(A, r.m))
        BY <1>3, SafeAnyToSparse DEF OldHash, Safe, Good
      <3>3. OldHash(r.m, SparseToHyper(r.m))
        BY <3>2, OldOneStep
      <3> QED BY <3>1, <3>2, <3>3, OldThen
    <2> QED BY <2>1, <2>2
  <1> QED BY <1>3, <1>4, <1>5

\* The test between sparse and hypersparse.
LEMMA OldConformHyper ==
  ASSUME NEW A \in Matrices
  PROVE  OldHash(A, ConformHyper(A))
  <1> DEFINE B == UpdateNne(A)
  <1>1. B \in Matrices /\ SameHash(A, B)
    <2>1. NvecNonempty(A) \in Nat
      BY HeldCounts, DenseNat DEF NvecNonempty
    <2> QED BY <2>1, OldOneStep DEF UpdateNne, Matrices
  <1> HIDE DEF B
  <1>2. OldHash(B, SparseToHyper(B)) /\ OldHash(B, HyperToSparse(B)) /\ OldHash(B, Done(B))
    BY <1>1, OldOneStep, OldDone
  <1>3. \/ ConformHyper(A) = SparseToHyper(B)
        \/ ConformHyper(A) = HyperToSparse(B)
        \/ ConformHyper(A) = Done(B)
    BY DEF ConformHyper, B
  <1> QED BY <1>1, <1>2, <1>3, OldTrans

\* GB_conform.
LEMMA OldConformSettled ==
  ASSUME NEW A, Ready(A)
  PROVE  OldHash(A, ConformSettled(A))
  <1> DEFINE B == ConformStart(A)
             target == ConformTarget(A)
  <1>1. Ready(B) /\ B \in Matrices /\ SameHash(A, B)
    BY SafeConformStart, OldOneStep DEF Ready, Good
  <1> HIDE DEF B, target
  <1>2. OldHash(B, ConvertTo(B, target))
    <2>1. OldHash(B, Done(AnyToFull(B)))
      BY <1>1, OldOneStep, OldDone
    <2>2. OldHash(B, ConformHyper(B))
      BY <1>1, OldConformHyper
    <2>3. OldHash(B, UNION {Then(r, ConformHyper(r.m)) : r \in AnyToSparse(B)})
      <3> SUFFICES ASSUME NEW r \in AnyToSparse(B), NEW q \in Then(r, ConformHyper(r.m)),
                          q.info = "SUCCESS"
                   PROVE  SameHash(B, q.m)
        BY DEF OldHash
      <3>1. r.m \in Matrices /\ (r.info = "SUCCESS" => SameHash(B, r.m))
        BY <1>1, OldAny, SafeAnyToSparse DEF OldHash, Safe, Good
      <3>2. OldHash(r.m, ConformHyper(r.m))
        BY <3>1, OldConformHyper
      <3> QED BY <3>1, <3>2, OldThen
    <2> QED BY <1>1, <2>1, <2>2, <2>3, OldAny DEF ConvertTo
  <1>3. ConformSettled(A) = ConvertTo(B, target)
    BY DEF ConformSettled, B, target
  <1> QED BY <1>1, <1>2, <1>3, OldTrans

\* The steps of GB_wait.
LEMMA OldPrune ==
  ASSUME NEW A \in Matrices
  PROVE  /\ OldHash(A, Unjumble(A)) /\ OldHash(A, HyperPrune(A))
         /\ \A r \in HyperPrune(A) : r.m \in Matrices
  <1> DEFINE B == UpdateNne(A)
  <1>1. B \in Matrices /\ SameHash(A, B)
    <2>1. NvecNonempty(A) \in Nat
      BY HeldCounts, DenseNat DEF NvecNonempty
    <2> QED BY <2>1, OldOneStep DEF UpdateNne, Matrices
  <1>2. OldHash(A, Unjumble(A))
    <2> DEFINE D == [B EXCEPT !.jumbled = FALSE, !.unsorted = {}]
    <2>1. SameHash(A, D)
      BY <1>1 DEF SameHash, Matrices
    <2>2. Unjumble(A) = Done(B) \/ Unjumble(A) = Done(D) \cup NoMemory(B)
      BY DEF Unjumble
    <2> HIDE DEF B, D
    <2> QED BY <1>1, <2>1, <2>2, OldDone
  <1>3. OldHash(A, HyperPrune(A)) /\ \A r \in HyperPrune(A) : r.m \in Matrices
    <2> DEFINE D == [B EXCEPT !.h = Nonempty(B), !.Y = NoHash, !.nne = Cardinality(Nonempty(B))]
    <2>1. SameHash(A, D)
      BY <1>1 DEF SameHash, Matrices
    <2>2. HyperPrune(A) \in {Done(A), Done(B), Done(D) \cup NoMemory(B)}
      BY DEF HyperPrune
    <2>3. D \in Matrices
      <3>1. Nonempty(B) \subseteq Vectors /\ Cardinality(Nonempty(B)) \in Nat
        BY HeldType, HeldCounts
      <3>2. NoHash \subseteq Vectors \cup {-1}
        BY DEF NoHash
      <3> QED BY <1>1, <3>1, <3>2 DEF Matrices
    <2> HIDE DEF B, D
    <2>4. SameHash(A, A)
      BY DEF SameHash
    <2>5. OldHash(A, HyperPrune(A))
      BY <1>1, <2>1, <2>2, <2>4, OldDone
    <2>6. \A r \in HyperPrune(A) : r.m \in Matrices
      BY <1>1, <2>2, <2>3 DEF Done, NoMemory
    <2> QED BY <2>5, <2>6
  <1> QED BY <1>2, <1>3

\* GB_transplant takes all of this from T.
LEMMA OldTransplant ==
  ASSUME NEW A \in Matrices, NEW T \in Matrices
  PROVE  SameHash(T, Transplant(A, T))
  BY DEF SameHash, Transplant, Matrices

\* GB_wait drops the hash together with the zombies.
LEMMA OldRemoveZombies ==
  ASSUME NEW A, Ready(A), A.fmt \in {"hyper", "sparse"}
  PROVE  OldHash(A, RemoveZombies(A))
  <1> DEFINE live == [p \in Pos |-> IF A.entry[p] = Zombie THEN Absent ELSE A.entry[p]]
             W == [A EXCEPT !.entry = live, !.nvals = @ - A.nzombies,
                            !.nzombies = 0, !.Y = NoHash]
             B == [W EXCEPT !.nne = Cardinality(Nonempty(W))]
  <1>1. A \in Matrices
    BY DEF Ready, Good
  <1>2. A.nvals - A.nzombies \in Nat
    BY LiveCount DEF Nnz
  <1>3. W \in Matrices /\ W.iso = A.iso /\ W.Y = NoHash
    <2>1. live \in [Pos -> Val \cup {Absent, Zombie}]
      BY <1>1 DEF Matrices
    <2> HIDE DEF live
    <2> QED BY <1>1, <1>2, <2>1 DEF Matrices, NoHash
  <1>4. RemoveZombies(A) \subseteq
          Done(A) \cup NoMemory(A)
            \cup UNION {Then(r, Done(Transplant(A, r.m))) : r \in HyperPrune(B)}
    BY DEF RemoveZombies
  <1> HIDE DEF W
  <1>5. B \in Matrices /\ SameHash(A, B)
    BY <1>3, HeldCounts DEF Matrices, SameHash
  <1> HIDE DEF B
  <1>6. ASSUME NEW r \in HyperPrune(B), NEW q \in Then(r, Done(Transplant(A, r.m))),
               q.info = "SUCCESS"
        PROVE  SameHash(A, q.m)
    <2>1. r.info = "SUCCESS" /\ q.m = Transplant(A, r.m)
      BY <1>6 DEF Then, Done
    <2>2. r.m \in Matrices /\ SameHash(B, r.m)
      BY <1>5, <1>6, <2>1, OldPrune DEF OldHash
    <2>3. SameHash(r.m, q.m)
      BY <1>1, <2>1, <2>2, OldTransplant
    <2> QED BY <1>5, <2>2, <2>3 DEF SameHash
  <1>7. SameHash(A, A)
    BY DEF SameHash
  <1> SUFFICES ASSUME NEW q \in RemoveZombies(A), q.info = "SUCCESS" PROVE SameHash(A, q.m)
    BY DEF OldHash
  <1>8. CASE q \in Done(A) \cup NoMemory(A)
    BY <1>7, <1>8 DEF Done, NoMemory
  <1>9. CASE q \in UNION {Then(r, Done(Transplant(A, r.m))) : r \in HyperPrune(B)}
    BY <1>6, <1>9
  <1> QED BY <1>4, <1>8, <1>9

\* GB_transplant_conform.
LEMMA OldTransplantConform ==
  ASSUME NEW A \in Matrices, NEW T, Ready(T)
  PROVE  OldHash(T, TransplantConform(A, T))
  <1>1. Ready(Transplant(A, T)) /\ T \in Matrices
    BY ReadyTransplant DEF Ready, Good
  <1>2. SameHash(T, Transplant(A, T))
    BY <1>1, OldTransplant
  <1>3. OldHash(Transplant(A, T), ConformSettled(Transplant(A, T)))
    BY <1>1, OldConformSettled
  <1> QED BY <1>2, <1>3, OldTrans DEF TransplantConform

\* The hash that GB_wait puts back is the one it had set aside.
LEMMA OldMergePending ==
  ASSUME NEW A, Ready(A), ~HasPending(A), A.fmt \in {"hyper", "sparse"},
         NEW T, Ready(T), T.fmt = "hyper", T.vlen = A.vlen, T.vdim = A.vdim,
         T.iso = A.iso, Held(A) \cap Held(T) = {}, Live(T) = Held(T)
  PROVE  OldHash(A, MergePending(A, T))
  <1> DEFINE S == AddPending(A, T)
             keep == A.fmt = "hyper" /\ ~A.nohash /\ A.Y # NoHash /\ S.h = A.h
             restored(m) == IF keep /\ m.fmt = "hyper" /\ m.Y = NoHash
                            THEN [m EXCEPT !.Y = A.Y] ELSE m
             put(r) == IF r.info = "SUCCESS" THEN [r EXCEPT !.m = restored(@)] ELSE r
  <1>1. /\ Ready(S) /\ ~HasPending(S) /\ S.Y = NoHash /\ A \in Matrices
    BY ReadyAddPending DEF Ready, Good
  <1>2. S.iso = A.iso
    BY <1>1 DEF AddPending, Matrices
  <1>3. MergePending(A, T) = {put(r) : r \in TransplantConform(A, S)} \cup NoMemory(A)
    BY DEF MergePending, S
  <1> HIDE DEF S
  <1>4. ASSUME NEW r \in TransplantConform(A, S), put(r).info = "SUCCESS"
        PROVE  SameHash(A, put(r).m)
    <2>1. r \in Outcomes /\ r.m \in Matrices
      BY <1>1, <1>4, SafeTransplantConform DEF Safe, Good
    <2>2. r.info = "SUCCESS" /\ put(r) = [r EXCEPT !.m = restored(r.m)]
      BY <1>4, <2>1 DEF Outcomes
    <2>3. SameHash(S, r.m)
      BY <1>1, <1>4, <2>2, OldTransplantConform DEF OldHash
    <2>4. put(r).m = restored(r.m)
      BY <2>1, <2>2 DEF Outcomes
    <2>5. SameHash(A, restored(r.m))
      BY <1>1, <1>2, <2>1, <2>3 DEF SameHash, Matrices
    <2> QED BY <2>4, <2>5
  <1> HIDE DEF put
  <1> QED BY <1>3, <1>4 DEF OldHash, NoMemory

\* What GB_wait does with the tuples, once the zombies are gone.
LEMMA OldFinishPruned ==
  ASSUME NEW A, Ready(A), NEW B, Ready(B), ~AnyPendingWork(B), Within(A, B),
         SameHash(A, B), B.fmt \in {"hyper", "sparse", "full"}
  PROVE  LET T == BuildPending(A)
         IN  OldHash(A, IF ~HasPending(A) THEN ConformSettled(B)
                        ELSE IF Nnz(B) = 0 THEN TransplantConform(B, T)
                        ELSE MergePending(B, T))
  <1> DEFINE T == BuildPending(A)
  <1>1. A \in Matrices /\ B \in Matrices /\ WorkOK(A) /\ ~HasPending(B)
    BY DEF Ready, Good, AnyPendingWork
  <1>2. /\ Ready(T) /\ T.fmt = "hyper" /\ ~HasPending(T)
        /\ T.vlen = A.vlen /\ T.vdim = A.vdim /\ T.iso = A.iso
        /\ Held(T) = PendingPos(A) /\ Live(T) = PendingPos(A)
    BY ReadyBuildPending
  <1>3. SameHash(A, T)
    BY <1>1, <1>2 DEF BuildPending, SameHash, Matrices
  <1> HIDE DEF T
  <1>5. CASE ~HasPending(A)
    BY <1>5, OldConformSettled, OldTrans
  <1>6. CASE HasPending(A) /\ Nnz(B) = 0
    <2>1. OldHash(A, TransplantConform(B, T))
      BY <1>1, <1>2, <1>3, OldTransplantConform, OldTrans
    <2> QED BY <1>6, <2>1 DEF T
  <1>7. CASE HasPending(A) /\ Nnz(B) # 0
    <2>1. Held(A) \cap PendingPos(A) = {}
      BY <1>1 DEF WorkOK, PendingDisjoint, Held
    <2>2. Held(B) \cap Held(T) = {}
      BY <1>2, <2>1 DEF Within
    <2>3. B.fmt # "full"
      <3>1. PICK p \in PendingPos(A) : InRange(A, p)
        <4>1. A.pend.tup \in Seq(Tuples) /\ A.pend.tup # <<>>
          BY <1>1, <1>7 DEF Matrices, PendingLists, HasPending
        <4>2. 1 \in DOMAIN A.pend.tup
          BY <4>1
        <4> QED BY <1>1, <4>2 DEF PendingPos, WorkOK, PendingDisjoint
      <3>2. p \in Pos /\ InRange(B, p)
        BY <1>2, <3>1 DEF Held, Within, InRange
      <3> QED BY <1>2, <2>2, <3>1, <3>2, FullHolds
    <2>4. OldHash(B, MergePending(B, T))
      BY <1>1, <1>2, <2>2, <2>3, OldMergePending DEF Within
    <2>5. OldHash(A, MergePending(B, T))
      BY <2>4, OldTrans
    <2> QED BY <1>7, <2>5 DEF T
  <1> QED BY <1>5, <1>6, <1>7 DEF T

\* GB_wait with tuples or zombies.
LEMMA OldFinishWork ==
  ASSUME NEW A, Ready(A), A.fmt \in {"hyper", "sparse"}
  PROVE  OldHash(A, FinishWork(A))
  <1> DEFINE T == BuildPending(A)
             B == [A EXCEPT !.pend = NoPending]
             pruned == RemoveZombies(B)
             sorted == UNION {Then(r, Unjumble(r.m)) : r \in pruned}
             finish(D) == IF ~HasPending(A) THEN ConformSettled(D)
                          ELSE IF Nnz(D) = 0 THEN TransplantConform(D, T)
                          ELSE MergePending(D, T)
  <1>1. Ready(B) /\ Fits(A, B) /\ ~HasPending(B) /\ SameContent(A, B)
    BY ReadyUnpended
  <1>2. SameHash(A, B)
    BY DEF SameHash, Ready, Good, Matrices
  <1>3. FinishWork(A) = NoMemory(A) \cup UNION {Then(r, finish(r.m)) : r \in sorted}
    BY DEF FinishWork
  <1> HIDE DEF B
  <1>4. Within(A, B) /\ B.fmt \in {"hyper", "sparse"}
    BY <1>1, SameSets DEF SameContent, Within
  <1>5. ASSUME NEW r \in pruned, NEW q \in Then(r, Unjumble(r.m)), q.info = "SUCCESS"
        PROVE  /\ Ready(q.m) /\ ~AnyPendingWork(q.m) /\ Within(A, q.m) /\ SameHash(A, q.m)
               /\ q.m.fmt \in {"hyper", "sparse", "full"}
    <2>1. r.info = "SUCCESS" /\ q \in Unjumble(r.m)
      BY <1>5 DEF Then
    <2>2. /\ Good(r.m) /\ Fits(B, r.m) /\ r.m.valid /\ r.m.nzombies = 0 /\ Within(B, r.m)
          /\ r.m.fmt \in {"hyper", "sparse", "full"}
      BY <1>1, <1>4, <1>5, <2>1, SafeRemoveZombies DEF Safe
    <2>3. SameHash(B, r.m)
      BY <1>1, <1>4, <1>5, <2>1, OldRemoveZombies DEF OldHash
    <2> HIDE DEF pruned
    <2>4. /\ Good(q.m) /\ Fits(r.m, q.m) /\ q.m.valid /\ ~q.m.jumbled /\ SameContent(r.m, q.m)
      BY <1>5, <2>1, <2>2, SafeUnjumble DEF Safe, Ready
    <2>5. SameHash(r.m, q.m)
      BY <1>5, <2>1, <2>2, OldPrune DEF OldHash, Good
    <2>6. SameHash(A, q.m)
      BY <1>2, <2>3, <2>5 DEF SameHash
    <2>7. q.m.nzombies = 0
      BY <2>2, <2>4 DEF Fits, Good, Matrices
    <2>8. ~HasPending(q.m)
      BY <1>1, <2>2, <2>4 DEF Fits
    <2>9. Within(A, q.m)
      BY <1>4, <2>2, <2>4, SameSets DEF Within, SameContent
    <2> QED BY <2>2, <2>4, <2>6, <2>7, <2>8, <2>9 DEF AnyPendingWork, SameContent, Ready
  <1> HIDE DEF pruned
  <1>6. ASSUME NEW r \in sorted, NEW q \in Then(r, finish(r.m)), q.info = "SUCCESS"
        PROVE  SameHash(A, q.m)
    <2>1. r.info = "SUCCESS" /\ q \in finish(r.m)
      BY <1>6 DEF Then
    <2>2. /\ Ready(r.m) /\ ~AnyPendingWork(r.m) /\ Within(A, r.m) /\ SameHash(A, r.m)
          /\ r.m.fmt \in {"hyper", "sparse", "full"}
      BY <1>5, <1>6, <2>1
    <2> HIDE DEF sorted
    <2>3. OldHash(A, finish(r.m))
      BY <2>2, OldFinishPruned
    <2> HIDE DEF finish
    <2> QED BY <1>6, <2>1, <2>3 DEF OldHash
  <1> HIDE DEF sorted, finish
  <1> QED BY <1>3, <1>6 DEF OldHash, NoMemory

\* GB_wait.
LEMMA OldWait ==
  ASSUME NEW A, Ready(A)
  PROVE  OldHash(A, Wait(A))
  <1>1. A \in Matrices /\ A.fmt \in Formats
    BY DEF Ready, Good, Matrices
  <1>2. OldHash(A, Done(A)) /\ OldHash(A, Done(UpdateNne(A)))
    BY <1>1, OldOneStep, OldDone
  <1>3. CASE A.fmt \in {"hyper", "sparse"} /\ AnyPendingWork(A)
    <2> DEFINE S == IF HasPending(A) \/ A.nzombies > 0 THEN FinishWork(A) ELSE Unjumble(A)
    <2>1. OldHash(A, S)
      BY <1>1, <1>3, OldFinishWork, OldPrune
    <2>2. Wait(A) = {FreeOnError(r) : r \in S}
      BY <1>3 DEF Wait
    <2>3. \A r \in S : r \in Outcomes
      BY <1>3, SafeFinishWork, SafeUnjumble DEF Finished, Safe
    <2> HIDE DEF S
    <2>4. ASSUME NEW r \in S, FreeOnError(r).info = "SUCCESS"
          PROVE  FreeOnError(r) = r
      BY <2>3, <2>4 DEF FreeOnError, Outcomes
    <2> QED BY <2>1, <2>2, <2>4 DEF OldHash
  <1> QED BY <1>1, <1>2, <1>3 DEF Wait, Formats

\* A conditional wait.
LEMMA OldWaitIf ==
  ASSUME NEW A, Ready(A), NEW cond
  PROVE  OldHash(A, WaitIf(cond, A))
  <1>1. OldHash(A, Done(A))
    BY OldOneStep, OldDone DEF Ready, Good
  <1> QED BY <1>1, OldWait DEF WaitIf

-----------------------------------------------------------------------------
(* GB_assign_prep *)

\* GB_clear.
LEMMA KeptClear ==
  ASSUME NEW A, Usable(A), NEW r \in Clear(A)
  PROVE  /\ Kept(r)
         /\ r.info = "SUCCESS" => r.m.vlen = A.vlen /\ r.m.vdim = A.vdim
  BY KeepsClear DEF Keeps, Kept

\* The wait leaves no reason to wait.
LEMMA PreparedWait ==
  ASSUME NEW A, Usable(A), NEW q,
         NEW r \in WaitIf(MustWait(A, Effective(A, q)), A)
  PROVE  /\ Kept(r) /\ r.m.vlen = A.vlen /\ r.m.vdim = A.vdim
         /\ r.info = "SUCCESS" => ~MustWait(r.m, Effective(r.m, q)) /\ SameHash(A, r.m)
  <1>1. Ready(A) /\ Orderly(A)
    BY DEF Usable
  <1>2. Kept(r) /\ r.m.vlen = A.vlen /\ r.m.vdim = A.vdim
    BY <1>1, SafeWaitIf, KeptSafe DEF Safe, Fits
  <1>3. r.info = "SUCCESS" => SameHash(A, r.m)
    BY <1>1, OldWaitIf DEF OldHash
  <1>4. CASE MustWait(A, Effective(A, q))
    <2>1. r \in Wait(A)
      BY <1>4 DEF WaitIf
    <2>2. r.info = "SUCCESS" => ~HasPending(r.m)
      BY <1>1, <2>1, SafeWait DEF Settled, AnyPendingWork
    <2> QED BY <1>2, <1>3, <2>2 DEF MustWait
  <1>5. CASE ~MustWait(A, Effective(A, q))
    <2>1. r.m = A
      BY <1>5 DEF WaitIf, Done
    <2> QED BY <1>2, <1>3, <1>5, <2>1
  <1> QED BY <1>4, <1>5

\* A hash that is there after the wait was there before it.
LEMMA OldAppends ==
  ASSUME NEW A, Ready(A), NEW B, Ready(B), SameHash(A, B), B.vlen = A.vlen,
         NEW q, NEW e, e = Effective(B, q), Asked(A, q),
         Appends(B, e), B.Y # NoHash
  PROVE  Appends(A, q) /\ A.Y # NoHash
  <1>1. HashMatches(A) /\ HashMatches(B)
    BY DEF Ready, Good, StructureOK
  <1>2. A.Y # NoHash /\ A.fmt = "hyper" /\ A.h = B.h /\ A.iso = B.iso
    BY <1>1 DEF SameHash, HashMatches
  <1>3. /\ e.dims = q.dims /\ e.region = q.region /\ e.M = q.M /\ e.comp = q.comp
        /\ e.accum = q.accum /\ e.A = q.A /\ e.type = q.type
    BY AskedEffective
  <1> QED BY <1>2, <1>3 DEF Appends, NoMask, Whole, Scalar

\* After GB_assign_prep, what the method needs is there.
LEMMA KeptPrepare ==
  ASSUME NEW A, Usable(A), NEW q, Asked(A, q), NEW r \in Prepare(A, q)
  PROVE  /\ Kept(r)
         /\ r.info = "SUCCESS" =>
              /\ r.m.vlen = A.vlen /\ r.m.vdim = A.vdim
              /\ ~MustWait(r.m, Effective(r.m, q))
              /\ Splat(q) => ~HasPending(r.m) /\ r.m.nzombies = A.nzombies
                             /\ (r.m.jumbled <=> A.jumbled)
              /\ Appends(r.m, Effective(r.m, q)) /\ r.m.Y # NoHash =>
                   Appends(A, q) /\ A.Y # NoHash
  <1> DEFINE early == Whole(q) /\ ~NoMask(q) /\ q.replace /\ q.accum = NoOp /\ ~UseBitmap(A, q)
             D == [A EXCEPT !.pend = IF Splat(q) THEN NoPending ELSE @]
             start == IF early THEN Clear(A) ELSE Done(D)
  <1>1. Ready(A) /\ A \in Matrices /\ Orderly(A)
    BY DEF Usable, Ready, Good
  <1>2. PICK b \in start : r \in Then(b, WaitIf(MustWait(b.m, Effective(b.m, q)), b.m))
    BY DEF Prepare, Each
  <1>3. ~Splat(q) => D = A
    BY <1>1 DEF Matrices
  <1>4. Splat(q) => /\ Usable(D) /\ ~HasPending(D) /\ D.nzombies = A.nzombies
                    /\ D.jumbled = A.jumbled /\ D.vlen = A.vlen /\ D.vdim = A.vdim
    <2> SUFFICES ASSUME Splat(q)
                 PROVE  /\ Usable(D) /\ ~HasPending(D) /\ D.nzombies = A.nzombies
                        /\ D.jumbled = A.jumbled /\ D.vlen = A.vlen /\ D.vdim = A.vdim
      OBVIOUS
    <2> DEFINE F == [A EXCEPT !.pend = NoPending]
    <2>1. D = F
      OBVIOUS
    <2>2. Ready(F) /\ ~HasPending(F)
      BY <1>1, ReadyUnpended
    <2>3. F.nzombies = A.nzombies /\ F.jumbled = A.jumbled /\ F.vlen = A.vlen /\ F.vdim = A.vdim
      BY <1>1 DEF Matrices
    <2> HIDE DEF D, F
    <2> QED BY <2>1, <2>2, <2>3 DEF Usable, Orderly, PendingBounded
  <1>5. Usable(D) /\ D.vlen = A.vlen /\ D.vdim = A.vdim
    BY <1>3, <1>4
  <1> HIDE DEF D
  <1>6. /\ Kept(b) /\ (b.info = "SUCCESS" => b.m.vlen = A.vlen /\ b.m.vdim = A.vdim)
        /\ ~early => b.m = D
    <2>1. CASE early
      BY <1>2, <2>1, KeptClear
    <2>2. CASE ~early
      <3>1. b \in Done(D)
        BY <1>2, <2>2
      <3>2. Kept(b)
        BY <1>5, <3>1, KeptDone
      <3> QED BY <1>5, <3>1, <3>2 DEF Done
    <2> QED BY <2>1, <2>2
  <1>7. Splat(q) => ~early
    BY DEF Splat
  <1>8. CASE b.info # "SUCCESS"
    BY <1>2, <1>6, <1>8 DEF Then
  <1>9. CASE b.info = "SUCCESS"
    <2>1. Usable(b.m) /\ r \in WaitIf(MustWait(b.m, Effective(b.m, q)), b.m)
      BY <1>2, <1>6, <1>9, KeptUsable DEF Then
    <2>2. /\ Kept(r) /\ r.m.vlen = A.vlen /\ r.m.vdim = A.vdim
          /\ r.info = "SUCCESS" => ~MustWait(r.m, Effective(r.m, q)) /\ SameHash(b.m, r.m)
      BY <1>6, <1>9, <2>1, PreparedWait
    <2>3. ASSUME Splat(q)
          PROVE  ~HasPending(r.m) /\ r.m.nzombies = A.nzombies /\ (r.m.jumbled <=> A.jumbled)
      <3>1. b.m = D /\ ~HasPending(D)
        BY <1>4, <1>6, <1>7, <2>3
      <3>2. r.m = D
        BY <2>1, <3>1 DEF MustWait, WaitIf, Done
      <3> QED BY <1>4, <2>3, <3>1, <3>2
    <2>4. ASSUME r.info = "SUCCESS", Appends(r.m, Effective(r.m, q)), r.m.Y # NoHash
          PROVE  Appends(A, q) /\ A.Y # NoHash
      <3>1. ~Whole(q)
        <4>1. Whole(Effective(r.m, q)) <=> Whole(q)
          BY AskedEffective DEF Whole
        <4> QED BY <2>4, <4>1 DEF Appends
      <3>2. b.m = A
        BY <1>3, <1>6, <3>1 DEF Splat
      <3>3. Ready(r.m)
        BY <2>2, <2>4 DEF Kept, Ready
      <3> HIDE DEF early, start
      <3> QED BY <1>1, <2>2, <2>4, <3>2, <3>3, OldAppends
    <2> QED BY <2>2, <2>3, <2>4
  <1> QED BY <1>8, <1>9

-----------------------------------------------------------------------------
(* A call *)

\* The entries of C(I,J) are deleted: those of a bitmap at once, any others become
\* zombies.
LEMMA TidyDelete ==
  ASSUME NEW A, Usable(A), NEW q, Asked(A, q), ~Splat(q), NEW dense,
         NEW y \in WaitIf(HasPending(A), A),
         NEW r \in Then(y, IF dense THEN BitmapAssign(y.m, q)
                           ELSE UNION {Then(x, Update(x.m, q)) : x \in NotDense(y.m)})
  PROVE  Tidy(r)
  <1>1. Ready(A) /\ Orderly(A)
    BY DEF Usable
  <1>2. Kept(y) /\ y.m.vlen = A.vlen /\ y.m.vdim = A.vdim
    BY <1>1, SafeWaitIf, KeptSafe DEF Safe, Fits
  <1>3. y.info = "SUCCESS" => ~HasPending(y.m)
    BY <1>1, SafeWait DEF WaitIf, Settled, AnyPendingWork, Done
  <1>4. CASE y.info # "SUCCESS"
    BY <1>2, <1>4, KeptTidy DEF Then
  <1>5. CASE y.info = "SUCCESS"
    <2>1. Usable(y.m) /\ Ready(y.m) /\ Orderly(y.m) /\ Asked(y.m, q) /\ ~HasPending(y.m)
      BY <1>2, <1>3, <1>5, KeptUsable, AskedSame DEF Usable
    <2>2. CASE dense
      <3>1. ForBitmap(y.m, q)
        BY <2>1, ReadyLoose DEF ForBitmap, Ready, Good
      <3>2. r \in BitmapAssign(y.m, q)
        BY <1>5, <2>2 DEF Then
      <3> QED BY <3>1, <3>2, KeptBitmapAssign, KeptTidy
    <2>3. CASE ~dense
      <3>1. PICK x \in NotDense(y.m) : r \in Then(x, Update(x.m, q))
        BY <1>5, <2>3 DEF Then
      <3>2. Kept(x) /\ Fits(y.m, x.m) /\ (x.info = "SUCCESS" => x.m.fmt \in {"sparse", "hyper"})
        BY <2>1, SafeNotDense, KeptSafe DEF Safe
      <3>3. CASE x.info # "SUCCESS"
        BY <3>1, <3>2, <3>3, KeptTidy DEF Then
      <3>4. CASE x.info = "SUCCESS"
        <4>1. Usable(x.m) /\ Asked(x.m, q) /\ r \in Update(x.m, q)
          BY <2>1, <3>1, <3>2, <3>4, KeptUsable, AskedSame DEF Fits, Then
        <4>2. x.m.fmt # "bitmap" /\ x.m.fmt # "full"
          BY <3>2, <3>4
        <4> QED BY <4>1, <4>2, TidyUpdate
      <3> QED BY <3>3, <3>4
    <2> QED BY <2>2, <2>3
  <1> QED BY <1>4, <1>5

\* GB_assign_prep does all of the work if the mask is empty and complemented.
LEMMA KeptEmptyMask ==
  ASSUME NEW A, Usable(A), NEW q, Asked(A, q), EmptyMask(q),
         NEW r \in EmptyMaskAssign(A, q)
  PROVE  Kept(r)
  <1> DEFINE update(D) == Update(D, q)
             delete(B) == IF UseBitmap(A, q) THEN BitmapAssign(B, q)
                          ELSE Each(NotDense(B), update)
             clears == Whole(q) \/ q.kind = "assign"
             deleted == CASE ~q.replace -> Done(A)
                          [] q.replace /\ clears -> Clear(A)
                          [] OTHER -> Each(WaitIf(HasPending(A), A), delete)
  <1>1. PICK y \in deleted : r \in Then(y, Block(y.m))
    BY DEF EmptyMaskAssign, Each
  <1>2. CASE ~q.replace
    <2>1. deleted = Done(A)
      BY <1>2
    <2>2. Kept(y)
      BY <1>1, <2>1, KeptDone
    <2> QED BY <1>1, <2>2, KeptTidy, KeptBlock
  <1>3. CASE q.replace /\ clears
    <2>1. deleted = Clear(A)
      BY <1>3
    <2>2. Kept(y)
      BY <1>1, <2>1, KeptClear
    <2> QED BY <1>1, <2>2, KeptTidy, KeptBlock
  <1>4. CASE q.replace /\ ~clears
    <2>1. deleted = Each(WaitIf(HasPending(A), A), delete)
      BY <1>4
    <2>2. PICK x \in WaitIf(HasPending(A), A) : y \in Then(x, delete(x.m))
      BY <1>1, <2>1 DEF Each
    <2>3. ~Splat(q)
      BY DEF EmptyMask, Splat, NoMask
    <2>4. delete(x.m) = IF UseBitmap(A, q) THEN BitmapAssign(x.m, q)
                        ELSE UNION {Then(w, Update(w.m, q)) : w \in NotDense(x.m)}
      BY DEF Each
    <2> HIDE DEF delete
    <2>5. Tidy(y)
      BY <2>2, <2>3, <2>4, TidyDelete
    <2> QED BY <1>1, <2>5, KeptBlock
  <1> HIDE DEF clears
  <1> QED BY <1>2, <1>3, <1>4

\* A whole call keeps C sound, except where the code does not (see README).
LEMMA KeptAssigned ==
  ASSUME NEW A, Usable(A), NEW q, Asked(A, q),
         ~(Splat(q) /\ Scalar(q) /\ (A.nzombies > 0 \/ A.jumbled)),
         ~(Appends(A, q) /\ A.Y # NoHash),
         NEW r \in Assigned(A, q)
  PROVE  Kept(r)
  <1> DEFINE body(B, e) == Each(WithIso(B, e), LAMBDA D : AssignBody(D, e, Method(B, e)))
             assigned(B) == body(B, Effective(B, q))
  <1>1. CASE EmptyMask(q)
    BY <1>1, KeptEmptyMask DEF Assigned
  <1>2. CASE ~EmptyMask(q)
    <2>1. PICK z \in Each(Each(Prepare(A, q), assigned), Conform) : r \in Then(z, Block(z.m))
      BY <1>2 DEF Assigned, Each
    <2>2. PICK y \in Each(Prepare(A, q), assigned) : z \in Then(y, Conform(y.m))
      BY <2>1 DEF Each
    <2>3. PICK x \in Prepare(A, q) : y \in Then(x, assigned(x.m))
      BY <2>2 DEF Each
    <2> DEFINE B == x.m
               e == Effective(B, q)
    <2>4. /\ Kept(x)
          /\ x.info = "SUCCESS" =>
               /\ x.m.vlen = A.vlen /\ x.m.vdim = A.vdim
               /\ ~MustWait(x.m, Effective(x.m, q))
               /\ Splat(q) => ~HasPending(x.m) /\ x.m.nzombies = A.nzombies
                              /\ (x.m.jumbled <=> A.jumbled)
               /\ Appends(x.m, Effective(x.m, q)) /\ x.m.Y # NoHash =>
                    Appends(A, q) /\ A.Y # NoHash
      BY <2>3, KeptPrepare
    <2>5. Kept(y)
      <3>1. CASE x.info # "SUCCESS"
        BY <2>3, <2>4, <3>1 DEF Then
      <3>2. CASE x.info = "SUCCESS"
        <4>1. y \in body(B, e)
          BY <2>3, <3>2 DEF Then
        <4>2. PICK w \in WithIso(B, e) : y \in Then(w, AssignBody(w.m, e, Method(B, e)))
          BY <4>1 DEF Each
        <4>3. /\ Asked(A, e) /\ (Splat(e) <=> Splat(q)) /\ (Scalar(e) <=> Scalar(q))
          BY AskedEffective DEF Splat, Whole, NoMask, Scalar
        <4>4. Usable(B) /\ Asked(B, e)
          BY <2>4, <3>2, <4>3, KeptUsable, AskedSame
        <4>5. /\ ~MustWait(B, e) /\ (Splat(e) => ~HasPending(B))
              /\ Splat(e) /\ Scalar(e) => B.nzombies = 0 /\ ~B.jumbled
              /\ Appends(B, e) => B.Y = NoHash
          <5>1. A.nzombies \in Nat
            BY DEF Usable, Ready, Good, Matrices
          <5>2. Splat(q) /\ Scalar(q) => A.nzombies = 0 /\ ~A.jumbled
            BY <5>1
          <5> QED BY <2>4, <3>2, <4>3, <5>2
        <4> HIDE DEF B, e
        <4>6. IF w.info = "SUCCESS" THEN Fed(w.m, e, Method(B, e)) ELSE Kept(w)
          BY <4>2, <4>4, <4>5, FedWithIso
        <4> QED BY <4>2, <4>6, KeptAssignBody DEF Then
      <3> QED BY <3>1, <3>2
    <2>6. Kept(z)
      <3>1. CASE y.info # "SUCCESS"
        BY <2>2, <2>5, <3>1 DEF Then
      <3>2. CASE y.info = "SUCCESS"
        <4>1. Ready(y.m) /\ Orderly(y.m) /\ z \in Conform(y.m)
          BY <2>2, <2>5, <3>2, KeptUsable DEF Usable, Then
        <4> QED BY <4>1, SafeConform, KeptSafe
      <3> QED BY <3>1, <3>2
    <2> QED BY <2>1, <2>6, KeptTidy, KeptBlock
  <1> QED BY <1>1, <1>2

-----------------------------------------------------------------------------
(* The theorems *)

\* The invariant implies what the runs check.
LEMMA IntactSound ==
  ASSUME Intact
  PROVE  /\ StructureSound /\ WorkSound /\ IsoSound /\ FreedSound /\ JumbledHasNoTuples
  BY DEF Intact, Good, Orderly, StructureSound, WorkSound, IsoSound, FreedSound,
         JumbledHasNoTuples

\* An assignment keeps the invariant.
LEMMA IntactAssign ==
  ASSUME Intact, SoundAssign
  PROVE  Intact'
  <1>1. PICK q \in Assignments :
          /\ ~KeepsZombies(q) /\ ~LeavesHash(q) /\ q.dims = <<C.vlen, C.vdim>>
          /\ Perform(<<"assignment", q>>, Assigned(C, q))
    BY DEF SoundAssign, GrB_Matrix_assign
  <1>2. CASE Refuse(<<"assignment", q>>)
    BY <1>2 DEF Refuse, Intact
  <1>3. CASE C.valid /\ \E r \in Assigned(C, q) : C' = r.m
    <2>1. PICK r \in Assigned(C, q) : C' = r.m
      BY <1>3
    <2>2. Usable(C) /\ Asked(C, q)
      BY <1>1, <1>3, IntactUsable, AskedAssignments
    <2>3. Kept(r)
      BY <1>1, <2>1, <2>2, KeptAssigned DEF KeepsZombies, LeavesHash
    <2> QED BY <2>1, <2>3 DEF Kept, Intact
  <1> QED BY <1>1, <1>2, <1>3 DEF Perform

\* So does every step of the specification.
LEMMA IntactSoundNext ==
  ASSUME Intact, [SurvivingNext \/ SoundAssign]_vars
  PROVE  Intact'
  <1>1. CASE SurvivingNext
    BY <1>1, IntactNext DEF SurvivingNext, Next, Inv
  <1>2. CASE SoundAssign
    BY <1>2, IntactAssign
  <1>3. CASE UNCHANGED vars
    BY <1>3 DEF vars, Intact
  <1> QED BY <1>1, <1>2, <1>3

\* Whatever an assignment defers, copies or clears, and however it fails, the
\* matrix is sound between two user calls (GrB_assign, GxB_subassign).
THEOREM AssignInvariant == SoundSpec => []Intact
  <1>1. Init => Intact
    BY InvInit DEF Inv
  <1>2. Intact /\ [SurvivingNext \/ SoundAssign]_vars => Intact'
    BY IntactSoundNext
  <1> QED BY <1>1, <1>2, PTL DEF SoundSpec

\* No tuple is put, by any method of GB_subassigner_method, into a matrix that is
\* still to be sorted, and none is left there by setElement (GB_UNJUMBLE).
THEOREM AssignNoTuples == SoundSpec => []JumbledHasNoTuples
  <1>1. Intact => JumbledHasNoTuples
    BY IntactSound
  <1> QED BY <1>1, AssignInvariant, PTL

\* Counts, hyperlist and hash agree with the entries after every method, those
\* that copy the structure of A or M and the append of vectors included.
THEOREM AssignStructure == SoundSpec => []StructureSound
  <1>1. Intact => StructureSound
    BY IntactSound
  <1> QED BY <1>1, AssignInvariant, PTL

\* The tuples, the zombies and the sorted flag that the methods leave agree with
\* the entries, and a dense matrix has none of them.
THEOREM AssignWork == SoundSpec => []WorkSound
  <1>1. Intact => WorkSound
    BY IntactSound
  <1> QED BY <1>1, AssignInvariant, PTL

\* The iso value chosen by GB_assign_prep, before the method writes any entry,
\* is that of all entries and tuples afterwards.
THEOREM AssignIso == SoundSpec => []IsoSound
  <1>1. Intact => IsoSound
    BY IntactSound
  <1> QED BY <1>1, AssignInvariant, PTL

\* A matrix that an assignment has freed has nothing left to free.
THEOREM AssignFreed == SoundSpec => []FreedSound
  <1>1. Intact => FreedSound
    BY IntactSound
  <1> QED BY <1>1, AssignInvariant, PTL
=============================================================================
