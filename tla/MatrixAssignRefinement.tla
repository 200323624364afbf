----------------------- MODULE MatrixAssignRefinement -----------------------
(***************************************************************************)
(* However an assignment is done, with zombies and tuples or by copying    *)
(* structures, the user sees what the user guide defines: the matrix of    *)
(* MatrixAssignSpec implements AbstractAssign.                             *)
(***************************************************************************)
EXTENDS MatrixAssignProofs, MatrixRefinement

-----------------------------------------------------------------------------
(* What an assignment is to make of the view V *)

\* C(p) inside of C(I,J)
Within1(V, q, p) ==
  LET given == Given(q, p)
  IN  CASE ~MaskTrue(q, p) -> IF q.replace THEN NoVal ELSE V[p]
        [] MaskTrue(q, p) /\ given = Absent -> IF q.accum = NoOp THEN NoVal ELSE V[p]
        [] OTHER -> IF q.accum = NoOp \/ V[p] = NoVal THEN Cast(q.type, given)
                    ELSE Apply(q.accum, V[p], q.type, given)

\* The assignment to C(I,J), and what is left outside of it
Inner(V, q) ==
  [p \in Pos |-> IF p \in q.region THEN Within1(V, q, p) ELSE V[p]]

Wanted(V, q) ==
  [p \in Pos |-> IF p \in q.region THEN Within1(V, q, p)
                 ELSE IF q.kind = "assign" /\ q.replace /\ ~MaskTrue(q, p) THEN NoVal
                 ELSE V[p]]

-----------------------------------------------------------------------------
(* The tuples that an assignment adds *)

\* The place of each position of S in InOrder(S) is told by its rank.
LEMMA InOrderRank ==
  ASSUME NEW S \in SUBSET Pos
  PROVE  /\ \A k \in 1 .. Cardinality(S) :
              InOrder(S)[k] \in S /\ Rank(S, InOrder(S)[k]) = k - 1
         /\ \A p \in S : /\ Rank(S, p) + 1 \in 1 .. Cardinality(S)
                         /\ InOrder(S)[Rank(S, p) + 1] = p
  <1>1. \A k \in 1 .. Cardinality(S) :
          InOrder(S)[k] \in S /\ Rank(S, InOrder(S)[k]) = k - 1
    <2> TAKE k \in 1 .. Cardinality(S)
    <2>1. InOrder(S)[k] = CHOOSE p \in S : Rank(S, p) = k - 1
      BY DEF InOrder, Rank
    <2>2. \E p \in S : Rank(S, p) = k - 1
      BY RankTaken
    <2> QED BY <2>1, <2>2
  <1>2. ASSUME NEW p \in S, NEW r \in S, Rank(S, p) = Rank(S, r)
        PROVE  p = r
    <2>1. p \in Pos /\ r \in Pos /\ Rank(S, p) \in Int /\ Rank(S, r) \in Int
      <3>1. {x \in S : Before(x, p)} \in SUBSET Pos /\ {x \in S : Before(x, r)} \in SUBSET Pos
        OBVIOUS
      <3> QED BY <3>1, CountNat DEF Rank
    <2>2. ~Before(p, r) /\ ~Before(r, p)
      BY <1>2, <2>1, RankLess
    <2> QED BY <2>1, <2>2, BeforeTotal
  <1>3. ASSUME NEW p \in S
        PROVE  Rank(S, p) + 1 \in 1 .. Cardinality(S)
    <2> DEFINE R == {r \in S : Before(r, p)}
    <2>1. R \subseteq S /\ p \notin R /\ p \in S
      BY BeforeTotal
    <2>2. IsFiniteSet(S) /\ Cardinality(S) \in Nat
      BY CountNat
    <2>3. Cardinality(R) \in Nat /\ IsFiniteSet(R)
      BY <2>1, <2>2, CountNat
    <2> HIDE DEF R
    <2>4. Cardinality(R) < Cardinality(S)
      BY <2>1, <2>2, <2>3, FS_Subset
    <2>5. Rank(S, p) = Cardinality(R)
      BY DEF Rank, R
    <2> QED BY <2>2, <2>3, <2>4, <2>5
  <1>4. ASSUME NEW p \in S
        PROVE  InOrder(S)[Rank(S, p) + 1] = p
    <2> DEFINE k == Rank(S, p) + 1
    <2>1. k \in 1 .. Cardinality(S)
      BY <1>3
    <2>2. k - 1 = Rank(S, p)
      <3>1. Rank(S, p) \in Int
        <4>1. {x \in S : Before(x, p)} \in SUBSET Pos
          OBVIOUS
        <4> QED BY <4>1, CountNat DEF Rank
      <3> QED BY <3>1
    <2> HIDE DEF k
    <2>3. InOrder(S)[k] \in S /\ Rank(S, InOrder(S)[k]) = Rank(S, p)
      BY <1>1, <2>1, <2>2
    <2>4. InOrder(S)[k] = p
      BY <1>2, <2>3
    <2> QED BY <2>4 DEF k
  <1> QED BY <1>1, <1>3, <1>4

\* The tuple for the k-th of the positions of S.
NewTuple(A, q, S, k) ==
  [pos |-> InOrder(S)[k], s |-> IF A.iso # NotIso THEN NoScalar ELSE Given(q, InOrder(S)[k])]

NewTuples(A, q, S) == [k \in 1 .. Cardinality(S) |-> NewTuple(A, q, S, k)]

\* Only the list of tuples changes, and it goes on.
LEMMA InsertedFields ==
  ASSUME NEW A \in Matrices, NEW q, NEW S, NEW B, B = InsertTuples(A, q, S)
  PROVE  /\ B.pend.tup = A.pend.tup \o NewTuples(A, q, S)
         /\ HasPending(A) => B.pend.op = A.pend.op /\ B.pend.type = A.pend.type
         /\ ~HasPending(A) => /\ B.pend.type = q.type
                              /\ A.iso = NotIso => B.pend.op = q.accum
         /\ B.entry = A.entry /\ B.iso = A.iso /\ B.vlen = A.vlen /\ B.vdim = A.vdim
  <1> DEFINE new == [k \in 1 .. Cardinality(S) |->
                       [pos |-> InOrder(S)[k],
                        s   |-> IF A.iso # NotIso THEN NoScalar ELSE Given(q, InOrder(S)[k])]]
             list == IF HasPending(A) THEN A.pend
                     ELSE [op |-> IF A.iso # NotIso THEN NoOp ELSE q.accum,
                           type |-> q.type, sorted |-> TRUE, tup |-> <<>>]
             last == list.tup[Len(list.tup)].pos
             ok == list.sorted /\ ~(HasPending(A) /\ Before(new[1].pos, last))
             joined == [list EXCEPT !.tup = list.tup \o new, !.sorted = ok]
  <1>1. B = [A EXCEPT !.pend = joined]
    BY DEF InsertTuples
  <1>2. new = NewTuples(A, q, S)
    BY DEF NewTuple, NewTuples
  <1>3. {"op", "type", "sorted", "tup"} \subseteq DOMAIN list /\ list.tup = A.pend.tup
    <2>1. CASE HasPending(A)
      BY <2>1 DEF Matrices, PendingLists
    <2>2. CASE ~HasPending(A)
      BY <2>2 DEF HasPending
    <2> QED BY <2>1, <2>2
  <1>4. /\ HasPending(A) => list.op = A.pend.op /\ list.type = A.pend.type
        /\ ~HasPending(A) => /\ list.type = q.type
                             /\ A.iso = NotIso => list.op = q.accum
    OBVIOUS
  <1> HIDE DEF new, list, ok
  <1>5. joined.tup = list.tup \o new /\ joined.op = list.op /\ joined.type = list.type
    BY <1>3
  <1> HIDE DEF joined
  <1>6. /\ B.pend = joined /\ B.entry = A.entry /\ B.iso = A.iso
        /\ B.vlen = A.vlen /\ B.vdim = A.vdim
    BY <1>1 DEF Matrices
  <1> QED BY <1>2, <1>3, <1>4, <1>5, <1>6

\* Where the new tuples are in the list.
LEMMA InsertedAt ==
  ASSUME NEW A, Ready(A), NEW q, NEW S \in SUBSET Pos, S # {},
         NEW B, Ready(B), B = InsertTuples(A, q, S), NEW p \in Pos
  PROVE  \E new, n : /\ Places(A, B.pend, new, p, n)
                     /\ new.pos = p <=> p \in S
                     /\ p \in S /\ A.iso = NotIso => new.s = Given(q, p)
  <1> DEFINE m == Len(A.pend.tup)
             c == Cardinality(S)
             last == NewTuples(A, q, S)
             tup == B.pend.tup
             old == A.pend.tup
  <1>1. A \in Matrices /\ B \in Matrices
    BY DEF Ready, Good
  <1>2. tup = old \o last
    BY <1>1, InsertedFields
  <1>3. /\ old \in Seq(Tuples) /\ m \in Nat /\ DOMAIN old = 1 .. m
        /\ tup \in Seq(Tuples)
    BY <1>1, TupleTypes
  <1>4. c \in Nat /\ c # 0
    BY CountNat, FS_EmptySet
  <1>5. /\ DOMAIN tup = 1 .. m + c
        /\ \A k \in 1 .. m : tup[k] = old[k]
        /\ \A k \in 1 .. c : tup[m + k] = NewTuple(A, q, S, k)
    <2>1. last \in Seq({NewTuple(A, q, S, k) : k \in 1 .. c}) /\ Len(last) = c
      BY <1>4 DEF NewTuples
    <2> DEFINE T == Tuples \cup {NewTuple(A, q, S, k) : k \in 1 .. c}
    <2>2. old \in Seq(T) /\ last \in Seq(T)
      BY <1>3, <2>1
    <2>3. \A k \in 1 .. c : last[k] = NewTuple(A, q, S, k)
      BY DEF NewTuples
    <2> HIDE DEF last, T, old, c
    <2>4. /\ DOMAIN (old \o last) = 1 .. Len(old) + Len(last)
          /\ \A k \in 1 .. Len(old) : (old \o last)[k] = old[k]
          /\ \A k \in 1 .. Len(last) : (old \o last)[Len(old) + k] = last[k]
      BY <2>2, Concatenated
    <2> QED BY <1>2, <2>1, <2>3, <2>4 DEF old
  <1>6. \A k \in 1 .. c : /\ NewTuple(A, q, S, k).pos = InOrder(S)[k]
                          /\ A.iso = NotIso => NewTuple(A, q, S, k).s = Given(q, InOrder(S)[k])
    BY DEF NewTuple
  <1> HIDE DEF m, c, last, tup, old
  <1>7. ASSUME NEW k \in 1 .. c
        PROVE  /\ InOrder(S)[k] \in S /\ Rank(S, InOrder(S)[k]) = k - 1
               /\ tup[m + k].pos = InOrder(S)[k]
    BY <1>5, <1>6, InOrderRank DEF c
  <1>8. \A k : k \in At(A.pend, p) <=> k \in 1 .. m /\ old[k].pos = p
    BY <1>3 DEF At, old
  <1>9. \A k : k \in At(B.pend, p) <=> k \in 1 .. m + c /\ tup[k].pos = p
    BY <1>5 DEF At, tup
  <1>10. /\ p \in PendingPos(A) <=> At(A.pend, p) # {}
         /\ At(A.pend, p) # {} => old # <<>>
    <2>1. old = <<>> => m = 0
      BY DEF m, old
    <2> QED BY <1>3, <1>8, <2>1 DEF PendingPos, At
  <1>11. CASE p \in S
    <2> DEFINE j == Rank(S, p) + 1
    <2>1. j \in 1 .. c /\ InOrder(S)[j] = p
      BY <1>11, InOrderRank DEF c
    <2>2. \A k \in 1 .. c : InOrder(S)[k] = p => k = j
      <3> TAKE k \in 1 .. c
      <3>1. InOrder(S)[k] = p => Rank(S, p) = k - 1
        BY <1>7
      <3>2. k - 1 + 1 = k
        BY <1>4
      <3> QED BY <3>1, <3>2
    <2> HIDE DEF j
    <2>3. \A k : k \in At(B.pend, p) <=> k \in At(A.pend, p) \/ k = m + j
      <3> TAKE k
      <3>1. CASE k \in 1 .. m
        BY <1>3, <1>4, <1>5, <1>8, <1>9, <2>1, <3>1
      <3>2. CASE k \in m + 1 .. m + c
        <4>1. k - m \in 1 .. c /\ m + (k - m) = k
          BY <1>3, <1>4, <3>2
        <4>2. tup[k].pos = InOrder(S)[k - m]
          BY <1>7, <4>1
        <4>3. tup[k].pos = p <=> k - m = j
          BY <2>1, <2>2, <4>1, <4>2
        <4>4. k \notin 1 .. m /\ k \in 1 .. m + c
          BY <1>3, <1>4, <3>2
        <4>5. k - m = j <=> k = m + j
          BY <1>3, <1>4, <2>1, <3>2
        <4> QED BY <1>8, <1>9, <4>3, <4>4, <4>5
      <3>3. CASE k \notin 1 .. m + c
        BY <1>3, <1>4, <1>8, <1>9, <2>1, <3>3
      <3> QED BY <1>3, <1>4, <3>1, <3>2, <3>3
    <2>4. m + j \in Nat /\ m + j \notin At(A.pend, p) /\ \A k \in 1 .. m : k < m + j
      BY <1>3, <1>4, <1>8, <2>1
    <2>5. tup[m + j].pos = p /\ (A.iso = NotIso => tup[m + j].s = Given(q, p))
      BY <1>5, <1>6, <2>1
    <2>6. \A k \in At(A.pend, p) : tup[k] = old[k] /\ k < m + j /\ old # <<>>
      BY <1>5, <1>8, <1>10, <2>4
    <2>7. At(B.pend, p) = At(A.pend, p) \cup {m + j}
      BY <2>3
    <2>8. Places(A, B.pend, tup[m + j], p, m + j)
      BY <1>3, <1>10, <2>4, <2>5, <2>6, <2>7 DEF Places, tup, old
    <2> QED BY <1>11, <2>5, <2>8
  <1>12. CASE p \notin S
    <2>1. 1 \in 1 .. c
      BY <1>4
    <2>2. tup[m + 1].pos # p
      BY <1>7, <1>12, <2>1
    <2>3. \A k : k \in At(B.pend, p) <=> k \in At(A.pend, p)
      <3> TAKE k
      <3>1. CASE k \in 1 .. m
        BY <1>3, <1>4, <1>5, <1>8, <1>9, <3>1
      <3>2. CASE k \in m + 1 .. m + c
        <4>1. k - m \in 1 .. c /\ m + (k - m) = k
          BY <1>3, <1>4, <3>2
        <4>2. tup[k].pos # p
          BY <1>7, <1>12, <4>1
        <4>3. k \notin 1 .. m
          BY <1>3, <3>2
        <4> QED BY <1>8, <1>9, <4>2, <4>3
      <3>3. CASE k \notin 1 .. m + c
        BY <1>3, <1>4, <1>8, <1>9, <3>3
      <3> QED BY <1>3, <1>4, <3>1, <3>2, <3>3
    <2>4. m + 1 \in Nat /\ m + 1 \notin At(A.pend, p) /\ \A k \in 1 .. m : k < m + 1
      BY <1>3, <1>8
    <2>5. \A k \in At(A.pend, p) : tup[k] = old[k] /\ k < m + 1 /\ old # <<>>
      BY <1>5, <1>8, <1>10, <2>4
    <2>6. At(B.pend, p) = At(A.pend, p)
      BY <2>3
    <2>7. Places(A, B.pend, tup[m + 1], p, m + 1)
      BY <1>3, <1>10, <2>2, <2>4, <2>5, <2>6 DEF Places, tup, old
    <2> QED BY <1>12, <2>2, <2>7
  <1> QED BY <1>11, <1>12

\* A position is pending if the list has a place for it.
LEMMA PendingAt1 ==
  ASSUME NEW A, NEW p
  PROVE  p \in PendingPos(A) <=> At(A.pend, p) # {}
  BY DEF PendingPos, At

\* What the user sees once the tuples are in the list.
LEMMA InsertedView ==
  ASSUME NEW A, Ready(A), NEW q, Asked(A, q), NEW S \in SUBSET Pos, S # {},
         \A p \in S : Given(q, p) \in Val,
         HasPending(A) /\ A.iso = NotIso => A.pend.op = q.accum /\ A.pend.type = q.type,
         NEW B, Ready(B), B = InsertTuples(A, q, S), NEW p \in Pos
  PROVE  /\ p \notin S => View(B)[p] = View(A)[p]
         /\ p \in S /\ A.iso # NotIso => View(B)[p] = A.iso
         /\ p \in S /\ A.iso = NotIso =>
              View(B)[p] = IF p \in PendingPos(A)
                           THEN Apply(q.accum, View(A)[p], q.type, Given(q, p))
                           ELSE Cast(q.type, Given(q, p))
  <1>1. A \in Matrices /\ IsoOK(A) /\ B \in Matrices
    BY DEF Ready, Good
  <1>2. /\ HasPending(A) => B.pend.op = A.pend.op /\ B.pend.type = A.pend.type
        /\ ~HasPending(A) => /\ B.pend.type = q.type
                             /\ A.iso = NotIso => B.pend.op = q.accum
        /\ B.entry = A.entry /\ B.iso = A.iso
    BY <1>1, InsertedFields
  <1>3. Continues(A, B.pend)
    <2>1. B.pend.tup \in Seq(Tuples) /\ B.pend.op \in Ops /\ B.pend.type \in Types
      BY <1>1 DEF Matrices, PendingLists
    <2> QED BY <1>2, <2>1 DEF Continues, HasPending
  <1>4. PICK new, n : /\ Places(A, B.pend, new, p, n)
                      /\ new.pos = p <=> p \in S
                      /\ p \in S /\ A.iso = NotIso => new.s = Given(q, p)
    BY InsertedAt
  <1>5. /\ p \in PendingPos(B) <=> p \in PendingPos(A) \/ p \in S
        /\ p \in PendingPos(A) => HasPending(A)
    BY <1>4, PendingAt1 DEF Places, HasPending
  <1>6. /\ p \in PendingPos(B) => View(B)[p] = Built(B.pend, A.iso, p)
        /\ p \in PendingPos(A) => View(A)[p] = Built(A.pend, A.iso, p)
        /\ p \notin PendingPos(A) /\ p \notin PendingPos(B) => View(B)[p] = View(A)[p]
    BY <1>2, ViewAt
  <1>7. CASE A.iso # NotIso
    BY <1>5, <1>6, <1>7 DEF Built
  <1>8. CASE A.iso = NotIso /\ p \notin S
    <2>1. CASE p \in PendingPos(A)
      <3>1. Built(B.pend, NotIso, p) = Built(A.pend, NotIso, p)
        BY <1>1, <1>3, <1>4, <1>8, <2>1, BuiltOther
      <3> QED BY <1>5, <1>6, <1>8, <2>1, <3>1
    <2>2. CASE p \notin PendingPos(A)
      BY <1>5, <1>6, <1>8, <2>2
    <2> QED BY <2>1, <2>2
  <1>9. CASE A.iso = NotIso /\ p \in S
    <2>1. new.s = Given(q, p) /\ new.s \in Val /\ new.pos = p
      BY <1>4, <1>9
    <2>2. Built(B.pend, NotIso, p) = IF p \in PendingPos(A)
                                     THEN Apply(B.pend.op, Built(A.pend, NotIso, p),
                                                B.pend.type, new.s)
                                     ELSE Cast(B.pend.type, new.s)
      <3>1. A.iso = NotIso /\ Places(A, B.pend, new, p, n)
        BY <1>4, <1>9
      <3> QED BY ONLY <1>1, <1>3, <2>1, <3>1, BuiltNext
    <2>3. B.pend.op = q.accum /\ B.pend.type = q.type
      BY <1>2, <1>9
    <2> QED BY <1>5, <1>6, <1>9, <2>1, <2>2, <2>3
  <1> QED BY <1>7, <1>8, <1>9

-----------------------------------------------------------------------------
(* What a method can rely on *)

\* The iso value of D, and the list of its tuples, agree with the assignment.
Agreed(D, q, V) ==
  /\ D.iso # NotIso =>
       \A p \in q.region : MaskTrue(q, p) /\ Given(q, p) \in Val =>
         /\ Cast(q.type, Given(q, p)) = D.iso
         /\ q.accum # NoOp /\ V[p] # NoVal =>
              Apply(q.accum, D.iso, q.type, Given(q, p)) = D.iso
  /\ HasPending(D) =>
       /\ ~q.replace /\ (q.accum # NoOp \/ Scalar(q) \/ q.A.fmt = "full")
       /\ D.iso = NotIso => D.pend.op = q.accum /\ D.pend.type = q.type

\* Each position of an iso matrix that the user sees has the iso value.
LEMMA IsoView ==
  ASSUME NEW A, Ready(A), A.iso # NotIso, NEW p \in Pos, View(A)[p] # NoVal
  PROVE  View(A)[p] = A.iso
  <1>1. CASE p \in PendingPos(A)
    BY <1>1, ViewAt DEF Built
  <1>2. CASE p \notin PendingPos(A)
    <2>1. View(A)[p] = A.entry[p] /\ A.entry[p] \in Val
      BY <1>2, ViewAt
    <2> QED BY <2>1 DEF Ready, Good, IsoOK, Live
  <1> QED BY <1>1, <1>2

\* What is written in the structure, where no tuple is pending, is what is wanted.
LEMMA ResultView ==
  ASSUME NEW D \in Matrices, NEW q, Asked(D, q), NEW V, Agreed(D, q, V),
         NEW p \in q.region, V[p] = IF D.entry[p] \in Val THEN D.entry[p] ELSE NoVal,
         D.iso # NotIso /\ V[p] # NoVal => V[p] = D.iso
  PROVE  Within1(V, q, p) = IF Result(D, q, p) = Absent THEN NoVal ELSE Result(D, q, p)
  <1>1. /\ p \in Pos /\ Given(q, p) \in Val \cup {Absent} /\ D.iso \in Val \cup {NotIso}
        /\ q.accum \in Ops /\ q.type \in Types /\ D.entry[p] \in Val \cup {Absent, Zombie}
    BY GivenType DEF Asked, Matrices
  <1> DEFINE old == IF D.entry[p] \in Val THEN D.entry[p] ELSE Absent
             new == Given(q, p)
             mask == MaskTrue(q, p)
  <1>2. /\ old \in Val \cup {Absent}
        /\ V[p] = IF old = Absent THEN NoVal ELSE old
        /\ V[p] = NoVal <=> old = Absent
    BY ValAssumption, CallsAssumption
  <1>3. Result(D, q, p)
          = CASE ~mask -> IF q.replace THEN Absent ELSE old
              [] mask /\ new = Absent -> IF q.accum = NoOp THEN Absent ELSE old
              [] OTHER -> IF D.iso # NotIso THEN D.iso
                          ELSE IF q.accum = NoOp \/ old = Absent THEN Cast(q.type, new)
                          ELSE Apply(q.accum, old, q.type, new)
    BY DEF Result
  <1>4. Within1(V, q, p)
          = CASE ~mask -> IF q.replace THEN NoVal ELSE V[p]
              [] mask /\ new = Absent -> IF q.accum = NoOp THEN NoVal ELSE V[p]
              [] OTHER -> IF q.accum = NoOp \/ V[p] = NoVal THEN Cast(q.type, new)
                          ELSE Apply(q.accum, V[p], q.type, new)
    BY DEF Within1
  <1>5. /\ new \in Val => Cast(q.type, new) \in Val
        /\ new \in Val /\ old \in Val => Apply(q.accum, old, q.type, new) \in Val
    BY <1>1, OpAssumption
  <1>6. mask /\ new \in Val /\ D.iso # NotIso =>
          /\ Cast(q.type, new) = D.iso
          /\ q.accum # NoOp /\ V[p] # NoVal =>
               Apply(q.accum, D.iso, q.type, new) = D.iso
    BY DEF Agreed
  <1>7. mask \in BOOLEAN /\ (new \in Val <=> new # Absent)
    BY <1>1, ValAssumption DEF MaskTrue
  <1> HIDE DEF old, new, mask
  <1>8. CASE ~mask
    BY <1>2, <1>3, <1>4, <1>8
  <1>9. CASE mask /\ new = Absent
    BY <1>2, <1>3, <1>4, <1>9
  <1>10. CASE mask /\ new # Absent /\ D.iso # NotIso
    <2>1. Result(D, q, p) = D.iso /\ D.iso # Absent
      BY <1>1, <1>3, <1>10, ValAssumption
    <2>2. Within1(V, q, p) = IF q.accum = NoOp \/ V[p] = NoVal THEN Cast(q.type, new)
                             ELSE Apply(q.accum, V[p], q.type, new)
      BY <1>4, <1>10
    <2> QED BY <1>6, <1>7, <1>10, <2>1, <2>2
  <1>11. CASE mask /\ new # Absent /\ D.iso = NotIso
    <2>1. Result(D, q, p) = IF q.accum = NoOp \/ old = Absent THEN Cast(q.type, new)
                            ELSE Apply(q.accum, old, q.type, new)
      BY <1>3, <1>11
    <2>2. Within1(V, q, p) = IF q.accum = NoOp \/ V[p] = NoVal THEN Cast(q.type, new)
                             ELSE Apply(q.accum, V[p], q.type, new)
      BY <1>4, <1>11
    <2>3. Result(D, q, p) # Absent
      BY <1>2, <1>5, <1>7, <1>11, <2>1, ValAssumption
    <2> QED BY <1>2, <2>1, <2>2, <2>3
  <1> QED BY <1>7, <1>8, <1>9, <1>10, <1>11

\* Where nothing is held, a value is inserted if one is given and not masked out.
LEMMA AbsentResult ==
  ASSUME NEW D \in Matrices, NEW q, Asked(D, q), NEW p \in q.region, D.entry[p] = Absent
  PROVE  Result(D, q, p) # Absent <=> MaskTrue(q, p) /\ Given(q, p) \in Val
  <1>1. /\ p \in Pos /\ Given(q, p) \in Val \cup {Absent} /\ D.iso \in Val \cup {NotIso}
        /\ q.type \in Types
    BY GivenType DEF Asked, Matrices
  <1>2. Given(q, p) \in Val => Cast(q.type, Given(q, p)) \in Val
    BY <1>1, OpAssumption
  <1>3. D.entry[p] \notin Val
    BY ValAssumption
  <1>4. Result(D, q, p)
          = CASE ~MaskTrue(q, p) -> Absent
              [] MaskTrue(q, p) /\ Given(q, p) = Absent -> Absent
              [] OTHER -> IF D.iso # NotIso THEN D.iso ELSE Cast(q.type, Given(q, p))
    BY <1>3 DEF Result
  <1>5. MaskTrue(q, p) \in BOOLEAN
    BY DEF MaskTrue
  <1> QED BY <1>1, <1>2, <1>4, <1>5, ValAssumption

\* Methods 01 to 20: entries, zombies and tuples together show what is wanted.
LEMMA UpdatedView ==
  ASSUME NEW A, Ready(A), ~A.jumbled, A.fmt # "bitmap", NEW q, Asked(A, q),
         A.fmt = "full" => ~q.replace /\ (q.accum # NoOp \/ Scalar(q)),
         Agreed(A, q, View(A))
  PROVE  View(UpdateEntries(A, q)) = Inner(View(A), q)
  <1> DEFINE S == Inserted(A, q)
             Z == UpdateEntries(A, q)
             V == View(A)
  <1>1. PICK B : /\ Rewrites(A, q, B)
                 /\ Z = IF S = {} THEN B ELSE InsertTuples(B, q, S)
                 /\ S \subseteq Pos
                 /\ \A p \in S : Given(q, p) \in Val
    BY UpdatedEntries
  <1>2. Ready(Z)
    BY ReadyUpdateEntries
  <1>3. /\ Ready(B) /\ Asked(B, q) /\ B.pend = A.pend /\ B.iso = A.iso
        /\ PendingPos(B) = PendingPos(A)
    BY <1>1, AskedSame DEF Rewrites, PendingPos
  <1>4. A \in Matrices /\ PendingDisjoint(A)
    BY DEF Ready, Good, WorkOK
  <1>5. \A p : p \in S <=> /\ p \in q.region /\ p \in Pos /\ A.entry[p] = Absent
                           /\ Result(A, q, p) # Absent
    BY DEF Inserted, Held, Asked
  <1>6. HasPending(B) /\ B.iso = NotIso => B.pend.op = q.accum /\ B.pend.type = q.type
    BY <1>3 DEF Agreed, HasPending
  <1> HIDE DEF S, Z
  <1>7. ASSUME NEW p \in Pos
        PROVE  /\ p \notin S => View(Z)[p] = View(B)[p]
               /\ p \in S /\ A.iso # NotIso => View(Z)[p] = A.iso
               /\ p \in S /\ A.iso = NotIso =>
                    View(Z)[p] = IF p \in PendingPos(A)
                                 THEN Apply(q.accum, View(B)[p], q.type, Given(q, p))
                                 ELSE Cast(q.type, Given(q, p))
    <2>1. CASE S = {}
      BY <1>1, <2>1
    <2>2. CASE S # {}
      BY <1>1, <1>2, <1>3, <1>6, <2>2, InsertedView
    <2> QED BY <2>1, <2>2
  <1>8. ASSUME NEW p \in Pos
        PROVE  /\ p \in PendingPos(A) =>
                    /\ View(B)[p] = V[p] /\ V[p] \in Val /\ V[p] # NoVal
                    /\ A.entry[p] = Absent /\ HasPending(A)
               /\ p \notin PendingPos(A) =>
                    /\ View(B)[p] = IF B.entry[p] \in Val THEN B.entry[p] ELSE NoVal
                    /\ V[p] = IF A.entry[p] \in Val THEN A.entry[p] ELSE NoVal
    <2>1. p \in PendingPos(A) => HasPending(A)
      BY DEF PendingPos, HasPending
    <2> QED BY <1>3, <1>4, <2>1, ViewAt, CallsAssumption DEF PendingDisjoint
  <1>9. \A p \in Pos : A.iso # NotIso /\ V[p] # NoVal => V[p] = A.iso
    BY IsoView
  <1>10. Agreed(A, q, V)
    OBVIOUS
  <1> HIDE DEF V
  <1>11. ASSUME NEW p \in Pos, p \notin q.region
         PROVE  View(Z)[p] = V[p]
    <2>1. p \notin S /\ B.entry[p] = A.entry[p]
      BY <1>1, <1>5, <1>11 DEF Rewrites
    <2> QED BY <1>7, <1>8, <2>1
  <1>12. ASSUME NEW p \in q.region
         PROVE  View(Z)[p] = Within1(V, q, p)
    <2>1. p \in Pos /\ q.accum \in Ops /\ q.type \in Types
          /\ Given(q, p) \in Val \cup {Absent} /\ MaskTrue(q, p) \in BOOLEAN
      BY GivenType DEF Asked, MaskTrue
    <2>2. /\ ~MaskTrue(q, p) => Within1(V, q, p) = IF q.replace THEN NoVal ELSE V[p]
          /\ MaskTrue(q, p) /\ Given(q, p) = Absent =>
               Within1(V, q, p) = IF q.accum = NoOp THEN NoVal ELSE V[p]
          /\ MaskTrue(q, p) /\ Given(q, p) \in Val =>
               Within1(V, q, p) = IF q.accum = NoOp \/ V[p] = NoVal THEN Cast(q.type, Given(q, p))
                                  ELSE Apply(q.accum, V[p], q.type, Given(q, p))
      BY <2>1, ValAssumption DEF Within1
    <2>3. A.entry[p] = Absent =>
            (p \in S <=> MaskTrue(q, p) /\ Given(q, p) \in Val)
      BY <1>4, <1>5, <2>1, AbsentResult
    <2>4. CASE p \in S
      <3>1. A.entry[p] = Absent /\ MaskTrue(q, p) /\ Given(q, p) \in Val
        BY <1>5, <2>3, <2>4
      <3>2. A.iso # NotIso =>
              /\ Cast(q.type, Given(q, p)) = A.iso
              /\ q.accum # NoOp /\ V[p] # NoVal =>
                   Apply(q.accum, A.iso, q.type, Given(q, p)) = A.iso
        BY <1>10, <3>1 DEF Agreed
      <3>3. CASE p \in PendingPos(A)
        <4>1. View(B)[p] = V[p] /\ V[p] \in Val /\ V[p] # NoVal
          BY <1>8, <2>1, <3>3
        <4>2. q.accum = NoOp => Apply(q.accum, V[p], q.type, Given(q, p))
                                  = Cast(q.type, Given(q, p))
          BY <2>1, <3>1, <4>1, SecondAssumption
        <4>3. CASE A.iso # NotIso
          BY <1>7, <1>9, <2>1, <2>2, <2>4, <3>1, <3>2, <4>1, <4>3
        <4>4. CASE A.iso = NotIso
          BY <1>7, <2>1, <2>2, <2>4, <3>1, <3>3, <4>1, <4>2, <4>4
        <4> QED BY <4>3, <4>4
      <3>4. CASE p \notin PendingPos(A)
        <4>1. V[p] = NoVal
          BY <1>8, <2>1, <3>1, <3>4, ValAssumption
        <4> QED BY <1>7, <2>1, <2>2, <2>4, <3>1, <3>2, <3>4, <4>1
      <3> QED BY <3>3, <3>4
    <2>5. CASE p \notin S /\ p \in PendingPos(A)
      <3>1. /\ View(Z)[p] = V[p] /\ A.entry[p] = Absent /\ HasPending(A)
            /\ ~(MaskTrue(q, p) /\ Given(q, p) \in Val)
        BY <1>7, <1>8, <2>1, <2>3, <2>5
      <3>2. ~q.replace /\ (q.accum # NoOp \/ Scalar(q) \/ q.A.fmt = "full")
        BY <1>10, <3>1 DEF Agreed
      <3>3. Scalar(q) \/ q.A.fmt = "full" => Given(q, p) \in Val
        <4>1. Scalar(q) => Given(q, p) \in Val
          BY DEF Given, Asked
        <4>2. ~Scalar(q) /\ q.A.fmt = "full" => Given(q, p) \in Val
          BY DEF Given, Asked, Scalar, Live
        <4> QED BY <4>1, <4>2
      <3> QED BY <2>1, <2>2, <3>1, <3>2, <3>3
    <2>6. CASE p \notin S /\ p \notin PendingPos(A)
      <3>1. V[p] = IF A.entry[p] \in Val THEN A.entry[p] ELSE NoVal
        BY <1>8, <2>1, <2>6
      <3>2. Within1(V, q, p) = IF Result(A, q, p) = Absent THEN NoVal ELSE Result(A, q, p)
        BY <1>4, <1>9, <1>10, <2>1, <3>1, ResultView
      <3>3. IF Result(A, q, p) = Absent THEN B.entry[p] \notin Val
            ELSE B.entry[p] = Result(A, q, p)
        BY <1>1, <2>1, <2>6 DEF Rewrites, S
      <3>4. Result(A, q, p) \in Val \cup {Absent}
        BY <1>4, <2>1, ResultType
      <3> QED BY <1>7, <1>8, <2>1, <2>6, <3>2, <3>3, <3>4
    <2> QED BY <2>4, <2>5, <2>6
  <1> DEFINE W == Inner(V, q)
  <1>13. W = [p \in Pos |-> W[p]] /\ \A p \in Pos : View(Z)[p] = W[p]
    BY <1>11, <1>12 DEF Inner
  <1> HIDE DEF W
  <1>14. View(Z) = W
    BY <1>2, <1>13, ViewIs
  <1> QED BY <1>14 DEF W, V, Z

-----------------------------------------------------------------------------
(* The contract of a part of an assignment that is to change the view to V *)

\* On success the user sees V; a part that runs out of memory may leave anything
\* behind.
Turns(A, V, r) ==
  /\ r \in Outcomes /\ r.info # "INVALID_INDEX"
  /\ r.m.vlen = A.vlen /\ r.m.vdim = A.vdim
  /\ r.info = "SUCCESS" => Ready(r.m) /\ View(r.m) = V

\* A function that shows V.
LEMMA TurnsShows ==
  ASSUME NEW A, NEW V, NEW r, Shows(A, V, r)
  PROVE  Turns(A, V, r)
  BY DEF Shows, Turns, Ready

\* One that succeeds, or has no memory for another matrix of the same size.
LEMMA TurnsDone ==
  ASSUME NEW A, NEW B, Ready(B), B.vlen = A.vlen, B.vdim = A.vdim, NEW V, View(B) = V,
         NEW D \in Matrices, D.vlen = A.vlen, D.vdim = A.vdim,
         NEW r, r \in Done(B) \/ r \in NoMemory(D)
  PROVE  Turns(A, V, r)
  BY DEF Turns, Done, NoMemory, Ready, Good, Outcomes

\* One part after another.
LEMMA TurnsStep ==
  ASSUME NEW A, NEW V, NEW W, NEW r, Turns(A, W, r), NEW S, NEW s \in Then(r, S),
         r.info = "SUCCESS" /\ s \in S => Turns(r.m, V, s)
  PROVE  Turns(A, V, s)
  <1>1. CASE r.info = "SUCCESS"
    <2>1. s \in S
      BY <1>1 DEF Then
    <2> QED BY <1>1, <2>1 DEF Turns
  <1>2. CASE r.info # "SUCCESS"
    BY <1>2 DEF Then, Turns
  <1> QED BY <1>1, <1>2

\* A failure frees the matrix.
LEMMA TurnsOnError ==
  ASSUME NEW A, NEW V, NEW r, Turns(A, V, r)
  PROVE  Turns(A, V, FreeOnError(r))
  <1>1. CASE r.info = "SUCCESS"
    BY <1>1 DEF FreeOnError
  <1>2. CASE r.info # "SUCCESS"
    <2> DEFINE F == PhybixFree(r.m)
    <2>1. FreeOnError(r) = [r EXCEPT !.m = F]
      BY <1>2 DEF FreeOnError
    <2>2. F \in Matrices /\ F.vlen = A.vlen /\ F.vdim = A.vdim
      BY GoodFreed DEF Turns, Outcomes, Good, Fits
    <2> HIDE DEF F
    <2> QED BY <1>2, <2>1, <2>2 DEF Turns, Outcomes
  <1> QED BY <1>1, <1>2

\* The iso value and the list are as they were, or there is no list any more.
LEMMA AgreedSame ==
  ASSUME NEW D, NEW q, NEW V, Agreed(D, q, V), NEW E, E.iso = D.iso,
         HasPending(E) => E.pend = D.pend
  PROVE  Agreed(E, q, V)
  BY DEF Agreed, HasPending

-----------------------------------------------------------------------------
(* Methods 01 to 20 *)

\* GB_UNJUMBLE is not seen.
LEMMA TurnsUnjumbled ==
  ASSUME NEW A, Ready(A), NEW r \in Unjumbled(A)
  PROVE  /\ Turns(A, View(A), r)
         /\ r.info = "SUCCESS" => /\ ~r.m.jumbled /\ r.m.iso = A.iso
                                  /\ HasPending(r.m) => r.m.pend = A.pend
  <1>1. Safe(A, Unjumbled(A)) /\ (r.info = "SUCCESS" => ~r.m.jumbled)
    BY SafeUnjumbled
  <1>2. A \in Matrices /\ Alike(A, A) /\ A.nzombies \in Nat /\ A.jumbled \in BOOLEAN
    BY AlikeSelf DEF Ready, Good, Matrices
  <1>3. CASE r \in Done(A)
    <2>1. Shows(A, View(A), r)
      BY <1>3, ShowsDone
    <2> QED BY <1>1, <1>3, <2>1, TurnsShows DEF Done
  <1>4. CASE r \in Wait(A)
    <2>1. Shows(A, View(A), r) /\ ~HasPending(r.m)
      BY <1>4, KeepingWait DEF Keeping, AnyPendingWork
    <2>2. r.info = "SUCCESS" => r.m.iso = A.iso
      BY <1>4, OldWait DEF OldHash, SameHash
    <2> QED BY <1>1, <2>1, <2>2, TurnsShows
  <1>5. CASE r \in Unjumble(A)
    <2>1. Retains(A, r)
      BY <1>2, <1>5, RetainsPrune
    <2>2. Shows(A, View(A), r)
      BY <1>1, <2>1, KeepingRetained
    <2> QED BY <1>1, <2>1, <2>2, TurnsShows DEF Retains, Alike
  <1> QED BY <1>2, <1>3, <1>4, <1>5 DEF Unjumbled

\* They leave its size.
LEMMA UpdatedSize ==
  ASSUME NEW A, Ready(A), ~A.jumbled, A.fmt # "bitmap", NEW q, Asked(A, q),
         A.fmt = "full" => ~q.replace /\ (q.accum # NoOp \/ Scalar(q))
  PROVE  UpdateEntries(A, q).vlen = A.vlen /\ UpdateEntries(A, q).vdim = A.vdim
  <1>1. PICK B : /\ Rewrites(A, q, B)
                 /\ UpdateEntries(A, q) = IF Inserted(A, q) = {} THEN B
                                          ELSE InsertTuples(B, q, Inserted(A, q))
    BY UpdatedEntries
  <1>2. B \in Matrices /\ B.vlen = A.vlen /\ B.vdim = A.vdim
    BY <1>1 DEF Rewrites, Ready, Good
  <1> DEFINE Z == InsertTuples(B, q, Inserted(A, q))
  <1>3. Z.vlen = B.vlen /\ Z.vdim = B.vdim
    BY <1>2, InsertedFields
  <1> HIDE DEF Z
  <1> QED BY <1>1, <1>2, <1>3 DEF Z

\* Nor is the hash.
LEMMA TurnsHash ==
  ASSUME NEW A, Ready(A), NEW r \in Done(A) \cup HyperHashBuild(A)
  PROVE  /\ Turns(A, View(A), r)
         /\ r.info = "SUCCESS" => /\ r.m.jumbled = A.jumbled /\ r.m.iso = A.iso
                                  /\ r.m.pend = A.pend /\ r.m.fmt = A.fmt
  <1> DEFINE D == [A EXCEPT !.Y = A.h]
             F == PhybixFree(A)
  <1>1. A \in Matrices /\ Alike(A, A)
    BY AlikeSelf DEF Ready, Good
  <1>2. r \in Done(A) \/ (HyperHashNeed(A) /\ r \in Done(D)) \/ r \in NoMemory(F)
    BY DEF HyperHashBuild
  <1>3. CASE r \in Done(A)
    BY <1>1, <1>3, TurnsDone DEF Done
  <1>4. CASE HyperHashNeed(A) /\ r \in Done(D)
    <2>1. Ready(D) /\ Fits(A, D)
      BY <1>1, <1>4, ReadyHashed DEF HyperHashNeed
    <2>2. Alike(A, D) /\ D.jumbled = A.jumbled /\ D.iso = A.iso /\ D.pend = A.pend
          /\ D.fmt = A.fmt
      BY <1>1, AlikeFields DEF Matrices
    <2> HIDE DEF D
    <2>3. View(D) = View(A)
      BY <1>1, <2>2, AlikeView
    <2> QED BY <1>1, <1>4, <2>1, <2>2, <2>3, TurnsDone DEF Fits, Done
  <1>5. CASE r \in NoMemory(F)
    <2>1. F \in Matrices /\ F.vlen = A.vlen /\ F.vdim = A.vdim
      BY <1>1, GoodFreed DEF Good, Fits
    <2> HIDE DEF F
    <2> QED BY <1>1, <1>5, <2>1, TurnsDone DEF NoMemory
  <1> QED BY <1>2, <1>3, <1>4, <1>5

\* Methods 01 to 20 make of the view what is asked for in C(I,J).
LEMMA TurnsUpdate ==
  ASSUME NEW A, Ready(A), A.fmt # "bitmap", NEW q, Asked(A, q),
         A.fmt = "full" => ~q.replace /\ (q.accum # NoOp \/ Scalar(q)),
         Agreed(A, q, View(A)), NEW r \in Update(A, q)
  PROVE  Turns(A, Inner(View(A), q), r)
  <1> DEFINE fits(B) == B.fmt = A.fmt \/ {B.fmt, A.fmt} \subseteq {"sparse", "hyper"}
             entries(B) == Done(UpdateEntries(B, q)) \cup NoMemory(B)
             update(B)  == IF fits(B) THEN Each(Done(B) \cup HyperHashBuild(B), entries)
                           ELSE {[m |-> B, info |-> "CRASH"]}
             V == Inner(View(A), q)
  <1>1. PICK x \in Unjumbled(A) : r \in Then(x, update(x.m))
    BY DEF Update, Each
  <1>2. /\ Turns(A, View(A), x)
        /\ x.info = "SUCCESS" => /\ ~x.m.jumbled /\ x.m.iso = A.iso
                                 /\ HasPending(x.m) => x.m.pend = A.pend
    BY <1>1, TurnsUnjumbled
  <1>3. ASSUME x.info = "SUCCESS", r \in update(x.m)
        PROVE  Turns(x.m, V, r)
    <2>1. CASE ~fits(x.m)
      <3>1. r = [m |-> x.m, info |-> "CRASH"]
        BY <1>3, <2>1
      <3> QED BY <1>2, <3>1 DEF Turns, Outcomes
    <2>2. CASE fits(x.m)
      <3>1. PICK y \in Done(x.m) \cup HyperHashBuild(x.m) : r \in Then(y, entries(y.m))
        BY <1>3, <2>2 DEF Each
      <3>2. Ready(x.m) /\ View(x.m) = View(A) /\ Asked(x.m, q)
        BY <1>2, <1>3, AskedSame DEF Turns
      <3>3. /\ Turns(x.m, View(A), y)
            /\ y.info = "SUCCESS" => /\ y.m.jumbled = x.m.jumbled /\ y.m.iso = x.m.iso
                                     /\ y.m.pend = x.m.pend /\ y.m.fmt = x.m.fmt
        BY <3>1, <3>2, TurnsHash
      <3>4. ASSUME y.info = "SUCCESS", r \in entries(y.m)
            PROVE  Turns(y.m, V, r)
        <4>1. Ready(y.m) /\ View(y.m) = View(A) /\ Asked(y.m, q) /\ ~y.m.jumbled
          BY <1>2, <1>3, <3>2, <3>3, <3>4, AskedSame DEF Turns
        <4>2. y.m.fmt # "bitmap" /\ (y.m.fmt = "full" => A.fmt = "full")
          BY <2>2, <3>3, <3>4
        <4>3. Agreed(y.m, q, View(A))
          BY <1>2, <1>3, <3>3, <3>4, AgreedSame DEF HasPending
        <4> DEFINE B == UpdateEntries(y.m, q)
        <4>4. View(B) = V
          BY <4>1, <4>2, <4>3, UpdatedView
        <4>5. Ready(B)
          BY <4>1, <4>2, ReadyUpdateEntries
        <4>6. B.vlen = y.m.vlen /\ B.vdim = y.m.vdim
          BY <4>1, <4>2, UpdatedSize
        <4>7. y.m \in Matrices /\ r \in Done(B) \cup NoMemory(y.m)
          BY <3>4, <4>1 DEF Ready, Good
        <4> HIDE DEF B, V
        <4> QED BY <4>4, <4>5, <4>6, <4>7, TurnsDone
      <3> HIDE DEF V, entries
      <3> QED BY <3>1, <3>3, <3>4, TurnsStep
    <2> QED BY <2>1, <2>2
  <1>4. Turns(A, V, r)
    <2> HIDE DEF V, update
    <2> QED BY <1>1, <1>2, <1>3, TurnsStep
  <1> QED BY <1>4

-----------------------------------------------------------------------------
(* The second phase of GrB_assign with replace *)

\* What is left of the view outside of C(I,J).
Outer(V, q) ==
  [p \in Pos |-> IF p \notin q.region /\ ~MaskTrue(q, p) THEN NoVal ELSE V[p]]

\* A wait for the tuples is not seen, and there are none afterwards.
LEMMA TurnsNoTuples ==
  ASSUME NEW A, Ready(A), NEW r \in WaitIf(HasPending(A), A)
  PROVE  /\ Turns(A, View(A), r)
         /\ r.info = "SUCCESS" => ~HasPending(r.m) /\ r.m.iso = A.iso
  <1>1. Shows(A, View(A), r)
    BY KeepingWaiters DEF Keeping
  <1>2. CASE HasPending(A)
    <2>1. r \in Wait(A)
      BY <1>2 DEF WaitIf
    <2>2. ~HasPending(r.m) /\ (r.info = "SUCCESS" => r.m.iso = A.iso)
      BY <2>1, KeepingWait, OldWait DEF AnyPendingWork, OldHash, SameHash
    <2> QED BY <1>1, <2>2, TurnsShows
  <1>3. CASE ~HasPending(A)
    <2>1. r.m = A
      BY <1>3 DEF WaitIf, Done
    <2> QED BY <1>1, <1>3, <2>1, TurnsShows
  <1> QED BY <1>2, <1>3

\* Nor is the conversion to sparse.
LEMMA TurnsNotDense ==
  ASSUME NEW A, Ready(A), NEW r \in NotDense(A)
  PROVE  /\ Turns(A, View(A), r)
         /\ r.info = "SUCCESS" => /\ r.m.fmt \in {"sparse", "hyper"}
                                  /\ r.m.pend = A.pend /\ r.m.iso = A.iso
  <1>1. A \in Matrices /\ Alike(A, A) /\ A.fmt \in Formats
    BY AlikeSelf DEF Ready, Good, Matrices
  <1>2. Retains(A, r)
    <2>1. CASE r \in AnyToSparse(A)
      BY <1>1, <2>1, RetainsAnyTo
    <2>2. CASE r \in Done(A)
      BY <1>1, <2>2, RetainsDone
    <2> QED BY <2>1, <2>2 DEF NotDense
  <1>3. Shows(A, View(A), r)
    BY <1>2, SafeNotDense, KeepingRetained
  <1> QED BY <1>2, <1>3, SafeNotDense, TurnsShows DEF Retains, Alike

\* The entries that become zombies are not seen any more.
LEMMA DeletedView ==
  ASSUME NEW A, Ready(A), ~HasPending(A), A.fmt \in {"sparse", "hyper"}, NEW q
  PROVE  View(DeleteOutside(A, q)) = Outer(View(A), q)
  <1> DEFINE B == DeleteOutside(A, q)
             doomed == {p \in Live(A) \ q.region : ~MaskTrue(q, p)}
  <1>1. A \in Matrices
    BY DEF Ready, Good
  <1>2. /\ B.entry = [p \in Pos |-> IF p \in doomed THEN Zombie ELSE A.entry[p]]
        /\ B.pend = A.pend
    BY <1>1 DEF DeleteOutside, Matrices
  <1>3. ~HasPending(B)
    BY <1>2 DEF HasPending
  <1>4. View(B) = Plain(B.entry) /\ View(A) = Plain(A.entry)
    BY <1>3, PlainView
  <1>5. \A p \in Pos : p \in doomed <=> A.entry[p] \in Val /\ p \notin q.region /\ ~MaskTrue(q, p)
    BY DEF Live
  <1> HIDE DEF B, doomed
  <1>6. \A p \in Pos : Plain(B.entry)[p] = Outer(Plain(A.entry), q)[p]
    BY <1>2, <1>5, ValAssumption DEF Plain, Outer
  <1>7. Plain(B.entry) = Outer(Plain(A.entry), q)
    BY <1>6 DEF Plain, Outer
  <1> QED BY <1>4, <1>7 DEF B

\* What the mask does not protect is deleted outside of C(I,J).
LEMMA TurnsReplaceOutside ==
  ASSUME NEW A, Ready(A), NEW q, NEW r \in ReplaceOutside(A, q)
  PROVE  Turns(A, Outer(View(A), q), r)
  <1> DEFINE V == Outer(View(A), q)
             delete(B) == Done(DeleteOutside(B, q))
  <1>1. PICK y \in Each(WaitIf(HasPending(A), A), NotDense) : r \in Then(y, delete(y.m))
    BY DEF ReplaceOutside, Each
  <1>2. PICK x \in WaitIf(HasPending(A), A) : y \in Then(x, NotDense(x.m))
    BY <1>1 DEF Each
  <1>3. Turns(A, View(A), x) /\ (x.info = "SUCCESS" => ~HasPending(x.m))
    BY <1>2, TurnsNoTuples
  <1>4. x.info = "SUCCESS" /\ y \in NotDense(x.m) =>
          /\ Turns(x.m, View(A), y)
          /\ y.info = "SUCCESS" => y.m.fmt \in {"sparse", "hyper"} /\ y.m.pend = x.m.pend
    BY <1>3, TurnsNotDense DEF Turns
  <1>5. Turns(A, View(A), y)
    BY <1>2, <1>3, <1>4, TurnsStep
  <1>6. y.info = "SUCCESS" => y.m.fmt \in {"sparse", "hyper"} /\ ~HasPending(y.m)
    BY <1>2, <1>3, <1>4 DEF Then, HasPending
  <1>7. ASSUME y.info = "SUCCESS", r \in delete(y.m)
        PROVE  Turns(y.m, V, r)
    <2>1. Ready(y.m) /\ View(y.m) = View(A) /\ y.m \in Matrices
      BY <1>5, <1>7 DEF Turns, Ready, Good
    <2> DEFINE B == DeleteOutside(y.m, q)
    <2>2. View(B) = V
      BY <1>6, <1>7, <2>1, DeletedView
    <2>3. Ready(B)
      BY <1>6, <1>7, <2>1, ReadyDeleteOutside
    <2>4. B.vlen = y.m.vlen /\ B.vdim = y.m.vdim
      BY <2>1 DEF DeleteOutside, Matrices
    <2>5. r \in Done(B)
      BY <1>7
    <2> HIDE DEF B, V
    <2> QED BY <2>1, <2>2, <2>3, <2>4, <2>5, TurnsDone
  <1>8. Turns(A, V, r)
    <2> HIDE DEF V, delete
    <2> QED BY <1>1, <1>5, <1>7, TurnsStep
  <1> QED BY <1>8

-----------------------------------------------------------------------------
(* Methods 21, 24, 05e, 25 and 26 *)

\* V is the view of a matrix of the size of A.
Clean(A, V) ==
  /\ V = [p \in Pos |-> V[p]]
  /\ \A p \in Pos : ~InRange(A, p) => V[p] = NoVal

\* A matrix without tuples shows V if its entries do.
LEMMA PlainShown ==
  ASSUME NEW B, ~HasPending(B), NEW V, V = [p \in Pos |-> V[p]],
         \A p \in Pos : V[p] = IF B.entry[p] \in Val THEN B.entry[p] ELSE NoVal
  PROVE  View(B) = V
  <1>1. Plain(B.entry) = [p \in Pos |-> V[p]]
    BY DEF Plain
  <1> QED BY <1>1, PlainView

\* What is wanted is a view.
LEMMA WantedForm ==
  ASSUME NEW V, NEW q
  PROVE  /\ Inner(V, q) = [p \in Pos |-> Inner(V, q)[p]]
         /\ Wanted(V, q) = [p \in Pos |-> Wanted(V, q)[p]]
  BY DEF Inner, Wanted

\* Without a mask nothing is protected.
LEMMA MaskOpen ==
  ASSUME NEW A, NEW q, Asked(A, q), NoMask(q), NEW p
  PROVE  MaskTrue(q, p)
  BY DEF MaskTrue, NoMask, Asked

\* C(:,:) = x or A: what there was does not matter.
LEMMA SplatWanted ==
  ASSUME NEW A, NEW q, Asked(A, q), Splat(q), NEW V, Clean(A, V)
  PROVE  /\ Inner(V, q) = Wanted(V, q)
         /\ \A p \in Pos :
              /\ p \in q.region <=> InRange(A, p)
              /\ Wanted(V, q)[p] = IF InRange(A, p) /\ Given(q, p) # Absent
                                   THEN Cast(q.type, Given(q, p)) ELSE NoVal
  <1>1. \A p \in Pos : MaskTrue(q, p)
    BY MaskOpen DEF Splat
  <1>2. Inner(V, q) = Wanted(V, q)
    BY <1>1 DEF Inner, Wanted
  <1>3. q.dims = <<A.vlen, A.vdim>> /\ q.accum = NoOp
    BY DEF Asked, Splat
  <1>4. \A p \in Pos : p \in q.region <=> InRange(A, p)
    BY <1>3 DEF Splat, Whole, InRange
  <1>5. ASSUME NEW p \in Pos
        PROVE  Wanted(V, q)[p] = IF InRange(A, p) /\ Given(q, p) # Absent
                                 THEN Cast(q.type, Given(q, p)) ELSE NoVal
    <2>1. CASE p \in q.region
      BY <1>1, <1>3, <1>4, <1>5, <2>1 DEF Wanted, Within1
    <2>2. CASE p \notin q.region
      BY <1>1, <1>4, <1>5, <2>2 DEF Wanted, Clean
    <2> QED BY <2>1, <2>2
  <1> QED BY <1>2, <1>4, <1>5

\* Method 21.
LEMMA SplattedView ==
  ASSUME NEW A, Loose(A), A.nzombies = 0, ~A.jumbled, A.iso \in Val,
         NEW q, Asked(A, q), Splat(q), Scalar(q), NEW V, Clean(A, V), Agreed(A, q, V)
  PROVE  LET B == Splatted(A)
         IN  /\ Ready(B) /\ View(B) = Wanted(V, q)
             /\ B.vlen = A.vlen /\ B.vdim = A.vdim
  <1> DEFINE B == Splatted(A)
  <1>1. Ready(B) /\ ~HasPending(B)
    BY ReadySplatted
  <1>2. /\ \A p \in Pos : B.entry[p] = IF InRange(A, p) THEN A.iso ELSE Absent
        /\ B.vlen = A.vlen /\ B.vdim = A.vdim
    BY DEF Splatted, AnyToFull, Loose, Matrices
  <1>3. A.iso # NotIso /\ q.s \in Val /\ q.s # Absent
    BY ValAssumption DEF Asked
  <1> HIDE DEF B
  <1>4. \A p \in Pos : Wanted(V, q)[p] = IF InRange(A, p) THEN A.iso ELSE NoVal
    <2>1. \A p \in Pos : InRange(A, p) => Cast(q.type, q.s) = A.iso
      <3>1. \A p \in Pos : Given(q, p) = q.s /\ MaskTrue(q, p)
        BY MaskOpen DEF Given, Splat
      <3> QED BY <1>3, <3>1, SplatWanted DEF Agreed
    <2> QED BY <1>3, <2>1, SplatWanted DEF Given
  <1>5. View(B) = Wanted(V, q)
    BY <1>1, <1>2, <1>4, WantedForm, PlainShown, ValAssumption
  <1> QED BY <1>1, <1>2, <1>5 DEF B

\* Method 24.
LEMMA CopiedView ==
  ASSUME NEW A, Loose(A), NEW q, Asked(A, q), Splat(q), ~Scalar(q), NEW V, Clean(A, V)
  PROVE  LET B == CopyMatrix(A, q)
         IN  /\ Ready(B) /\ View(B) = Wanted(V, q)
             /\ B.vlen = A.vlen /\ B.vdim = A.vdim
  <1> DEFINE B == CopyMatrix(A, q)
             values == CastValues(q, q.A.entry)
  <1>1. Ready(B) /\ ~HasPending(B) /\ A \in Matrices
    BY ReadyCopyMatrix DEF Splat, Loose
  <1>2. q.A \in Matrices /\ q.A.vlen = A.vlen /\ q.A.vdim = A.vdim /\ Zombies(q.A) = {}
    BY AskedOperand DEF Scalar, Splat
  <1>3. B.entry = values /\ B.vlen = A.vlen /\ B.vdim = A.vdim
    BY <1>1, <1>2 DEF CopyMatrix, AnyToFull, Duplicate, Matrices
  <1>4. ASSUME NEW p \in Pos
        PROVE  Wanted(V, q)[p] = IF values[p] \in Val THEN values[p] ELSE NoVal
    <2>1. Given(q, p) = q.A.entry[p] /\ Given(q, p) \in Val \cup {Absent}
      BY GivenType DEF Given
    <2>2. q.type \in Types /\ (q.A.entry[p] \in Val => p \in q.region)
      BY DEF Asked, Scalar, Live
    <2>3. values[p] = IF q.A.entry[p] \in Val THEN Cast(q.type, q.A.entry[p]) ELSE q.A.entry[p]
      BY DEF CastValues
    <2>4. q.A.entry[p] \in Val => Cast(q.type, q.A.entry[p]) \in Val
      BY <2>2, OpAssumption
    <2> HIDE DEF values
    <2> QED BY <2>1, <2>2, <2>3, <2>4, SplatWanted, ValAssumption
  <1> HIDE DEF B, values
  <1>5. View(B) = Wanted(V, q)
    BY <1>1, <1>3, <1>4, WantedForm, PlainShown
  <1> QED BY <1>1, <1>3, <1>5 DEF B

\* C is empty, the mask is structural, and what it does not protect is all there
\* will be in C.
Masking(q, V) ==
  /\ q.M # NoMatrix /\ ~q.comp /\ q.struct /\ ~q.replace
  /\ Whole(q) /\ q.accum = NoOp /\ V = Cleared

\* The pattern of C is that of the mask.
LEMMA MaskedWanted ==
  ASSUME NEW A, NEW q, Asked(A, q), NEW V, Masking(q, V), NEW p \in Pos
  PROVE  Inner(V, q)[p] = IF q.M.entry[p] \in Val /\ Given(q, p) # Absent
                          THEN Cast(q.type, Given(q, p)) ELSE NoVal
  <1>1. MaskTrue(q, p) <=> q.M.entry[p] \in Val
    BY DEF MaskTrue, Masking, Asked
  <1>2. V[p] = NoVal /\ q.accum = NoOp /\ ~q.replace
    BY DEF Masking, Cleared
  <1>3. q.M.entry[p] \in Val => p \in q.region
    <2>1. q.dims = <<A.vlen, A.vdim>> /\ (p \in q.region <=> InRange(A, p))
      BY DEF Asked, Masking, Whole, InRange
    <2>2. q.M.vlen = A.vlen /\ q.M.vdim = A.vdim /\ StructureOK(q.M)
      BY AskedOperand DEF Masking
    <2>3. q.M.entry[p] \in Val => p \in Held(q.M)
      BY ValAssumption DEF Held
    <2> QED BY <2>1, <2>2, <2>3 DEF StructureOK, EntriesInRange, InRange
  <1>4. CASE p \in q.region
    BY <1>1, <1>2, <1>4 DEF Inner, Within1
  <1>5. CASE p \notin q.region
    BY <1>2, <1>3, <1>5 DEF Inner
  <1> QED BY <1>4, <1>5

\* Method 05e.
LEMMA PatternView ==
  ASSUME NEW A, NEW q, Asked(A, q), Scalar(q), NEW V, Masking(q, V)
  PROVE  LET B == CopyPattern(A, q)
         IN  /\ Ready(B) /\ View(B) = Inner(V, q)
             /\ B.vlen = A.vlen /\ B.vdim = A.vdim
  <1> DEFINE B == CopyPattern(A, q)
  <1>1. Ready(B) /\ ~HasPending(B)
    BY ReadyCopyPattern DEF Masking
  <1>2. q.M \in Matrices /\ q.M.vlen = A.vlen /\ q.M.vdim = A.vdim
    BY AskedOperand DEF Masking
  <1>3. /\ B.vlen = A.vlen /\ B.vdim = A.vdim
        /\ \A p \in Pos :
             B.entry[p] = IF q.M.entry[p] \in Val THEN Cast(q.type, q.s) ELSE Absent
    BY <1>2 DEF CopyPattern, Duplicate, Matrices
  <1>4. q.s \in Val /\ q.type \in Types /\ Cast(q.type, q.s) \in Val
    BY OpAssumption DEF Asked
  <1> HIDE DEF B
  <1>5. \A p \in Pos :
          Inner(V, q)[p] = IF B.entry[p] \in Val THEN B.entry[p] ELSE NoVal
    BY <1>3, <1>4, MaskedWanted, ValAssumption DEF Given
  <1>6. View(B) = Inner(V, q)
    BY <1>1, <1>5, WantedForm, PlainShown
  <1> QED BY <1>1, <1>3, <1>6 DEF B

\* Method 25: a zombie stands for an entry that A does not have.
LEMMA MaskedView ==
  ASSUME NEW A, NEW q, Asked(A, q), ~Scalar(q), q.M.fmt \notin {"bitmap", "full"},
         NEW V, Masking(q, V)
  PROVE  LET B == CopyMasked(A, q)
         IN  /\ Ready(B) /\ View(B) = Inner(V, q)
             /\ B.vlen = A.vlen /\ B.vdim = A.vdim
  <1> DEFINE B == CopyMasked(A, q)
  <1>1. Ready(B) /\ ~HasPending(B)
    BY ReadyCopyMasked DEF Masking
  <1>2. q.M \in Matrices /\ q.M.vlen = A.vlen /\ q.M.vdim = A.vdim
    BY AskedOperand DEF Masking
  <1>3. /\ B.vlen = A.vlen /\ B.vdim = A.vdim
        /\ \A p \in Pos :
             B.entry[p] = CASE q.M.entry[p] \notin Val -> Absent
                            [] q.M.entry[p] \in Val /\ Given(q, p) = Absent -> Zombie
                            [] OTHER -> Cast(q.type, Given(q, p))
    BY <1>2 DEF CopyMasked, Duplicate, Matrices
  <1> HIDE DEF B
  <1>4. ASSUME NEW p \in Pos
        PROVE  Inner(V, q)[p] = IF B.entry[p] \in Val THEN B.entry[p] ELSE NoVal
    <2>1. Given(q, p) \in Val \cup {Absent} /\ q.type \in Types
      BY GivenType DEF Asked
    <2>2. Given(q, p) # Absent => Cast(q.type, Given(q, p)) \in Val
      BY <2>1, OpAssumption
    <2>3. Inner(V, q)[p] = IF q.M.entry[p] \in Val /\ Given(q, p) # Absent
                           THEN Cast(q.type, Given(q, p)) ELSE NoVal
      BY MaskedWanted
    <2> QED BY <1>3, <2>2, <2>3, ValAssumption
  <1>5. View(B) = Inner(V, q)
    BY <1>1, <1>4, WantedForm, PlainShown
  <1> QED BY <1>1, <1>3, <1>5 DEF B

\* Method 26.
LEMMA AppendedView ==
  ASSUME NEW A, Ready(A), ~HasPending(A), A.Y = NoHash, NEW q, Asked(A, q), Appends(A, q)
  PROVE  LET B == Append26(A, q)
         IN  /\ Ready(B) /\ View(B) = Inner(View(A), q)
             /\ B.vlen = A.vlen /\ B.vdim = A.vdim
  <1> DEFINE B == Append26(A, q)
             vecs == {p[2] : p \in q.region}
             V == View(A)
  <1>1. Ready(B) /\ ~HasPending(B) /\ A \in Matrices
    BY ReadyAppend26 DEF Ready, Good
  <1>2. /\ B.vlen = A.vlen /\ B.vdim = A.vdim
        /\ \A p \in Pos : B.entry[p] = IF p[2] \in vecs THEN q.A.entry[p] ELSE A.entry[p]
    BY <1>1 DEF Append26, Matrices
  <1>3. /\ vecs \cap Nonempty(A) = {} /\ Held(q.A) \subseteq q.region
        /\ \A p \in q.region : p[2] \in vecs
    BY AppendedVectors
  <1>4. ~Scalar(q) /\ NoMask(q) /\ q.accum = NoOp /\ q.type = CType
    BY DEF Appends
  <1>5. \A p \in Pos : V[p] = IF A.entry[p] \in Val THEN A.entry[p] ELSE NoVal
    BY PlainView DEF Plain
  <1>6. \A p \in Pos : p[2] \in vecs => A.entry[p] = Absent
    BY <1>3 DEF Nonempty, Held
  <1>7. ASSUME NEW p \in Pos
        PROVE  Inner(V, q)[p] = IF B.entry[p] \in Val THEN B.entry[p] ELSE NoVal
    <2>1. Given(q, p) = q.A.entry[p] /\ Given(q, p) \in Val \cup {Absent}
      BY <1>4, GivenType DEF Given
    <2>2. CASE p \in q.region
      <3>1. MaskTrue(q, p)
        BY <1>4, MaskOpen
      <3>2. Inner(V, q)[p] = IF Given(q, p) = Absent THEN NoVal ELSE Cast(CType, Given(q, p))
        BY <1>4, <2>2, <3>1 DEF Inner, Within1
      <3>3. B.entry[p] = Given(q, p)
        BY <1>2, <1>3, <2>1, <2>2
      <3> QED BY <2>1, <3>2, <3>3, SecondAssumption, ValAssumption
    <2>3. CASE p \notin q.region
      <3>1. Inner(V, q)[p] = V[p]
        BY <2>3 DEF Inner
      <3>2. q.A.entry[p] = Absent
        BY <1>3, <2>3 DEF Held
      <3> QED BY <1>2, <1>5, <1>6, <3>1, <3>2, ValAssumption
    <2> QED BY <2>2, <2>3
  <1> HIDE DEF B
  <1>8. View(B) = Inner(V, q)
    <2> HIDE DEF V
    <2> QED BY <1>1, <1>7, WantedForm, PlainShown
  <1> QED BY <1>1, <1>2, <1>8 DEF B

-----------------------------------------------------------------------------
(* GB_bitmap_assign *)

\* The entries of a bitmap become what is wanted, in and outside of C(I,J).
LEMMA BitmapView ==
  ASSUME NEW A, Loose(A), A.fmt = "bitmap", NEW q, Asked(A, q), NEW V, Clean(A, V),
         Agreed(A, q, V), Splat(q) \/ (IsoOK(A) /\ View(A) = V)
  PROVE  LET B == BitmapEntries(A, q)
         IN  /\ Ready(B) /\ View(B) = Wanted(V, q)
             /\ B.vlen = A.vlen /\ B.vdim = A.vdim
  <1> DEFINE B == BitmapEntries(A, q)
             W == Wanted(V, q)
  <1>1. Ready(B) /\ ~HasPending(B) /\ A \in Matrices /\ ~HasPending(A)
    BY ReadyBitmapEntries DEF Loose
  <1>2. /\ B.vlen = A.vlen /\ B.vdim = A.vdim
        /\ \A p \in Pos :
             B.entry[p] = CASE p \in q.region -> Result(A, q, p)
                            [] p \notin q.region /\ q.kind = "assign" /\ q.replace
                                 /\ InRange(A, p) /\ ~MaskTrue(q, p) -> Absent
                            [] OTHER -> A.entry[p]
    BY <1>1 DEF BitmapEntries, Matrices
  <1> HIDE DEF B
  <1>3. \A p \in Pos : Result(A, q, p) \in Val \cup {Absent}
    BY <1>1, ResultType
  <1>4. ASSUME NEW p \in Pos
        PROVE  W[p] = IF B.entry[p] \in Val THEN B.entry[p] ELSE NoVal
    <2>1. CASE Splat(q)
      <3>1. /\ p \in q.region <=> InRange(A, p)
            /\ W[p] = IF InRange(A, p) /\ Given(q, p) # Absent
                      THEN Cast(q.type, Given(q, p)) ELSE NoVal
        BY <2>1, SplatWanted
      <3>2. MaskTrue(q, p) /\ q.accum = NoOp /\ q.type \in Types
        BY <2>1, MaskOpen DEF Splat, Asked
      <3>3. Given(q, p) \in Val \cup {Absent} /\ A.iso \in Val \cup {NotIso}
        BY <1>1, GivenType DEF Matrices
      <3>4. CASE p \in q.region
        <4>1. Given(q, p) # Absent => Cast(q.type, Given(q, p)) \in Val
          BY <3>2, <3>3, OpAssumption
        <4>2. A.iso # NotIso /\ Given(q, p) # Absent => Cast(q.type, Given(q, p)) = A.iso
          BY <3>2, <3>3, <3>4 DEF Agreed
        <4>3. B.entry[p] = IF Given(q, p) = Absent THEN Absent
                           ELSE IF A.iso # NotIso THEN A.iso ELSE Cast(q.type, Given(q, p))
          BY <1>2, <3>2, <3>4 DEF Result
        <4> HIDE DEF W
        <4> QED BY <3>1, <3>4, <4>1, <4>2, <4>3, ValAssumption
      <3>5. CASE p \notin q.region
        <4>1. A.entry[p] = Absent
          BY <3>1, <3>5 DEF Loose, StructureOK, EntriesInRange, Held
        <4>2. B.entry[p] = Absent
          BY <1>2, <3>5, <4>1
        <4> HIDE DEF W
        <4> QED BY <3>1, <3>5, <4>2, ValAssumption
      <3> QED BY <3>4, <3>5
    <2>2. CASE ~Splat(q)
      <3>1. V[p] = IF A.entry[p] \in Val THEN A.entry[p] ELSE NoVal
        BY <1>1, <2>2, PlainView DEF Plain
      <3>2. CASE p \in q.region
        <4>1. Ready(A)
          BY <2>2 DEF Loose, Ready, Good
        <4>2. A.iso # NotIso /\ V[p] # NoVal => V[p] = A.iso
          BY <2>2, <4>1, IsoView
        <4>3. W[p] = IF Result(A, q, p) = Absent THEN NoVal ELSE Result(A, q, p)
          BY <1>1, <3>1, <3>2, <4>2, ResultView DEF Wanted
        <4>4. B.entry[p] = Result(A, q, p)
          BY <1>2, <3>2
        <4> HIDE DEF W
        <4> QED BY <1>3, <4>3, <4>4, ValAssumption
      <3>3. CASE p \notin q.region
        <4>1. ~InRange(A, p) => V[p] = NoVal
          BY DEF Clean
        <4>2. W[p] = IF q.kind = "assign" /\ q.replace /\ ~MaskTrue(q, p) THEN NoVal ELSE V[p]
          BY <3>3 DEF Wanted
        <4> HIDE DEF W
        <4>3. CASE q.kind = "assign" /\ q.replace /\ InRange(A, p) /\ ~MaskTrue(q, p)
          BY <1>2, <3>3, <4>2, <4>3, ValAssumption
        <4>4. CASE ~(q.kind = "assign" /\ q.replace /\ InRange(A, p) /\ ~MaskTrue(q, p))
          <5>1. B.entry[p] = A.entry[p]
            BY <1>2, <3>3, <4>4
          <5> QED BY <3>1, <4>1, <4>2, <4>4, <5>1
        <4> QED BY <4>3, <4>4
      <3> QED BY <3>2, <3>3
    <2> QED BY <2>1, <2>2
  <1>5. View(B) = W
    BY <1>1, <1>4, WantedForm, PlainShown
  <1> QED BY <1>1, <1>2, <1>5 DEF B

\* What GB_bitmap_assign makes of a bitmap.
BitmapResult(B, q) ==
  IF Splat(q) /\ Scalar(q) THEN Splatted(B)
  ELSE IF /\ Splat(q) /\ ~Scalar(q)
          /\ q.A.fmt \in {"sparse", "hyper"} \cap SparsityControl(B)
  THEN CopyMatrix(B, q)
  ELSE BitmapEntries(B, q)

\* One of three methods does it.
LEMMA BitmapResultView ==
  ASSUME NEW A, Loose(A), A.fmt = "bitmap", NEW q, Asked(A, q), NEW V, Clean(A, V),
         Agreed(A, q, V), Splat(q) \/ (IsoOK(A) /\ View(A) = V),
         Splat(q) /\ Scalar(q) => A.iso \in Val
  PROVE  LET B == BitmapResult(A, q)
         IN  /\ Ready(B) /\ View(B) = Wanted(V, q)
             /\ B.vlen = A.vlen /\ B.vdim = A.vdim
  <1>1. A.nzombies = 0 /\ ~A.jumbled
    BY DEF Loose, WorkOK, DenseSettled, AnyPendingWork, Matrices
  <1>2. CASE Splat(q) /\ Scalar(q)
    BY <1>1, <1>2, SplattedView DEF BitmapResult
  <1>3. CASE Splat(q) /\ ~Scalar(q) /\ q.A.fmt \in {"sparse", "hyper"} \cap SparsityControl(A)
    BY <1>3, CopiedView DEF BitmapResult
  <1>4. CASE /\ ~(Splat(q) /\ Scalar(q))
             /\ ~(Splat(q) /\ ~Scalar(q) /\ q.A.fmt \in {"sparse", "hyper"} \cap SparsityControl(A))
    BY <1>4, BitmapView DEF BitmapResult
  <1> QED BY <1>2, <1>3, <1>4

\* GB_bitmap_assign does all that is wanted, or frees C.
LEMMA TurnsBitmap ==
  ASSUME NEW D, NEW q, ForBitmap(D, q), NEW V, Clean(D, V), Agreed(D, q, V),
         ~Splat(q) => View(D) = V, NEW r \in BitmapAssign(D, q)
  PROVE  Turns(D, Wanted(V, q), r)
  <1> DEFINE assign(B) == Done(BitmapResult(B, q))
             W == Wanted(V, q)
  <1>1. Asked(D, q) /\ Loose(D) /\ D \in Matrices
    BY DEF ForBitmap, Loose
  <1>2. PICK z \in Each(AnyToBitmap(D), assign) \cup NoMemory(D) : r = FreeOnError(z)
    BY DEF BitmapAssign, BitmapResult
  <1>3. SUFFICES Turns(D, W, z)
    BY <1>2, TurnsOnError
  <1>4. CASE z \in NoMemory(D)
    BY <1>1, <1>4 DEF NoMemory, Turns, Outcomes
  <1>5. ASSUME NEW y \in AnyToBitmap(D), z \in Then(y, assign(y.m))
        PROVE  Turns(D, W, z)
    <2>1. CASE D.fmt = "bitmap"
      <3> DEFINE B == BitmapResult(D, q)
      <3>1. y = [m |-> D, info |-> "SUCCESS"]
        BY <1>5, <2>1 DEF AnyToBitmap, Done
      <3>2. z \in Done(B)
        BY <1>5, <3>1 DEF Then
      <3>3. Ready(B) /\ View(B) = W /\ B.vlen = D.vlen /\ B.vdim = D.vdim
        BY <1>1, <2>1, BitmapResultView DEF ForBitmap
      <3> HIDE DEF B, W
      <3> QED BY <1>1, <3>2, <3>3, TurnsDone
    <2>2. CASE D.fmt # "bitmap"
      <3>1. Ready(D) /\ ~HasPending(D) /\ ~Splat(q) /\ View(D) = V
        BY <1>1, <2>2 DEF ForBitmap, Loose, Ready, Good
      <3>2. Alike(D, D) /\ D.fmt \in Formats
        BY <1>1, AlikeSelf DEF Matrices
      <3>3. Retains(D, y)
        BY <1>5, <3>2, RetainsAnyTo
      <3>4. Shows(D, V, y)
        BY <1>5, <3>1, <3>3, SafeAnyToBitmap, KeepingRetained
      <3>5. Turns(D, V, y) /\ (y.info = "SUCCESS" => y.m.fmt = "bitmap")
        BY <1>1, <1>5, <3>4, ToBitmapFormat, TurnsShows
      <3>6. ASSUME y.info = "SUCCESS", z \in assign(y.m)
            PROVE  Turns(y.m, W, z)
        <4> DEFINE A == y.m
                   B == BitmapResult(A, q)
        <4>1. /\ Ready(A) /\ View(A) = V /\ A.fmt = "bitmap" /\ A.iso = D.iso
              /\ A.pend = D.pend /\ A.vlen = D.vlen /\ A.vdim = D.vdim
          BY <3>3, <3>5, <3>6 DEF Turns, Retains, Alike
        <4> HIDE DEF A
        <4>2. ~HasPending(A) /\ Loose(A) /\ IsoOK(A) /\ A \in Matrices
          BY <3>1, <4>1 DEF HasPending, Loose, Ready, Good
        <4>3. Asked(A, q) /\ Clean(A, V) /\ Agreed(A, q, V)
          BY <1>1, <4>1, AskedSame, AgreedSame DEF Clean, InRange
        <4>4. Ready(B) /\ View(B) = W /\ B.vlen = A.vlen /\ B.vdim = A.vdim
          BY <3>1, <4>1, <4>2, <4>3, BitmapResultView
        <4>5. z \in Done(B)
          BY <3>6 DEF A
        <4> HIDE DEF B, W
        <4>6. Turns(A, W, z)
          BY <4>2, <4>4, <4>5, TurnsDone
        <4> QED BY <4>6 DEF A
      <3> HIDE DEF W, assign
      <3> QED BY <1>5, <3>5, <3>6, TurnsStep
    <2> QED BY <2>1, <2>2
  <1> QED BY <1>4, <1>5 DEF Each

-----------------------------------------------------------------------------
(* GB_subassigner *)

\* What the user is meant to see in D, which may already have its new iso value,
\* is V.
Meant(D, q, m, V) ==
  /\ Clean(D, V) /\ Agreed(D, q, V)
  /\ ~Splat(q) => View(D) = V
  /\ m \in {"05e", "25"} => Masking(q, V)
  /\ m = "05e" => Scalar(q)

\* A matrix of the same size.
LEMMA TurnsSize ==
  ASSUME NEW A, NEW B, B.vlen = A.vlen, B.vdim = A.vdim, NEW V, NEW r, Turns(B, V, r)
  PROVE  Turns(A, V, r)
  BY DEF Turns

\* Sorting the vectors does not change what is meant.
LEMMA MeantUnjumbled ==
  ASSUME NEW D, NEW q, NEW m, Fed(D, q, m), D.nzombies = 0, NEW V, Meant(D, q, m, V),
         NEW r \in Unjumbled(D)
  PROVE  /\ r.info \in {"SUCCESS", "OUT_OF_MEMORY"}
         /\ r.m.vlen = D.vlen /\ r.m.vdim = D.vdim /\ Meant(r.m, q, m, V)
  <1>1. D \in Matrices /\ Alike(D, D)
    BY AlikeSelf DEF Fed
  <1>2. r \in Done(D) \/ r \in Unjumble(D)
    BY DEF Unjumbled
  <1>3. Retains(D, r)
    BY <1>1, <1>2, RetainsDone, RetainsPrune
  <1>4. /\ r.m.vlen = D.vlen /\ r.m.vdim = D.vdim /\ r.m.iso = D.iso /\ r.m.pend = D.pend
        /\ View(r.m) = View(D) /\ r.info \in {"SUCCESS", "OUT_OF_MEMORY"}
    BY <1>3, AlikeView DEF Retains, Alike
  <1>5. Clean(r.m, V) /\ Agreed(r.m, q, V)
    BY <1>4, AgreedSame DEF Meant, Clean, InRange
  <1> QED BY <1>4, <1>5 DEF Meant

\* What a method that GB_bitmap_assign does not do makes of C.
LEMMA TurnsMethod ==
  ASSUME NEW D, NEW q, NEW m, Fed(D, q, m), ~ByBitmap(D, q, m), NEW V, Meant(D, q, m, V),
         NEW D0 \in Matrices, D0.vlen = D.vlen, D0.vdim = D.vdim, NEW z,
         \/ m = "21" /\ z \in Done(Splatted(D))
         \/ m = "24" /\ z \in Done(CopyMatrix(D, q)) \cup NoMemory(D0)
         \/ m = "05e" /\ z \in Done(CopyPattern(D, q)) \cup NoMemory(D0)
         \/ m = "25" /\ z \in Done(CopyMasked(D, q)) \cup NoMemory(D0)
         \/ m = "26" /\ z \in Done(Append26(D, q)) \cup NoMemory(D0)
         \/ m = "update" /\ z \in Update(D, q)
  PROVE  Turns(D, Inner(V, q), z)
  <1>1. Asked(D, q) /\ D \in Matrices /\ Clean(D, V) /\ Agreed(D, q, V)
    BY DEF Fed, Meant
  <1>2. m # "update" => Loose(D)
    BY DEF Fed, Loose
  <1>3. m \notin {"21", "24"} => Ready(D) /\ View(D) = V
    BY DEF Fed, Meant, Ready, Good
  <1> DEFINE W == Inner(V, q)
  <1>4. ASSUME NEW B, Ready(B), View(B) = W, B.vlen = D.vlen, B.vdim = D.vdim,
               z \in Done(B) \/ z \in NoMemory(D0)
        PROVE  Turns(D, W, z)
    <2> HIDE DEF W
    <2> QED BY <1>4, TurnsDone
  <1>5. CASE m = "21"
    <2> DEFINE B == Splatted(D)
    <2>1. Ready(B) /\ View(B) = Wanted(V, q) /\ B.vlen = D.vlen /\ B.vdim = D.vdim
      BY <1>1, <1>2, <1>5, SplattedView DEF Fed
    <2>2. W = Wanted(V, q)
      BY <1>1, <1>5, SplatWanted DEF Fed
    <2> HIDE DEF B, W
    <2>3. z \in Done(B)
      BY <1>5 DEF B
    <2>4. Turns(D, W, z)
      BY <1>4, <2>1, <2>2, <2>3
    <2> QED BY <2>4 DEF W
  <1>6. CASE m = "24"
    <2> DEFINE B == CopyMatrix(D, q)
    <2>1. Ready(B) /\ View(B) = Wanted(V, q) /\ B.vlen = D.vlen /\ B.vdim = D.vdim
      BY <1>1, <1>2, <1>6, CopiedView DEF Fed
    <2>2. W = Wanted(V, q)
      BY <1>1, <1>6, SplatWanted DEF Fed
    <2> HIDE DEF B, W
    <2>3. z \in Done(B) \/ z \in NoMemory(D0)
      BY <1>6 DEF B
    <2>4. Turns(D, W, z)
      BY <1>4, <2>1, <2>2, <2>3
    <2> QED BY <2>4 DEF W
  <1>7. CASE m = "05e"
    <2> DEFINE B == CopyPattern(D, q)
    <2>1. Ready(B) /\ View(B) = W /\ B.vlen = D.vlen /\ B.vdim = D.vdim
      BY <1>1, <1>7, PatternView DEF Meant
    <2> HIDE DEF B, W
    <2>2. z \in Done(B) \/ z \in NoMemory(D0)
      BY <1>7 DEF B
    <2>3. Turns(D, W, z)
      BY <1>4, <2>1, <2>2
    <2> QED BY <2>3 DEF W
  <1>8. CASE m = "25"
    <2> DEFINE B == CopyMasked(D, q)
    <2>1. Ready(B) /\ View(B) = W /\ B.vlen = D.vlen /\ B.vdim = D.vdim
      BY <1>1, <1>8, MaskedView DEF Meant, Fed, ByBitmap
    <2> HIDE DEF B, W
    <2>2. z \in Done(B) \/ z \in NoMemory(D0)
      BY <1>8 DEF B
    <2>3. Turns(D, W, z)
      BY <1>4, <2>1, <2>2
    <2> QED BY <2>3 DEF W
  <1>9. CASE m = "26"
    <2> DEFINE B == Append26(D, q)
    <2>1. Ready(B) /\ View(B) = W /\ B.vlen = D.vlen /\ B.vdim = D.vdim
      BY <1>1, <1>3, <1>9, AppendedView DEF Fed
    <2> HIDE DEF B, W
    <2>2. z \in Done(B) \/ z \in NoMemory(D0)
      BY <1>9 DEF B
    <2>3. Turns(D, W, z)
      BY <1>4, <2>1, <2>2
    <2> QED BY <2>3 DEF W
  <1>10. CASE m = "update"
    <2>1. /\ D.fmt # "bitmap"
          /\ D.fmt = "full" => ~q.replace /\ (q.accum # NoOp \/ Scalar(q))
      BY <1>10 DEF ByBitmap
    <2> QED BY <1>1, <1>3, <1>10, <2>1, TurnsUpdate
  <1> QED BY <1>5, <1>6, <1>7, <1>8, <1>9, <1>10

\* GB_subassigner does what is asked for in C(I,J).
LEMMA TurnsSubassigner ==
  ASSUME NEW D, NEW q, NEW m, Fed(D, q, m), NEW V, Meant(D, q, m, V),
         ~(q.kind = "assign" /\ ByBitmap(D, q, m)), NEW r \in Subassigner(D, q, m)
  PROVE  Turns(D, Inner(V, q), r)
  <1> DEFINE settled == IsDense(D) /\ ~HasPending(D) /\ D.nzombies = 0 /\ D.fmt # "bitmap"
             apply(B) ==
               CASE ByBitmap(D, q, m) -> BitmapAssign(B, q)
                 [] ~ByBitmap(D, q, m) /\ m = "21"  -> Done(Splatted(B))
                 [] ~ByBitmap(D, q, m) /\ m = "24"  -> Done(CopyMatrix(B, q)) \cup NoMemory(D)
                 [] ~ByBitmap(D, q, m) /\ m = "05e" -> Done(CopyPattern(B, q)) \cup NoMemory(D)
                 [] ~ByBitmap(D, q, m) /\ m = "25"  -> Done(CopyMasked(B, q)) \cup NoMemory(D)
                 [] ~ByBitmap(D, q, m) /\ m = "26"  -> Done(Append26(B, q)) \cup NoMemory(D)
                 [] ~ByBitmap(D, q, m) /\ m = "update" -> Update(B, q)
             start == IF settled THEN Unjumbled(D) ELSE Done(D)
             applied == Each(start, apply)
             W == Inner(V, q)
  <1>1. PICK y \in {FreeOnError(z) : z \in applied} : r \in Then(y, Block(y.m))
    BY DEF Subassigner, Each
  <1>2. PICK z \in applied : y = FreeOnError(z)
    BY <1>1
  <1>3. PICK x \in start : z \in Then(x, apply(x.m))
    BY <1>2 DEF Each
  <1>4. D \in Matrices /\ m \in Methods
    BY DEF Fed
  <1>5. /\ x \in Outcomes /\ x.m.vlen = D.vlen /\ x.m.vdim = D.vdim
        /\ x.info # "INVALID_INDEX"
        /\ x.info = "SUCCESS" => /\ Fed(x.m, q, m) /\ x.m.fmt = D.fmt
                                 /\ Meant(x.m, q, m, V)
    <2>1. CASE settled
      BY <1>3, <2>1, FedUnjumbled, MeantUnjumbled
    <2>2. CASE ~settled
      <3>1. x = [m |-> D, info |-> "SUCCESS"]
        BY <1>3, <2>2 DEF Done
      <3> QED BY <1>4, <3>1 DEF Outcomes
    <2> QED BY <2>1, <2>2
  <1>6. Turns(D, W, z)
    <2>1. CASE x.info # "SUCCESS"
      BY <1>3, <1>5, <2>1 DEF Then, Turns
    <2>2. CASE x.info = "SUCCESS"
      <3>1. z \in apply(x.m) /\ Fed(x.m, q, m) /\ Meant(x.m, q, m, V)
        BY <1>3, <1>5, <2>2 DEF Then
      <3>2. ByBitmap(x.m, q, m) = ByBitmap(D, q, m)
        BY <1>5, <2>2 DEF ByBitmap
      <3>3. CASE ByBitmap(D, q, m)
        <4>1. z \in BitmapAssign(x.m, q)
          BY <3>1, <3>3
        <4>2. ForBitmap(x.m, q)
          BY <3>1, <3>2, <3>3, FedForBitmap
        <4>3. Turns(x.m, Wanted(V, q), z)
          BY <3>1, <4>1, <4>2, TurnsBitmap DEF Meant
        <4>4. Wanted(V, q) = W
          BY <3>3 DEF Wanted, Inner
        <4> HIDE DEF W
        <4> QED BY <1>5, <4>3, <4>4, TurnsSize
      <3>4. CASE ~ByBitmap(D, q, m)
        <4>1. \/ m = "21" /\ z \in Done(Splatted(x.m))
              \/ m = "24" /\ z \in Done(CopyMatrix(x.m, q)) \cup NoMemory(D)
              \/ m = "05e" /\ z \in Done(CopyPattern(x.m, q)) \cup NoMemory(D)
              \/ m = "25" /\ z \in Done(CopyMasked(x.m, q)) \cup NoMemory(D)
              \/ m = "26" /\ z \in Done(Append26(x.m, q)) \cup NoMemory(D)
              \/ m = "update" /\ z \in Update(x.m, q)
          BY <1>4, <3>1, <3>4 DEF Methods
        <4> HIDE DEF apply
        <4>2. Turns(x.m, W, z)
          BY <1>4, <1>5, <3>1, <3>2, <3>4, <4>1, TurnsMethod
        <4> HIDE DEF W
        <4> QED BY <1>5, <4>2, TurnsSize
      <3> QED BY <3>3, <3>4
    <2> QED BY <2>1, <2>2
  <1> HIDE DEF W
  <1>7. Turns(D, W, y)
    BY <1>2, <1>6, TurnsOnError
  <1>8. ASSUME y.info = "SUCCESS", r \in Block(y.m)
        PROVE  Turns(y.m, W, r)
    <2>1. Ready(y.m) /\ View(y.m) = W
      BY <1>7, <1>8 DEF Turns
    <2>2. Shows(y.m, View(y.m), r)
      BY <1>8, <2>1, KeepingWaiters DEF Keeping
    <2> QED BY <2>1, <2>2, TurnsShows
  <1>9. Turns(D, W, r)
    BY <1>1, <1>7, <1>8, TurnsStep
  <1> QED BY <1>9 DEF W

\* Without a second phase there is nothing to delete outside of C(I,J).
LEMMA WantedInside ==
  ASSUME NEW A, NEW q, Asked(A, q), ~EmptyMask(q), NEW V, Clean(A, V),
         ~(q.kind = "assign" /\ q.M # NoMatrix /\ q.replace /\ ~Whole(q))
  PROVE  Wanted(V, q) = Inner(V, q)
  <1>1. ASSUME NEW p \in Pos, p \notin q.region, q.kind = "assign", q.replace, ~MaskTrue(q, p)
        PROVE  V[p] = NoVal
    <2>1. q.M # NoMatrix
      BY <1>1, MaskOpen DEF NoMask, EmptyMask
    <2>2. q.dims = <<A.vlen, A.vdim>> /\ Whole(q)
      BY <1>1, <2>1 DEF Asked
    <2>3. ~InRange(A, p)
      BY <1>1, <2>2 DEF Whole, InRange
    <2> QED BY <1>1, <2>3 DEF Clean
  <1>2. \A p \in Pos : Wanted(V, q)[p] = Inner(V, q)[p]
    BY <1>1 DEF Wanted, Inner
  <1> QED BY <1>2, WantedForm

\* GB_assign and GB_subassign do all that is wanted.
LEMMA TurnsAssignBody ==
  ASSUME NEW D, NEW q, NEW m, Fed(D, q, m), ~EmptyMask(q), NEW V, Meant(D, q, m, V),
         NEW r \in AssignBody(D, q, m)
  PROVE  Turns(D, Wanted(V, q), r)
  <1> DEFINE outside == q.kind = "assign" /\ q.M # NoMatrix /\ q.replace /\ ~Whole(q)
             bitmap  == /\ q.kind = "assign"
                        /\ ByBitmap(D, q, m) \/ (outside /\ D.fmt \in {"bitmap", "full"})
             inside  == IF bitmap THEN BitmapAssign(D, q) ELSE Subassigner(D, q, m)
             second(B) == ReplaceOutside(B, q)
             W == Wanted(V, q)
  <1>1. AssignBody(D, q, m) = IF outside /\ ~bitmap THEN Each(inside, second) ELSE inside
    BY DEF AssignBody
  <1>2. Asked(D, q) /\ Clean(D, V)
    BY DEF Fed, Meant
  <1>3. CASE bitmap
    <2>1. ForBitmap(D, q)
      BY <1>3, FedForBitmap
    <2>2. r \in BitmapAssign(D, q)
      BY <1>1, <1>3
    <2> QED BY <2>1, <2>2, TurnsBitmap DEF Meant
  <1>4. ASSUME NEW z \in Subassigner(D, q, m), ~bitmap
        PROVE  Turns(D, Inner(V, q), z)
    BY <1>4, TurnsSubassigner
  <1>5. CASE ~bitmap /\ ~outside
    <2>1. r \in Subassigner(D, q, m)
      BY <1>1, <1>5
    <2>2. W = Inner(V, q)
      BY <1>2, <1>5, WantedInside
    <2> QED BY <1>4, <1>5, <2>1, <2>2
  <1>6. CASE ~bitmap /\ outside
    <2>1. PICK z \in Subassigner(D, q, m) : r \in Then(z, second(z.m))
      BY <1>1, <1>6 DEF Each
    <2>2. Turns(D, Inner(V, q), z)
      BY <1>4, <1>6, <2>1
    <2>3. Outer(Inner(V, q), q) = W
      <3>1. q.kind = "assign" /\ q.replace
        BY <1>6
      <3>2. \A p \in Pos : Outer(Inner(V, q), q)[p] = W[p]
        BY <3>1 DEF Outer, Inner, Wanted
      <3>3. Outer(Inner(V, q), q) = [p \in Pos |-> Outer(Inner(V, q), q)[p]]
        BY DEF Outer
      <3> HIDE DEF W
      <3>4. W = [p \in Pos |-> W[p]]
        BY WantedForm DEF W
      <3> QED BY <3>2, <3>3, <3>4
    <2>4. ASSUME z.info = "SUCCESS", r \in second(z.m)
          PROVE  Turns(z.m, W, r)
      <3>1. Ready(z.m) /\ View(z.m) = Inner(V, q)
        BY <2>2, <2>4 DEF Turns
      <3>2. r \in ReplaceOutside(z.m, q)
        BY <2>4
      <3> HIDE DEF W
      <3> QED BY <2>3, <3>1, <3>2, TurnsReplaceOutside
    <2>5. Turns(D, W, r)
      <3> HIDE DEF W, second
      <3> QED BY <2>1, <2>2, <2>4, TurnsStep
    <2> QED BY <2>5
  <1> QED BY <1>3, <1>5, <1>6

-----------------------------------------------------------------------------
(* The iso value that C is given before the method *)

\* All values that are given are the one that is looked at.
LEMMA GivenValue ==
  ASSUME NEW D, NEW q, Asked(D, q), IsoGiven(q), NEW p \in Pos, Given(q, p) \in Val
  PROVE  Given(q, p) = ValueGiven(q)
  <1>1. CASE Scalar(q)
    BY <1>1 DEF Given, ValueGiven
  <1>2. CASE ~Scalar(q)
    <2>1. /\ IsoOK(q.A) /\ Cardinality(Held(q.A)) = Nnz(q.A)
          /\ Given(q, p) = q.A.entry[p] /\ p \in Live(q.A)
      BY <1>2, AskedOperand DEF Scalar, Given, Live
    <2>2. CASE q.A.iso # NotIso
      BY <1>2, <2>1, <2>2 DEF ValueGiven, IsoOK
    <2>3. CASE q.A.iso = NotIso
      <3>1. Nnz(q.A) = 1
        BY <1>2, <2>3 DEF IsoGiven
      <3>2. IsFiniteSet(Held(q.A)) /\ Cardinality(Held(q.A)) = 1
        BY <2>1, <3>1, HeldType, CountNat
      <3>3. PICK x : Held(q.A) = {x}
        BY <3>2, FS_Singleton
      <3>4. Live(q.A) \subseteq Held(q.A)
        BY ValAssumption DEF Live, Held
      <3>5. (CHOOSE i \in Live(q.A) : TRUE) = p
        BY <2>1, <3>3, <3>4
      <3> QED BY <1>2, <2>1, <2>3, <3>5 DEF ValueGiven
    <2> QED BY <2>2, <2>3
  <1> QED BY <1>1, <1>2

\* A list with the operator NULL builds what it does with SECOND.
LEMMA BuiltSecond ==
  ASSUME NEW A \in Matrices, IsoOK(A), A.iso = NotIso, NEW q, q.tup = A.pend.tup,
         q.type = A.pend.type, q.op = A.pend.op \/ (IsSecond(q.op) /\ IsSecond(A.pend.op)),
         NEW p \in PendingPos(A)
  PROVE  Built(q, NotIso, p) = Built(A.pend, NotIso, p)
  <1> DEFINE K == At(A.pend, p)
  <1>1. /\ A.pend.tup \in Seq(Tuples) /\ q.tup \in Seq(Tuples)
        /\ K # {} /\ At(q, p) = K /\ A.pend.type \in Types
    BY DEF Matrices, PendingLists, PendingPos, At
  <1>2. PICK v : Solves(A.pend, K, v)
    BY BuiltExists
  <1>3. Built(A.pend, NotIso, p) = v[Max(K)]
    BY <1>1, <1>2, BuiltIs
  <1>4. ASSUME NEW k \in K
        PROVE  After(q, K, v, k) = After(A.pend, K, v, k)
    <2>1. A.pend.tup[k].s \in Val
      <3>1. k \in DOMAIN A.pend.tup /\ A.pend.tup[k] \in Tuples /\ A.pend.tup[k].s # NoScalar
        BY <1>1 DEF IsoOK, At
      <3> QED BY <3>1 DEF Tuples
    <2>2. {l \in K : l < k} # {} => v[Max({l \in K : l < k})] \in Val
      <3> SUFFICES ASSUME {l \in K : l < k} # {} PROVE v[Max({l \in K : l < k})] \in Val
        OBVIOUS
      <3>1. Max({l \in K : l < k}) \in {l \in K : l < k}
        BY <1>1, AtBefore
      <3>2. v \in [K -> Val]
        BY <1>2 DEF Solves
      <3> HIDE DEF K
      <3> QED BY <3>1, <3>2
    <2> DEFINE before == {l \in K : l < k}
               x == v[Max(before)]
               s == A.pend.tup[k].s
    <2>3. before # {} => Apply(q.op, x, q.type, s) = Apply(A.pend.op, x, q.type, s)
      <3> SUFFICES ASSUME before # {}, q.op # A.pend.op
                   PROVE  Apply(q.op, x, q.type, s) = Apply(A.pend.op, x, q.type, s)
        OBVIOUS
      <3>1. x \in Val /\ s \in Val /\ q.type \in Types
        BY <1>1, <2>1, <2>2
      <3>2. q.op \in {NoOp, Second} /\ A.pend.op \in {NoOp, Second}
        BY DEF IsSecond
      <3> HIDE DEF x, s, before
      <3> QED BY <3>1, <3>2, SecondAssumption
    <2>4. /\ After(q, K, v, k) = IF before = {} THEN Cast(q.type, s)
                                 ELSE Apply(q.op, x, q.type, s)
          /\ After(A.pend, K, v, k) = IF before = {} THEN Cast(A.pend.type, s)
                                      ELSE Apply(A.pend.op, x, A.pend.type, s)
      BY DEF After
    <2> HIDE DEF x, s, before
    <2> QED BY <2>3, <2>4
  <1>5. Solves(q, K, v)
    <2> HIDE DEF K
    <2> QED BY <1>2, <1>4 DEF Solves
  <1>6. Built(q, NotIso, p) = v[Max(K)]
    BY <1>1, <1>5, BuiltIs
  <1> QED BY <1>3, <1>6

\* The operator that the tuples take is not seen.
LEMMA RependedView ==
  ASSUME NEW D, Usable(D), NEW op \in Ops, D.iso # NotIso /\ HasPending(D) => op = NoOp,
         D.iso = NotIso /\ HasPending(D) =>
           op = D.pend.op \/ (IsSecond(op) /\ IsSecond(D.pend.op)),
         NEW B, B = [D EXCEPT !.pend.op = op]
  PROVE  View(B) = View(D) /\ B.pend.type = D.pend.type
  <1>1. Usable(B) /\ SameShape(D, B) /\ B.iso = D.iso /\ B.pend.op = op /\ B.pend.tup = D.pend.tup
    BY UsableRepended
  <1>2. /\ D \in Matrices /\ Ready(D) /\ IsoOK(D) /\ Ready(B)
        /\ D.pend \in PendingLists /\ B.entry = D.entry
    BY <1>1 DEF Usable, Ready, Good, Matrices, SameShape
  <1>3. B.pend.type = D.pend.type
    BY <1>2 DEF Matrices, PendingLists
  <1>4. ASSUME NEW i \in PendingPos(D)
        PROVE  Built(B.pend, B.iso, i) = Built(D.pend, D.iso, i)
    <2>1. CASE D.iso # NotIso
      BY <1>1, <2>1 DEF Built
    <2>2. CASE D.iso = NotIso
      <3>1. HasPending(D)
        BY <1>2 DEF PendingPos, HasPending, Matrices, PendingLists
      <3> QED BY <1>1, <1>2, <1>3, <2>2, <3>1, BuiltSecond
    <2> QED BY <2>1, <2>2
  <1>5. \A i : At(B.pend, i) # {} <=> At(D.pend, i) # {}
    BY <1>1 DEF At
  <1> QED BY <1>2, <1>3, <1>4, <1>5, ViewRelisted

\* The iso value agrees with all values that are given, and with what is left of C.
LEMMA AgreedIso ==
  ASSUME NEW D, Ready(D), NEW q, Asked(D, q), ~MustWait(D, q), NEW E, E.iso = IsoAfter(D, q),
         HasPending(E) => /\ HasPending(D)
                          /\ E.iso = NotIso => E.pend.op = q.accum /\ E.pend.type = q.type
  PROVE  Agreed(E, q, View(D))
  <1>1. HasPending(E) => /\ ~q.replace /\ (q.accum # NoOp \/ Scalar(q) \/ q.A.fmt = "full")
                         /\ E.iso = NotIso => E.pend.op = q.accum /\ E.pend.type = q.type
    BY DEF MustWait
  <1>2. ASSUME E.iso # NotIso, NEW p \in q.region, MaskTrue(q, p), Given(q, p) \in Val
        PROVE  /\ Cast(q.type, Given(q, p)) = E.iso
               /\ q.accum # NoOp /\ View(D)[p] # NoVal =>
                    Apply(q.accum, E.iso, q.type, Given(q, p)) = E.iso
    <2> DEFINE x == ValueGiven(q)
               cout == Cast(q.type, x)
               m == Method(D, q)
    <2>1. /\ IsoGiven(q) /\ E.iso = cout /\ m # "26"
          /\ m = "update" => EmptyMatrix(D) \/ D.iso = cout
          /\ m = "update" /\ q.accum # NoOp =>
               D.iso # NotIso /\ (EmptyMatrix(D) \/ Apply(q.accum, D.iso, q.type, x) = cout)
      BY <1>2 DEF IsoAfter
    <2>2. p \in Pos
      BY DEF Asked
    <2>3. Given(q, p) = x
      BY <1>2, <2>1, <2>2, GivenValue
    <2>4. m = "update" \/ q.accum = NoOp
      <3>1. m \in Methods /\ (m \in {"21", "24"} => Splat(q)) /\ (m \in {"05e", "25"} => CopiesMask(D, q))
        BY MethodCases
      <3> HIDE DEF m
      <3> QED BY <2>1, <3>1 DEF Methods, Splat, CopiesMask
    <2>5. EmptyMatrix(D) => View(D)[p] = NoVal
      <3> SUFFICES ASSUME EmptyMatrix(D) PROVE View(D)[p] = NoVal
        OBVIOUS
      <3>1. Live(D) = {} /\ ~HasPending(D)
        BY EmptyHolds
      <3>2. p \notin PendingPos(D)
        BY <3>1, PlainView
      <3> QED BY <2>2, <3>1, <3>2, ViewAt DEF Live
    <2> HIDE DEF x, m
    <2> QED BY <2>1, <2>3, <2>4, <2>5
  <1> QED BY <1>1, <1>2 DEF Agreed

\* Nothing is seen of an empty matrix.
LEMMA EmptyView ==
  ASSUME NEW A, Ready(A), EmptyMatrix(A)
  PROVE  View(A) = Cleared
  <1>1. Live(A) = {} /\ ~HasPending(A)
    BY EmptyHolds
  <1>2. \A p \in Pos : A.entry[p] \notin Val
    BY <1>1 DEF Live
  <1>3. Plain(A.entry) = Cleared
    BY <1>2 DEF Plain, Cleared
  <1> QED BY <1>1, <1>3, PlainView

\* What the user sees is clean.
LEMMA ViewClean ==
  ASSUME NEW A, Ready(A), NEW B, B.vlen = A.vlen, B.vdim = A.vdim
  PROVE  Clean(B, View(A))
  <1>1. View(A) = [p \in Pos |-> View(A)[p]]
    BY DEF View
  <1>2. \A p \in Pos : ~InRange(B, p) => View(A)[p] = NoVal
    BY ViewInRange DEF InRange
  <1> QED BY <1>1, <1>2 DEF Clean

\* The iso value is not seen, or it is that of all that will be written.
LEMMA MeantWithIso ==
  ASSUME NEW D, Usable(D), NEW q, Asked(D, q), ~MustWait(D, q),
         Splat(q) => ~HasPending(D),
         Splat(q) /\ Scalar(q) => D.nzombies = 0 /\ ~D.jumbled,
         Appends(D, q) => D.Y = NoHash,
         NEW r \in WithIso(D, q)
  PROVE  /\ r \in Outcomes /\ r.info # "INVALID_INDEX"
         /\ r.m.vlen = D.vlen /\ r.m.vdim = D.vdim
         /\ r.info = "SUCCESS" => Meant(r.m, q, Method(D, q), View(D))
  <1> DEFINE iso == IsoAfter(D, q)
             op  == IF HasPending(D) /\ iso = NotIso THEN q.accum ELSE NoOp
             B   == [D EXCEPT !.pend.op = op]
             m   == Method(D, q)
             E   == [B EXCEPT !.iso = iso]
  <1>1. /\ D \in Matrices /\ Ready(D) /\ q.accum \in Ops /\ iso \in Val \cup {NotIso}
        /\ D.iso \in Val \cup {NotIso} /\ op \in Ops
    BY IsoAfterType, OpAssumption DEF Usable, Ready, Good, Asked, Matrices
  <1>2. /\ iso = NotIso => WithIso(D, q) = AnyToNonIso(B)
        /\ iso # NotIso /\ D.iso = NotIso => WithIso(D, q) = AnyToIso(B, iso)
        /\ iso # NotIso /\ D.iso # NotIso => WithIso(D, q) = Done(E)
    BY DEF WithIso
  <1>3. iso # NotIso => m # "26" /\ (m = "update" => EmptyMatrix(D) \/ D.iso = iso)
    BY IsoAfterKept
  <1>4. HasPending(D) => /\ D.iso # NotIso <=> iso # NotIso
                         /\ q.type = D.pend.type
                         /\ q.accum = D.pend.op \/ (IsSecond(q.accum) /\ IsSecond(D.pend.op))
    BY DEF MustWait, Compatible
  <1>5. D.iso # NotIso /\ HasPending(D) => op = NoOp
    BY <1>4
  <1>6. D.iso = NotIso /\ HasPending(D) =>
          op = q.accum /\ (op = D.pend.op \/ (IsSecond(op) /\ IsSecond(D.pend.op)))
    BY <1>4
  <1>7. iso # NotIso \/ D.iso # NotIso \/ ~HasPending(D) \/ op = q.accum
    BY <1>6
  <1> HIDE DEF op
  <1>8. /\ Usable(B) /\ SameShape(D, B) /\ B.iso = D.iso /\ B.pend.op = op
        /\ B.pend.tup = D.pend.tup
    BY <1>1, <1>5, UsableRepended
  <1>9. View(B) = View(D) /\ B.pend.type = D.pend.type
    BY <1>1, <1>5, <1>6, RependedView
  <1> HIDE DEF B, iso, m
  <1>10. /\ Ready(B) /\ B \in Matrices /\ B.vlen = D.vlen /\ B.vdim = D.vdim
         /\ HasPending(B) <=> HasPending(D)
    BY <1>8 DEF Usable, Ready, Good, SameShape, HasPending
  <1>11. r.info = "SUCCESS" => Fed(r.m, q, m)
    BY FedWithIso DEF m
  \* What is left to show of the outcome
  <1>12. ASSUME r \in Outcomes, r.info # "INVALID_INDEX", r.m.vlen = D.vlen, r.m.vdim = D.vdim,
                r.info = "SUCCESS" =>
                  /\ r.m.iso = iso
                  /\ ~Splat(q) => View(r.m) = View(D)
                  /\ HasPending(r.m) =>
                       /\ HasPending(D)
                       /\ r.m.iso = NotIso => r.m.pend.op = q.accum /\ r.m.pend.type = q.type
         PROVE  /\ r \in Outcomes /\ r.info # "INVALID_INDEX"
                /\ r.m.vlen = D.vlen /\ r.m.vdim = D.vdim
                /\ r.info = "SUCCESS" => Meant(r.m, q, Method(D, q), View(D))
    <2>1. r.info = "SUCCESS" => Agreed(r.m, q, View(D))
      BY <1>1, <1>12, AgreedIso DEF iso
    <2>2. Clean(r.m, View(D))
      BY <1>1, <1>12, ViewClean
    <2>3. m \in {"05e", "25"} => Masking(q, View(D))
      BY <1>1, MethodCases, EmptyView DEF m, CopiesMask, Masking
    <2>4. m = "05e" => Scalar(q)
      BY DEF m, Method
    <2> QED BY <1>12, <2>1, <2>2, <2>3, <2>4 DEF Meant, m
  <1>13. CASE iso = NotIso
    <2>1. r \in AnyToNonIso(B) /\ Shows(B, View(B), r)
      BY <1>2, <1>10, <1>13, KeepingNonIso DEF Keeping
    <2>2. r \in Outcomes /\ r.info # "INVALID_INDEX" /\ r.m.vlen = D.vlen /\ r.m.vdim = D.vdim
      BY <1>10, <2>1 DEF Shows
    <2>3. r.info = "SUCCESS" => r.m.iso = iso /\ View(r.m) = View(D) /\ SameShape(B, r.m)
      BY <1>9, <1>10, <1>13, <2>1, NonIsoShape DEF Shows
    <2>4. r.info = "SUCCESS" /\ HasPending(r.m) =>
            HasPending(D) /\ r.m.pend.op = q.accum /\ r.m.pend.type = q.type
      <3> SUFFICES ASSUME r.info = "SUCCESS", HasPending(r.m)
                   PROVE  HasPending(D) /\ r.m.pend.op = q.accum /\ r.m.pend.type = q.type
        OBVIOUS
      <3>1. HasPending(D) /\ D.iso = NotIso
        BY <1>4, <1>10, <1>13, <2>3 DEF SameShape
      <3>2. r.m = B
        BY <1>8, <2>1, <3>1, DoneResult DEF AnyToNonIso
      <3> QED BY <1>4, <1>6, <1>8, <1>9, <3>1, <3>2
    <2> QED BY <1>12, <2>2, <2>3, <2>4
  <1>14. CASE iso # NotIso
    <2>1. /\ E \in Matrices /\ E.iso = iso /\ E.entry = B.entry /\ E.pend = B.pend
          /\ E.vlen = B.vlen /\ E.vdim = B.vdim
      BY <1>1, <1>10 DEF Matrices
    <2> HIDE DEF E
    <2>2. r \in Done(E) \cup NoMemory(PhybixFree(B))
      BY <1>2, <1>14 DEF AnyToIso, E
    <2>3. CASE r \in NoMemory(PhybixFree(B))
      <3>1. Shows(D, View(D), r) /\ r.info # "SUCCESS"
        BY <1>10, <2>3, ShowsFreed DEF NoMemory
      <3> QED BY <1>12, <3>1 DEF Shows
    <2>4. CASE r \in Done(E)
      <3>1. r.m = E /\ r.info = "SUCCESS" /\ r \in Outcomes
        BY <2>1, <2>4 DEF Done, Outcomes
      <3>2. HasPending(E) <=> HasPending(D)
        BY <1>10, <2>1 DEF HasPending
      <3>3. ~Splat(q) => View(E) = View(D)
        <4> SUFFICES ASSUME ~Splat(q) PROVE View(E) = View(D)
          OBVIOUS
        <4>1. Ready(E)
          <5>1. m \notin {"21", "24"}
            BY MethodCases DEF m
          <5> QED BY <1>11, <3>1, <5>1 DEF Fed, Ready, Good, Orderly
        <4>2. CASE ~HasPending(D)
          BY <1>9, <1>10, <2>1, <3>2, <4>2, PlainView
        <4>3. CASE HasPending(D)
          <5>1. m = "update" /\ ~EmptyMatrix(D)
            BY <1>11, <3>1, <3>2, <4>3 DEF Fed, EmptyMatrix
          <5>2. E.iso = B.iso
            BY <1>3, <1>8, <1>14, <2>1, <5>1
          <5>3. View(E) = View(B)
            BY <1>10, <2>1, <4>1, <5>2, ViewRelisted
          <5> QED BY <1>9, <5>3
        <4> QED BY <4>2, <4>3
      <3> QED BY <1>10, <1>12, <1>14, <2>1, <3>1, <3>2, <3>3
    <2> QED BY <2>2, <2>3, <2>4
  <1> QED BY <1>13, <1>14

-----------------------------------------------------------------------------
(* GB_assign_prep *)

\* An assignment to all of C that leaves nothing of it does not depend on it.
LEMMA WantedAll ==
  ASSUME NEW A, NEW q, Asked(A, q), Whole(q), q.accum = NoOp, NoMask(q) \/ q.replace,
         NEW V, Clean(A, V), NEW W, Clean(A, W)
  PROVE  Wanted(V, q) = Wanted(W, q)
  <1>1. ASSUME NEW p \in Pos
        PROVE  Wanted(V, q)[p] = Wanted(W, q)[p]
    <2>1. CASE p \in q.region
      <3>1. ~MaskTrue(q, p) => q.replace
        BY MaskOpen
      <3>2. Within1(V, q, p) = Within1(W, q, p)
        BY <3>1 DEF Within1
      <3> QED BY <2>1, <3>2 DEF Wanted
    <2>2. CASE p \notin q.region
      <3>1. ~InRange(A, p)
        BY <2>2 DEF Asked, Whole, InRange
      <3>2. V[p] = NoVal /\ W[p] = NoVal
        BY <3>1 DEF Clean
      <3> QED BY <2>2, <3>2 DEF Wanted
    <2> QED BY <2>1, <2>2
  <1> QED BY <1>1, WantedForm

\* What C_replace is worth: nothing without a mask, or if C is empty.
LEMMA WantedEffective ==
  ASSUME NEW B, Ready(B), NEW q, Asked(B, q)
  PROVE  Wanted(View(B), Effective(B, q)) = Wanted(View(B), q)
  <1> DEFINE e == Effective(B, q)
             V == View(B)
  <1>1. /\ e.kind = q.kind /\ e.region = q.region /\ e.M = q.M
        /\ e.comp = q.comp /\ e.struct = q.struct /\ e.accum = q.accum
        /\ e.A = q.A /\ e.s = q.s /\ e.type = q.type
        /\ e.replace = (q.replace /\ ~NoMask(q) /\ ~EmptyMatrix(B))
    BY AskedEffective
  <1> HIDE DEF e
  <1>2. /\ \A p : MaskTrue(e, p) <=> MaskTrue(q, p)
        /\ \A p : Given(e, p) = Given(q, p)
    BY <1>1 DEF MaskTrue, Given, Scalar
  <1>3. q.replace \in BOOLEAN
    BY DEF Asked
  <1>4. ASSUME NEW p \in Pos
        PROVE  (e.replace <=> q.replace) \/ MaskTrue(q, p) \/ V[p] = NoVal
    <2>1. NoMask(q) => MaskTrue(q, p)
      BY MaskOpen
    <2>2. EmptyMatrix(B) => V[p] = NoVal
      BY EmptyView DEF Cleared
    <2> QED BY <1>1, <1>3, <2>1, <2>2
  <1> HIDE DEF V
  <1>5. ASSUME NEW p \in Pos
        PROVE  Wanted(V, e)[p] = Wanted(V, q)[p]
    <2>1. Within1(V, e, p) = Within1(V, q, p)
      BY <1>1, <1>2, <1>4 DEF Within1
    <2> QED BY <1>1, <1>2, <1>4, <2>1 DEF Wanted
  <1>6. Wanted(V, e) = Wanted(V, q)
    BY <1>5, WantedForm
  <1> QED BY <1>6 DEF e, V

\* The early clear, the tuples that are dropped and the wait do not change what is
\* wanted.
LEMMA TurnsPrepare ==
  ASSUME NEW A, Usable(A), NEW q, Asked(A, q), NEW r \in Prepare(A, q)
  PROVE  \E W : Turns(A, W, r) /\ Wanted(W, q) = Wanted(View(A), q)
  <1> DEFINE early == Whole(q) /\ ~NoMask(q) /\ q.replace /\ q.accum = NoOp /\ ~UseBitmap(A, q)
             D == [A EXCEPT !.pend = IF Splat(q) THEN NoPending ELSE @]
             start == IF early THEN Clear(A) ELSE Done(D)
  <1>1. Ready(A) /\ A \in Matrices
    BY DEF Usable, Ready, Good
  <1>2. PICK b \in start : r \in Then(b, WaitIf(MustWait(b.m, Effective(b.m, q)), b.m))
    BY DEF Prepare, Each
  <1>3. Clean(A, View(A))
    BY <1>1, ViewClean
  <1>4. \E W : Turns(A, W, b) /\ Wanted(W, q) = Wanted(View(A), q)
    <2>1. CASE early
      <3>1. Turns(A, Cleared, b)
        BY <1>2, <2>1, ShowsClear, TurnsShows
      <3>2. Clean(A, Cleared)
        BY DEF Clean, Cleared
      <3>3. Wanted(Cleared, q) = Wanted(View(A), q)
        BY <1>3, <2>1, <3>2, WantedAll
      <3> QED BY <3>1, <3>3
    <2>2. CASE ~early
      <3>1. b \in Done(D)
        BY <1>2, <2>2
      <3>2. CASE Splat(q)
        <4> DEFINE F == [A EXCEPT !.pend = NoPending]
        <4>1. D = F
          BY <3>2
        <4>2. Ready(F) /\ F \in Matrices
          BY <1>1, ReadyUnpended DEF Ready, Good
        <4>3. F.vlen = A.vlen /\ F.vdim = A.vdim
          BY <1>1 DEF Matrices
        <4> HIDE DEF F, D
        <4>4. Turns(A, View(F), b)
          BY <3>1, <4>1, <4>2, <4>3, TurnsDone
        <4>5. Clean(A, View(F))
          BY <4>2, <4>3, ViewClean
        <4>6. Wanted(View(F), q) = Wanted(View(A), q)
          BY <1>3, <3>2, <4>5, WantedAll DEF Splat
        <4> QED BY <4>4, <4>6
      <3>3. CASE ~Splat(q)
        <4>1. D = A
          BY <1>1, <3>3 DEF Matrices
        <4> HIDE DEF D
        <4>2. Turns(A, View(A), b)
          BY <1>1, <3>1, <4>1, TurnsDone
        <4> QED BY <4>2
      <3> QED BY <3>2, <3>3
    <2> QED BY <2>1, <2>2
  <1>5. PICK W : Turns(A, W, b) /\ Wanted(W, q) = Wanted(View(A), q)
    BY <1>4
  <1>6. b.info = "SUCCESS" /\ r \in WaitIf(MustWait(b.m, Effective(b.m, q)), b.m) => Turns(b.m, W, r)
    <2> SUFFICES ASSUME b.info = "SUCCESS", r \in WaitIf(MustWait(b.m, Effective(b.m, q)), b.m)
                 PROVE  Turns(b.m, W, r)
      OBVIOUS
    <2>1. Ready(b.m) /\ View(b.m) = W
      BY <1>5 DEF Turns
    <2>2. Shows(b.m, View(b.m), r)
      BY <2>1, KeepingWaiters DEF Keeping
    <2> QED BY <2>1, <2>2, TurnsShows
  <1> HIDE DEF early, D, start
  <1>7. Turns(A, W, r)
    BY <1>2, <1>5, <1>6, TurnsStep
  <1> QED BY <1>5, <1>7

-----------------------------------------------------------------------------
(* A call *)

\* The complement of no mask protects all of C.
LEMMA MaskShut ==
  ASSUME NEW q, EmptyMask(q), NEW p
  PROVE  ~MaskTrue(q, p)
  BY DEF EmptyMask, MaskTrue

\* GB_block is not seen.
LEMMA TurnsBlock ==
  ASSUME NEW A, NEW V, NEW y, Turns(A, V, y), NEW r \in Then(y, Block(y.m))
  PROVE  Turns(A, V, r)
  <1>1. ASSUME y.info = "SUCCESS", r \in Block(y.m)
        PROVE  Turns(y.m, V, r)
    <2>1. Ready(y.m) /\ View(y.m) = V
      BY <1>1 DEF Turns
    <2>2. Shows(y.m, View(y.m), r)
      BY <1>1, <2>1, KeepingWaiters DEF Keeping
    <2> QED BY <2>1, <2>2, TurnsShows
  <1> QED BY <1>1, TurnsStep

\* C(I,J) is deleted.
LEMMA TurnsDelete ==
  ASSUME NEW A, Usable(A), NEW q, Asked(A, q), EmptyMask(q), q.kind = "subassign", NEW dense,
         NEW y \in WaitIf(HasPending(A), A),
         NEW r \in Then(y, IF dense THEN BitmapAssign(y.m, q)
                           ELSE UNION {Then(x, Update(x.m, q)) : x \in NotDense(y.m)})
  PROVE  Turns(A, Wanted(View(A), q), r)
  <1> DEFINE V == View(A)
             W == Wanted(V, q)
  <1>1. Ready(A) /\ Orderly(A)
    BY DEF Usable
  <1>2. Turns(A, V, y) /\ (y.info = "SUCCESS" => ~HasPending(y.m))
    BY <1>1, TurnsNoTuples
  <1>3. ~Splat(q)
    BY DEF EmptyMask, Splat, NoMask
  <1>4. \A D : ~HasPending(D) => Agreed(D, q, V)
    BY MaskShut DEF Agreed
  <1>5. Inner(V, q) = W
    BY DEF Inner, Wanted
  <1> DEFINE S == IF dense THEN BitmapAssign(y.m, q)
                  ELSE UNION {Then(x, Update(x.m, q)) : x \in NotDense(y.m)}
  <1>6. ASSUME y.info = "SUCCESS", r \in S
        PROVE  Turns(y.m, W, r)
    <2>1. /\ Ready(y.m) /\ ~HasPending(y.m) /\ View(y.m) = V
          /\ y.m.vlen = A.vlen /\ y.m.vdim = A.vdim
      BY <1>2, <1>6 DEF Turns
    <2>2. Asked(y.m, q)
      BY <2>1, AskedSame
    <2>3. CASE dense
      <3>1. ForBitmap(y.m, q)
        BY <1>3, <2>1, <2>2, ReadyLoose DEF ForBitmap, Ready, Good
      <3>2. Clean(y.m, V)
        BY <1>1, <2>1, ViewClean
      <3>3. r \in BitmapAssign(y.m, q)
        BY <1>6, <2>3
      <3>4. Agreed(y.m, q, V)
        BY <1>4, <2>1
      <3> HIDE DEF V
      <3> QED BY <2>1, <3>1, <3>2, <3>3, <3>4, TurnsBitmap
    <2>4. CASE ~dense
      <3>1. PICK x \in NotDense(y.m) : r \in Then(x, Update(x.m, q))
        BY <1>6, <2>4
      <3>2. /\ Turns(y.m, V, x)
            /\ x.info = "SUCCESS" => x.m.fmt \in {"sparse", "hyper"} /\ x.m.pend = y.m.pend
        BY <2>1, TurnsNotDense
      <3>3. ASSUME x.info = "SUCCESS", r \in Update(x.m, q)
            PROVE  Turns(x.m, W, r)
        <4>1. /\ Ready(x.m) /\ View(x.m) = V /\ x.m.vlen = y.m.vlen /\ x.m.vdim = y.m.vdim
              /\ x.m.fmt # "bitmap" /\ x.m.fmt # "full" /\ ~HasPending(x.m)
          BY <2>1, <3>2, <3>3 DEF Turns, HasPending
        <4>2. Asked(x.m, q)
          BY <2>2, <4>1, AskedSame
        <4>3. Agreed(x.m, q, V)
          BY <1>4, <4>1
        <4>4. Turns(x.m, Inner(V, q), r)
          <5> HIDE DEF V
          <5> QED BY <3>3, <4>1, <4>2, <4>3, TurnsUpdate
        <4> QED BY <1>5, <4>4
      <3> HIDE DEF V, W
      <3> QED BY <3>1, <3>2, <3>3, TurnsStep
    <2> QED BY <2>3, <2>4
  <1>7. Turns(A, W, r)
    <2>1. r \in Then(y, S)
      OBVIOUS
    <2> HIDE DEF V, W, S
    <2> QED BY <1>2, <1>6, <2>1, TurnsStep
  <1> QED BY <1>7

\* GB_assign_prep, where the mask is empty and complemented.
LEMMA TurnsEmptyMask ==
  ASSUME NEW A, Usable(A), NEW q, Asked(A, q), EmptyMask(q),
         NEW r \in EmptyMaskAssign(A, q)
  PROVE  Turns(A, Wanted(View(A), q), r)
  <1> DEFINE update(D) == Update(D, q)
             delete(B) == IF UseBitmap(A, q) THEN BitmapAssign(B, q)
                          ELSE Each(NotDense(B), update)
             clears == Whole(q) \/ q.kind = "assign"
             deleted == CASE ~q.replace -> Done(A)
                          [] q.replace /\ clears -> Clear(A)
                          [] OTHER -> Each(WaitIf(HasPending(A), A), delete)
             V == View(A)
             W == Wanted(V, q)
  <1>1. PICK y \in deleted : r \in Then(y, Block(y.m))
    BY DEF EmptyMaskAssign, Each
  <1>2. Ready(A) /\ A \in Matrices /\ Clean(A, V) /\ q.kind \in {"assign", "subassign"}
    BY ViewClean DEF Usable, Ready, Good, Asked
  <1>3. Turns(A, W, y)
    <2>1. CASE ~q.replace
      <3>1. \A p \in Pos : Wanted(V, q)[p] = V[p]
        BY <2>1, MaskShut DEF Wanted, Within1
      <3>2. W = V
        BY <1>2, <3>1, WantedForm DEF Clean
      <3>3. y \in Done(A)
        BY <1>1, <2>1
      <3> HIDE DEF W
      <3> QED BY <1>2, <3>2, <3>3, TurnsDone
    <2>2. CASE q.replace /\ clears
      <3>1. ASSUME NEW p \in Pos
            PROVE  W[p] = NoVal
        <4>1. ~MaskTrue(q, p)
          BY MaskShut
        <4>2. Within1(V, q, p) = NoVal
          BY <2>2, <4>1 DEF Within1
        <4>3. Whole(q) /\ p \notin q.region => V[p] = NoVal
          BY <1>2 DEF Clean, Asked, Whole, InRange
        <4> HIDE DEF V
        <4> QED BY <2>2, <4>1, <4>2, <4>3 DEF Wanted
      <3>2. W = Cleared
        <4>1. W = [p \in Pos |-> W[p]]
          BY WantedForm
        <4> HIDE DEF W
        <4> QED BY <3>1, <4>1 DEF Cleared
      <3>3. y \in Clear(A)
        BY <1>1, <2>2
      <3> HIDE DEF W
      <3> QED BY <3>2, <3>3, ShowsClear, TurnsShows
    <2>3. CASE q.replace /\ ~clears
      <3>1. deleted = Each(WaitIf(HasPending(A), A), delete)
        BY <2>3
      <3>2. PICK x \in WaitIf(HasPending(A), A) : y \in Then(x, delete(x.m))
        BY <1>1, <3>1 DEF Each
      <3>3. q.kind = "subassign"
        BY <1>2, <2>3
      <3>4. delete(x.m) = IF UseBitmap(A, q) THEN BitmapAssign(x.m, q)
                          ELSE UNION {Then(w, Update(w.m, q)) : w \in NotDense(x.m)}
        BY DEF Each
      <3> HIDE DEF delete
      <3> QED BY <3>2, <3>3, <3>4, TurnsDelete
    <2> HIDE DEF clears
    <2> QED BY <2>1, <2>2, <2>3
  <1> HIDE DEF deleted, W
  <1>4. Turns(A, W, r)
    BY <1>1, <1>3, TurnsBlock
  <1> QED BY <1>4 DEF W

\* A whole call does what is wanted.
LEMMA TurnsAssigned ==
  ASSUME NEW A, Usable(A), NEW q, Asked(A, q),
         ~(Splat(q) /\ Scalar(q) /\ (A.nzombies > 0 \/ A.jumbled)),
         ~(Appends(A, q) /\ A.Y # NoHash),
         NEW r \in Assigned(A, q)
  PROVE  Turns(A, Wanted(View(A), q), r)
  <1> DEFINE body(B, e) == Each(WithIso(B, e), LAMBDA D : AssignBody(D, e, Method(B, e)))
             assigned(B) == body(B, Effective(B, q))
             V == Wanted(View(A), q)
  <1>1. CASE EmptyMask(q)
    BY <1>1, TurnsEmptyMask DEF Assigned
  <1>2. CASE ~EmptyMask(q)
    <2>1. PICK z \in Each(Each(Prepare(A, q), assigned), Conform) : r \in Then(z, Block(z.m))
      BY <1>2 DEF Assigned, Each
    <2>2. PICK y \in Each(Prepare(A, q), assigned) : z \in Then(y, Conform(y.m))
      BY <2>1 DEF Each
    <2>3. PICK x \in Prepare(A, q) : y \in Then(x, assigned(x.m))
      BY <2>2 DEF Each
    <2> DEFINE B == x.m
               e == Effective(B, q)
    <2>4. /\ Kept(x)
          /\ x.info = "SUCCESS" =>
               /\ x.m.vlen = A.vlen /\ x.m.vdim = A.vdim
               /\ ~MustWait(x.m, Effective(x.m, q))
               /\ Splat(q) => ~HasPending(x.m) /\ x.m.nzombies = A.nzombies
                              /\ (x.m.jumbled <=> A.jumbled)
               /\ Appends(x.m, Effective(x.m, q)) /\ x.m.Y # NoHash =>
                    Appends(A, q) /\ A.Y # NoHash
      BY <2>3, KeptPrepare
    <2>5. PICK W : Turns(A, W, x) /\ Wanted(W, q) = V
      BY <2>3, TurnsPrepare
    <2>6. ASSUME x.info = "SUCCESS", y \in assigned(x.m)
          PROVE  Turns(x.m, V, y)
      <3>1. y \in body(B, e)
        BY <2>6
      <3>2. PICK w \in WithIso(B, e) : y \in Then(w, AssignBody(w.m, e, Method(B, e)))
        BY <3>1 DEF Each
      <3>3. /\ Asked(A, e) /\ (Splat(e) <=> Splat(q)) /\ (Scalar(e) <=> Scalar(q))
            /\ ~EmptyMask(e)
        BY <1>2, AskedEffective DEF Splat, Whole, NoMask, Scalar, EmptyMask
      <3>4. Usable(B) /\ Asked(B, e) /\ Asked(B, q) /\ Ready(B) /\ View(B) = W
        BY <2>4, <2>5, <2>6, <3>3, KeptUsable, AskedSame DEF Turns
      <3>5. /\ ~MustWait(B, e) /\ (Splat(e) => ~HasPending(B))
            /\ Splat(e) /\ Scalar(e) => B.nzombies = 0 /\ ~B.jumbled
            /\ Appends(B, e) => B.Y = NoHash
        <4>1. A.nzombies \in Nat
          BY DEF Usable, Ready, Good, Matrices
        <4>2. Splat(q) /\ Scalar(q) => A.nzombies = 0 /\ ~A.jumbled
          BY <4>1
        <4> QED BY <2>4, <2>6, <3>3, <4>2
      <3>6. Wanted(View(B), e) = V
        BY <2>5, <3>4, WantedEffective
      <3> HIDE DEF B, e, V
      <3> DEFINE m == Method(B, e)
                 U == View(B)
      <3>7. /\ w \in Outcomes /\ w.info # "INVALID_INDEX"
            /\ w.m.vlen = B.vlen /\ w.m.vdim = B.vdim
            /\ w.info = "SUCCESS" => Meant(w.m, e, m, U)
        BY <3>2, <3>4, <3>5, MeantWithIso
      <3>8. w.info = "SUCCESS" => Fed(w.m, e, m)
        BY <3>2, <3>4, <3>5, FedWithIso
      <3> HIDE DEF m, U
      <3>9. CASE w.info # "SUCCESS"
        <4>1. y = w
          BY <3>2, <3>9 DEF Then
        <4> QED BY <3>7, <3>9, <4>1 DEF Turns, B
      <3>10. CASE w.info = "SUCCESS"
        <4>1. y \in AssignBody(w.m, e, m)
          BY <3>2, <3>10 DEF Then, m
        <4>2. Turns(w.m, Wanted(U, e), y)
          BY <3>3, <3>7, <3>8, <3>10, <4>1, TurnsAssignBody
        <4>3. Turns(B, Wanted(U, e), y)
          BY <3>7, <4>2, TurnsSize
        <4> QED BY <3>6, <4>3 DEF B, U
      <3> QED BY <3>9, <3>10
    <2>7. Turns(A, V, y)
      <3> HIDE DEF V, assigned
      <3> QED BY <2>3, <2>5, <2>6, TurnsStep
    <2>8. ASSUME y.info = "SUCCESS", z \in Conform(y.m)
          PROVE  Turns(y.m, V, z)
      <3>1. Ready(y.m) /\ View(y.m) = V
        BY <2>7, <2>8 DEF Turns
      <3>2. Shows(y.m, View(y.m), z)
        BY <2>8, <3>1, KeepingConform DEF Keeping
      <3> HIDE DEF V
      <3> QED BY <3>1, <3>2, TurnsShows
    <2>9. Turns(A, V, z)
      <3> HIDE DEF V
      <3> QED BY <2>2, <2>7, <2>8, TurnsStep
    <2>10. Turns(A, V, r)
      <3> HIDE DEF V
      <3> QED BY <2>1, <2>9, TurnsBlock
    <2> QED BY <2>10
  <1> QED BY <1>1, <1>2

-----------------------------------------------------------------------------
(* The steps of AbstractAssign *)

\* The parts of a step of AbstractMatrix, which AbstractAssign extends.
LEMMA SameParts ==
  /\ \A call, B : Abstract!Update(call, B) <=> AbstractAssigned!Update(call, B)
  /\ \A call, info, v :
       Abstract!Observe(call, info, v) <=> AbstractAssigned!Observe(call, info, v)
  /\ \A call, info, v :
       Abstract!Reply(call, info, v) <=> AbstractAssigned!Reply(call, info, v)
  /\ \A p : Abstract!InRange(p) <=> AbstractAssigned!InRange(p)
  /\ \A p : Abstract!Present(p) <=> AbstractAssigned!Present(p)
  /\ Abstract!NoContent = AbstractAssigned!NoContent
  /\ Abstract!Pos = AbstractAssigned!Pos
  /\ Abstract!Requests = AbstractAssigned!Requests
  /\ Abstract!Settings = AbstractAssigned!Settings
  /\ \A S : Abstract!Cardinality(S) = AbstractAssigned!Cardinality(S)
  <1>1. Abstract!Pos = AbstractAssigned!Pos
    BY DEF Abstract!Pos, AbstractAssigned!Pos
  <1>2. Abstract!NoContent = AbstractAssigned!NoContent
    BY <1>1 DEF Abstract!NoContent, AbstractAssigned!NoContent
  <1>3. \A B : Abstract!Invalid(B) = AbstractAssigned!Invalid(B)
    BY <1>2, Zenon DEF Abstract!Invalid, AbstractAssigned!Invalid
  <1>4. \A call, info, v :
          Abstract!Reply(call, info, v) <=> AbstractAssigned!Reply(call, info, v)
    BY DEF Abstract!Reply, AbstractAssigned!Reply
  <1>5. \A call, B : Abstract!Fail(call, B) <=> AbstractAssigned!Fail(call, B)
    BY <1>3, <1>4, Zenon DEF Abstract!Fail, AbstractAssigned!Fail
  <1>6. \A call, B : Abstract!Update(call, B) <=> AbstractAssigned!Update(call, B)
    BY <1>4, <1>5, Zenon DEF Abstract!Update, AbstractAssigned!Update
  <1>7. \A call, info, v :
          Abstract!Observe(call, info, v) <=> AbstractAssigned!Observe(call, info, v)
    BY <1>4, <1>5, Zenon DEF Abstract!Observe, AbstractAssigned!Observe
  <1>8. /\ \A p : Abstract!InRange(p) <=> AbstractAssigned!InRange(p)
        /\ \A p : Abstract!Present(p) <=> AbstractAssigned!Present(p)
    BY DEF Abstract!InRange, AbstractAssigned!InRange, Abstract!Present, AbstractAssigned!Present
  <1>9. Abstract!Settings = AbstractAssigned!Settings
    BY DEF Abstract!Settings, AbstractAssigned!Settings
  <1>10. Abstract!Requests = AbstractAssigned!Requests
    BY <1>9 DEF Abstract!Requests, AbstractAssigned!Requests
  <1>11. \A S : Abstract!Cardinality(S) = AbstractAssigned!Cardinality(S)
    BY DEF Abstract!Cardinality, AbstractAssigned!Cardinality
  <1> QED BY <1>1, <1>2, <1>4, <1>6, <1>7, <1>8, <1>9, <1>10, <1>11

\* A step of AbstractMatrix is one of AbstractAssign.
LEMMA SameNext ==
  ASSUME Abstract!Next
  PROVE  AbstractAssigned!Next
  <1>1. \A p, s, t, accum :
          Abstract!Set(p, s, t, accum) => AbstractAssigned!Set(p, s, t, accum)
    BY SameParts DEF Abstract!Set, AbstractAssigned!Set
  <1>2. \A p : Abstract!Remove(p) => AbstractAssigned!Remove(p)
    BY SameParts DEF Abstract!Remove, AbstractAssigned!Remove
  <1>3. \A p : Abstract!Extract(p) => AbstractAssigned!Extract(p)
    BY SameParts DEF Abstract!Extract, AbstractAssigned!Extract
  <1>4. Abstract!Nvals => AbstractAssigned!Nvals
    BY SameParts DEF Abstract!Nvals, AbstractAssigned!Nvals
  <1>5. Abstract!Clear => AbstractAssigned!Clear
    BY SameParts DEF Abstract!Clear, AbstractAssigned!Clear
  <1>6. \A d : Abstract!Resize(d) => AbstractAssigned!Resize(d)
    BY SameParts DEF Abstract!Resize, AbstractAssigned!Resize
  <1>7. \A T \in Results : Abstract!Assign(T) => AbstractAssigned!Assign(T)
    BY SameParts DEF Abstract!Assign, AbstractAssigned!Assign
  <1>8. Abstract!Refuse => AbstractAssigned!Refuse
    BY SameParts DEF Abstract!Refuse, AbstractAssigned!Refuse
  <1>9. Abstract!Serve => AbstractAssigned!Serve
    BY <1>1, <1>2, <1>3, <1>4, <1>5, <1>6, <1>7, SameParts DEF Abstract!Serve, AbstractAssigned!Serve
  <1> QED BY <1>8, <1>9 DEF Abstract!Next, AbstractAssigned!Next

\* A new matrix is an empty map.
LEMMA SameInit ==
  ASSUME Abstract!Init
  PROVE  AbstractAssigned!Init
  BY SameParts DEF Abstract!Init, AbstractAssigned!Init

\* A mask, or a matrix A, as AbstractAssign sees it.
Content(T) == [X \in Results \cup Operands |-> AbsOf(X)][T]

\* It has its entries, and nothing is deferred.
LEMMA ContentIs ==
  ASSUME NEW q \in Assignments, NEW T \in {q.M, q.A}, T # NoMatrix, NEW p \in Pos
  PROVE  Content(T).val[p] = IF T.entry[p] \in Val THEN T.entry[p] ELSE NoVal
  <1>1. T \in Operands
    BY DEF Operands
  <1>2. ~HasPending(T)
    BY <1>1, AssignmentsAssumption DEF HasPending, NoPending
  <1>3. Content(T).val = View(T)
    BY <1>1, AbsFields DEF Content
  <1> QED BY <1>2, <1>3, PlainView DEF Plain

\* What the user guide defines is what is wanted.
LEMMA WantedAbstract ==
  ASSUME NEW q \in Assignments, Asked(C, q)
  PROVE  [p \in Pos |-> IF p \in q.region THEN AbstractAssigned!Inside(q, p)
                        ELSE AbstractAssigned!Outside(q, p)] = Wanted(View(C), q)
  <1> DEFINE V == View(C)
  <1>1. AbsOf(C).val = V
    BY AbsFields
  <1>2. ASSUME NEW p \in Pos
        PROVE  /\ AbstractAssigned!Through(q, p) <=> MaskTrue(q, p)
               /\ AbstractAssigned!Given(q, p)
                    = IF Given(q, p) = Absent THEN NoVal ELSE Given(q, p)
               /\ AbstractAssigned!Present(p) <=> V[p] # NoVal
    <2> DEFINE m == Content(q.M).val[p]
    <2>1. AbstractAssigned!Through(q, p) <=>
            (q.M # NoMatrix => m # NoVal /\ (q.struct \/ m # False)) # q.comp
      BY DEF AbstractAssigned!Through, Content
    <2>2. q.M # NoMatrix => m = IF q.M.entry[p] \in Val THEN q.M.entry[p] ELSE NoVal
      BY ContentIs
    <2>3. NoVal \notin Val /\ q.comp \in BOOLEAN
      BY CallsAssumption DEF Asked
    <2> HIDE DEF m
    <2>4. (q.M # NoMatrix => m # NoVal /\ (q.struct \/ m # False))
            <=> (q.M # NoMatrix => q.M.entry[p] \in Val /\ (q.struct \/ q.M.entry[p] # False))
      BY <2>2, <2>3
    <2>5. AbstractAssigned!Through(q, p) <=> MaskTrue(q, p)
      BY <2>1, <2>3, <2>4 DEF MaskTrue
    <2>6. AbstractAssigned!Given(q, p) = IF q.A = NoMatrix THEN q.s ELSE Content(q.A).val[p]
      BY DEF AbstractAssigned!Given, Content
    <2>7. q.A # NoMatrix =>
            Content(q.A).val[p] = IF q.A.entry[p] \in Val THEN q.A.entry[p] ELSE NoVal
      BY ContentIs
    <2>8. Given(q, p) \in Val \cup {Absent} /\ Absent \notin Val
      BY GivenType, ValAssumption
    <2>9. AbstractAssigned!Given(q, p) = IF Given(q, p) = Absent THEN NoVal ELSE Given(q, p)
      <3>1. CASE q.A = NoMatrix
        <4>1. q.s \in Val /\ Given(q, p) = q.s
          BY <3>1 DEF Asked, Given, Scalar
        <4> QED BY <2>6, <2>8, <3>1, <4>1
      <3>2. CASE q.A # NoMatrix
        <4>1. Given(q, p) = q.A.entry[p]
          BY <3>2 DEF Given, Scalar
        <4> QED BY <2>6, <2>7, <2>8, <3>2, <4>1
      <3> QED BY <3>1, <3>2
    <2> QED BY <1>1, <2>5, <2>9 DEF AbstractAssigned!Present
  <1> HIDE DEF V
  <1>3. ASSUME NEW p \in Pos
        PROVE  /\ AbstractAssigned!Inside(q, p) = Within1(V, q, p)
               /\ AbstractAssigned!Outside(q, p) =
                    IF q.kind = "assign" /\ q.replace /\ ~MaskTrue(q, p) THEN NoVal ELSE V[p]
    <2>1. Given(q, p) \in Val \cup {Absent} /\ NoVal \notin Val
      BY GivenType, CallsAssumption
    <2>2. CASE ~MaskTrue(q, p)
      BY <1>1, <1>2, <2>2 DEF AbstractAssigned!Inside, AbstractAssigned!Outside, Within1
    <2>3. CASE MaskTrue(q, p)
      BY <1>1, <1>2, <2>1, <2>3 DEF AbstractAssigned!Inside, AbstractAssigned!Outside, Within1
    <2> QED BY <2>2, <2>3
  <1>4. \A p \in Pos :
          (IF p \in q.region THEN AbstractAssigned!Inside(q, p)
           ELSE AbstractAssigned!Outside(q, p)) = Wanted(V, q)[p]
    BY <1>3 DEF Wanted
  <1>5. Wanted(V, q) = [p \in Pos |-> Wanted(V, q)[p]]
    BY WantedForm
  <1> HIDE DEF V
  <1>6. [p \in Pos |-> IF p \in q.region THEN AbstractAssigned!Inside(q, p)
                       ELSE AbstractAssigned!Outside(q, p)] = Wanted(V, q)
    BY <1>4, <1>5
  <1> QED BY <1>6 DEF V

\* The matrix that an assignment has made is what the user guide defines; one that
\* runs out of memory may have any entries, or is freed.
LEMMA AssignmentServed ==
  ASSUME C.valid = TRUE, NEW q \in Assignments, Asked(C, q), NEW r, Kept(r),
         Turns(C, Wanted(View(C), q), r), r.info # "CRASH", C' = r.m,
         Reply(<<"assignment", q>>, r.info, NoVal)
  PROVE  AbstractAssigned!Assignment(q)
  <1> DEFINE V == Wanted(View(C), q)
             B == [AbsOf(C) EXCEPT !.val = V]
             valid == r.m.valid
             call == <<"assignment", q>>
  <1>1. AbsOf(C)' = Map(valid, C.vlen, C.vdim, View(r.m))
    BY AbsIs DEF Turns, Map
  <1>2. AbsOf(C) = Map(C.valid, C.vlen, C.vdim, View(C))
    BY AbsIs DEF Map
  <1>3. B = Map(C.valid, C.vlen, C.vdim, V)
    BY <1>2, MapVal
  <1>4. AbstractAssigned!Invalid(AbsOf(C)) = Map(No, C.vlen, C.vdim, Cleared)
    <2>1. Abstract!Invalid(AbsOf(C)) = Map(No, C.vlen, C.vdim, Cleared)
      BY <1>2, MapInvalid
    <2>2. Abstract!Invalid(AbsOf(C)) = AbstractAssigned!Invalid(AbsOf(C))
      BY SameParts, Zenon DEF Abstract!Invalid, AbstractAssigned!Invalid
    <2> QED BY <2>1, <2>2
  <1>5. valid = TRUE \/ (valid = FALSE /\ View(r.m) = Cleared)
    BY ViewFreed DEF Kept, Good, Matrices
  <1>6. r.info \in {"SUCCESS", "OUT_OF_MEMORY"}
    BY DEF Turns, Outcomes
  <1>7. r.info = "SUCCESS" => valid = TRUE /\ View(r.m) = V
    BY <1>5 DEF Turns, Ready
  <1> HIDE DEF V
  <1>8. r.info = "SUCCESS" => AbsOf(C)' = B
    BY <1>1, <1>3, <1>7
  <1>9. AbsOf(C)' = [AbsOf(C) EXCEPT !.val = (AbsOf(C)').val]
        \/ AbsOf(C)' = AbstractAssigned!Invalid(AbsOf(C))
    <2>1. CASE valid = TRUE
      <3>1. (AbsOf(C)').val = View(r.m)
        BY <1>1 DEF Map
      <3>2. [AbsOf(C) EXCEPT !.val = View(r.m)] = Map(C.valid, C.vlen, C.vdim, View(r.m))
        BY <1>2, MapVal
      <3> QED BY <1>1, <2>1, <3>1, <3>2
    <2>2. CASE valid = FALSE /\ View(r.m) = Cleared
      BY <1>1, <1>4, <2>2 DEF No
    <2> QED BY <1>5, <2>1, <2>2
  <1>10. AbstractAssigned!Reply(call, r.info, NoVal)
    BY DEF Reply, AbstractAssigned!Reply
  <1>11. q.dims = <<AbsOf(C).vlen, AbsOf(C).vdim>>
    BY AbsFields DEF Asked
  <1>12. B = [AbsOf(C) EXCEPT !.val =
                [p \in AbstractAssigned!Pos |-> IF p \in q.region THEN AbstractAssigned!Inside(q, p)
                                                ELSE AbstractAssigned!Outside(q, p)]]
    <2>1. [p \in Pos |-> IF p \in q.region THEN AbstractAssigned!Inside(q, p)
                         ELSE AbstractAssigned!Outside(q, p)] = V
      BY WantedAbstract DEF V
    <2>2. AbstractAssigned!Pos = Pos
      BY DEF AbstractAssigned!Pos, Pos
    <2> QED BY <2>1, <2>2
  <1> HIDE DEF B, call
  <1>13. \/ AbstractAssigned!Reply(call, "SUCCESS", NoVal) /\ AbsOf(C)' = B
         \/ /\ AbstractAssigned!Reply(call, "OUT_OF_MEMORY", NoVal)
            /\ \/ AbsOf(C)' = [AbsOf(C) EXCEPT !.val = (AbsOf(C)').val]
               \/ AbsOf(C)' = AbstractAssigned!Invalid(AbsOf(C))
    BY <1>6, <1>8, <1>9, <1>10
  <1> QED BY <1>11, <1>12, <1>13 DEF AbstractAssigned!Assignment, call

\* GrB_assign and GxB_subassign are steps of AbstractAssign.
LEMMA AssignmentStep ==
  ASSUME Intact, SoundAssign, reply'.info # "CRASH"
  PROVE  AbstractAssigned!AssignNext
  <1>1. PICK q \in Assignments :
          /\ ~KeepsZombies(q) /\ ~LeavesHash(q) /\ q.dims = <<C.vlen, C.vdim>>
          /\ Perform(<<"assignment", q>>, Assigned(C, q))
    BY DEF SoundAssign, GrB_Matrix_assign
  <1> DEFINE call == <<"assignment", q>>
  <1>2. CASE Refuse(call)
    <2>1. ~AbsOf(C).valid /\ AbsOf(C)' = AbsOf(C)
      BY <1>2, AbsFields DEF Refuse
    <2>2. AbstractAssigned!Reply(call, "INVALID_OBJECT", NoVal)
      BY <1>2 DEF Refuse, Reply, AbstractAssigned!Reply
    <2>3. AbstractAssigned!RefuseAssignment(q)
      BY <2>1, <2>2 DEF AbstractAssigned!RefuseAssignment
    <2> QED BY <2>1, <2>3 DEF AbstractAssigned!AssignNext
  <1>3. CASE C.valid /\ \E r \in Assigned(C, q) : C' = r.m /\ Reply(call, r.info, NoVal)
    <2>1. PICK r \in Assigned(C, q) : C' = r.m /\ Reply(call, r.info, NoVal)
      BY <1>3
    <2>2. Usable(C) /\ Asked(C, q) /\ C.valid = TRUE
      BY <1>1, <1>3, IntactUsable, AskedAssignments DEF Usable, Ready, Good, Matrices
    <2>3. Kept(r)
      BY <1>1, <2>1, <2>2, KeptAssigned DEF KeepsZombies, LeavesHash
    <2>4. Turns(C, Wanted(View(C), q), r)
      BY <1>1, <2>1, <2>2, TurnsAssigned DEF KeepsZombies, LeavesHash
    <2>5. r.info # "CRASH"
      BY <2>1 DEF Reply
    <2>6. AbstractAssigned!Assignment(q)
      BY <2>1, <2>2, <2>3, <2>4, <2>5, AssignmentServed
    <2> QED BY <2>2, <2>6, AbsFields DEF AbstractAssigned!AssignNext
  <1> QED BY <1>1, <1>2, <1>3 DEF Perform

\* Every call that does not crash is a step of AbstractAssign.
LEMMA RefinesAssignNext ==
  ASSUME Intact, SurvivingNext \/ SoundAssign, reply'.info # "CRASH"
  PROVE  AbstractAssigned!AssignNext
  <1>1. CASE SurvivingNext
    BY <1>1, RefinesNext, SameNext DEF AbstractAssigned!AssignNext
  <1>2. CASE SoundAssign
    BY <1>2, AssignmentStep
  <1> QED BY <1>1, <1>2

-----------------------------------------------------------------------------
(* No method finds another structure than the one it was chosen for *)

\* The outcome of a part of a call that does not crash.
Ends(r) ==
  /\ {"m", "info"} \subseteq DOMAIN r
  /\ r.info = "SUCCESS" \/ (r.info = "OUT_OF_MEMORY" /\ MemoryMayFail)

\* One part after another.
LEMMA EndsStep ==
  ASSUME NEW r, Ends(r), NEW S, NEW q \in Then(r, S),
         r.info = "SUCCESS" /\ q \in S => Ends(q)
  PROVE  Ends(q)
  BY DEF Then

\* What succeeds or has no memory, and then frees the matrix.
LEMMA EndsDone ==
  ASSUME NEW A, NEW B, NEW r, r \in Done(A) \cup NoMemory(B)
  PROVE  Ends(r) /\ (r.info = "SUCCESS" => r.m = A)
  BY DEF Ends, Done, NoMemory

\* A method that fails frees the matrix, and fails still.
LEMMA EndsOnError ==
  ASSUME NEW r, Ends(r)
  PROVE  Ends(FreeOnError(r)) /\ (FreeOnError(r).info = r.info)
  <1>1. CASE r.info = "SUCCESS"
    BY <1>1 DEF FreeOnError
  <1>2. CASE r.info # "SUCCESS"
    <2> DEFINE F == PhybixFree(r.m)
               s == [r EXCEPT !.m = F]
    <2>1. FreeOnError(r) = s
      BY <1>2 DEF FreeOnError
    <2> HIDE DEF F
    <2>2. DOMAIN s = DOMAIN r /\ s.info = r.info
      BY DEF Ends
    <2> QED BY <2>1, <2>2 DEF Ends
  <1> QED BY <1>1, <1>2

\* A function that can only fail for want of memory.
LEMMA EndsObeys ==
  ASSUME NEW A, NEW r, Obeys(A, r)
  PROVE  Ends(r)
  BY DEF Obeys, Ends

\* GB_hyper_prune and GB_unjumble leave the size and the number of entries.
LEMMA PruneKeeps ==
  ASSUME NEW A \in Matrices, NEW r, r \in HyperPrune(A) \/ r \in Unjumble(A),
         r.info = "SUCCESS"
  PROVE  /\ r.m.vlen = A.vlen /\ r.m.vdim = A.vdim /\ r.m.control = A.control
         /\ r.m.fmt = A.fmt /\ r.m.nvals = A.nvals
         /\ r \in HyperPrune(A) => r.m.jumbled = A.jumbled
         /\ r \in Unjumble(A) => ~r.m.jumbled
  <1> DEFINE n == IF A.nne >= 0 THEN A.nne ELSE NvecNonempty(A)
             B == [A EXCEPT !.nne = n]
             g == Nonempty(B)
             D == [B EXCEPT !.h = g, !.Y = NoHash, !.nne = Cardinality(g)]
             E == [B EXCEPT !.jumbled = FALSE, !.unsorted = {}]
  <1>1. UpdateNne(A) = B
    BY DEF UpdateNne, Matrices
  <1> HIDE DEF n
  <1>2. /\ B.vlen = A.vlen /\ B.vdim = A.vdim /\ B.control = A.control
        /\ B.fmt = A.fmt /\ B.nvals = A.nvals /\ B.jumbled = A.jumbled
    BY DEF Matrices
  <1>3. /\ D.vlen = A.vlen /\ D.vdim = A.vdim /\ D.control = A.control
        /\ D.fmt = A.fmt /\ D.nvals = A.nvals /\ D.jumbled = A.jumbled
    <2> HIDE DEF g
    <2> QED BY DEF Matrices
  <1>4. /\ E.vlen = A.vlen /\ E.vdim = A.vdim /\ E.control = A.control
        /\ E.fmt = A.fmt /\ E.nvals = A.nvals /\ ~E.jumbled
    BY DEF Matrices
  <1>5. /\ r \in HyperPrune(A) => r.m = A \/ r.m = B \/ r.m = D
        /\ r \in Unjumble(A) => (r.m = B /\ ~A.jumbled) \/ r.m = E
    <2>1. r \in HyperPrune(A) =>
            \/ r \in Done(A) \/ r \in Done(B) \/ r \in Done(D) \/ r \in NoMemory(B)
      BY <1>1 DEF HyperPrune
    <2>2. r \in Unjumble(A) =>
            (r \in Done(B) /\ ~A.jumbled) \/ r \in Done(E) \/ r \in NoMemory(B)
      BY <1>1 DEF Unjumble
    <2> HIDE DEF B, D, E
    <2> QED BY <2>1, <2>2 DEF Done, NoMemory
  <1> HIDE DEF B, D, E
  <1> QED BY <1>2, <1>3, <1>4, <1>5

\* Without its zombies the matrix has fewer entries, and is as unsorted before
\* GB_wait sorts it.
LEMMA ZombiesThinner ==
  ASSUME NEW A, Ready(A), A.jumbled, A.fmt \in {"hyper", "sparse"},
         NEW r \in RemoveZombies(A), r.info = "SUCCESS"
  PROVE  Thinner(A, r.m) /\ r.m.fmt = A.fmt /\ r.m.nvals = A.nvals - A.nzombies
  <1> DEFINE live == [p \in Pos |-> IF A.entry[p] = Zombie THEN Absent ELSE A.entry[p]]
             W == [A EXCEPT !.entry = live, !.nvals = @ - A.nzombies,
                            !.nzombies = 0, !.Y = NoHash]
             B == [W EXCEPT !.nne = Cardinality(Nonempty(W))]
  <1>1. A \in Matrices /\ A.nvals \in Nat /\ A.nzombies \in Nat
    BY DEF Ready, Good, Matrices
  <1>2. A.nvals - A.nzombies \in Nat /\ A.nvals - A.nzombies <= A.nvals
    BY <1>1, LiveCount DEF Nnz
  <1>3. CASE r \in Done(A) /\ A.nzombies = 0
    <2>1. r.m = A
      BY <1>3 DEF Done
    <2> QED BY <1>1, <1>2, <1>3, <2>1 DEF Thinner
  <1>4. CASE r \notin Done(A) \/ A.nzombies # 0
    <2>1. PICK q \in HyperPrune(B) : r \in Then(q, Done(Transplant(A, q.m)))
      <3>1. \/ r \in Done(A) /\ A.nzombies = 0
            \/ r \in NoMemory(A)
            \/ \E q \in HyperPrune(B) : r \in Then(q, Done(Transplant(A, q.m)))
        BY DEF RemoveZombies
      <3> HIDE DEF B
      <3> QED BY <1>4, <3>1 DEF NoMemory
    <2>2. /\ W \in Matrices /\ W.fmt = A.fmt /\ W.vlen = A.vlen /\ W.vdim = A.vdim
          /\ W.nvals = A.nvals - A.nzombies /\ W.control = A.control /\ W.jumbled
      <3>1. live \in [Pos -> Val \cup {Absent, Zombie}]
        BY <1>1 DEF Matrices
      <3> HIDE DEF live
      <3> QED BY <1>1, <1>2, <3>1 DEF Matrices, NoHash
    <2> HIDE DEF W
    <2>3. /\ B \in Matrices /\ B.fmt = A.fmt /\ B.vlen = A.vlen /\ B.vdim = A.vdim
          /\ B.nvals = A.nvals - A.nzombies /\ B.control = A.control /\ B.jumbled
      BY <2>2, HeldCounts DEF Matrices
    <2> HIDE DEF B
    <2>4. q.info = "SUCCESS" /\ r.m = Transplant(A, q.m)
      BY <2>1 DEF Then, Done
    <2>5. /\ q.m.fmt = A.fmt /\ q.m.vlen = A.vlen /\ q.m.vdim = A.vdim
          /\ q.m.nvals = A.nvals - A.nzombies /\ q.m.jumbled
      BY <2>1, <2>3, <2>4, PruneKeeps
    <2>6. q.m \in Matrices
      BY <2>1, <2>3, <2>4, OldPrune
    <2>7. q.m.fmt # "full" /\ ~AsIfFull(q.m)
      BY <2>5 DEF AsIfFull, AnyPendingWork
    <2> DEFINE T == q.m
               y == IF T.fmt = "hyper" /\ ~A.nohash THEN T.Y ELSE NoHash
               D == [T EXCEPT !.Y = y, !.control = A.control, !.nohash = A.nohash]
    <2>8. /\ r.m.fmt = T.fmt /\ r.m.vlen = T.vlen /\ r.m.vdim = T.vdim
          /\ r.m.nvals = T.nvals /\ r.m.control = A.control
      BY <2>4, <2>6, <2>7 DEF Transplant, Matrices
    <2> QED BY <1>2, <2>5, <2>8 DEF Thinner
  <1> QED BY <1>3, <1>4

\* GB_wait does not make a bitmap, or a full matrix, of an unsorted one with zombies.
LEMMA WaitStaysSparse ==
  ASSUME NEW A, Usable(A), Calm(A), A.jumbled, A.nzombies > 0,
         NEW r \in Wait(A), r.info = "SUCCESS"
  PROVE  r.m.fmt \in {"hyper", "sparse"} /\ A.fmt \in {"hyper", "sparse"}
  <1> DEFINE B == [A EXCEPT !.pend = NoPending]
  <1>1. Ready(A) /\ A \in Matrices /\ ~HasPending(A)
    BY DEF Usable, Orderly, Ready, Good
  <1>2. A.fmt \in {"hyper", "sparse"} /\ ~AsIfFull(A)
    BY <1>1, JumbledSparse
  <1>3. Sparsely(A)
    BY <1>1, <1>2, SparseTarget DEF Calm
  <1>4. r \in FinishWork(A)
    <2>1. PICK z \in FinishWork(A) : r = FreeOnError(z)
      BY <1>2 DEF Wait, AnyPendingWork
    <2>2. Finished(A, FinishWork(A))
      BY <1>1, <1>2, SafeFinishWork
    <2>3. z \in Outcomes
      BY <2>2 DEF Finished, Safe
    <2>4. z.info = "SUCCESS"
      BY <2>1, <2>3 DEF FreeOnError, Outcomes
    <2> QED BY <2>1, <2>4 DEF FreeOnError
  <1>5. PICK y \in RemoveZombies(B) : \E s \in Then(y, Unjumble(y.m)) :
            r \in Then(s, ConformSettled(s.m))
    BY <1>1, <1>4 DEF FinishWork, NoMemory
  <1>6. PICK s \in Then(y, Unjumble(y.m)) : r \in Then(s, ConformSettled(s.m))
    BY <1>5
  <1>7. /\ s.info = "SUCCESS" /\ r \in ConformSettled(s.m)
        /\ y.info = "SUCCESS" /\ s \in Unjumble(y.m)
    BY <1>6 DEF Then
  <1>8. /\ Ready(B) /\ ~HasPending(B) /\ B.jumbled /\ B.fmt = A.fmt
        /\ B.vlen = A.vlen /\ B.vdim = A.vdim /\ B.control = A.control
        /\ B.nvals = A.nvals /\ B.nzombies = A.nzombies
    <2>1. Ready(B) /\ ~HasPending(B)
      BY <1>1, ReadyUnpended
    <2> QED BY <1>1, <2>1 DEF Matrices
  <1> HIDE DEF B
  <1>9. Thinner(B, y.m) /\ y.m.fmt = B.fmt /\ y.m.nvals = B.nvals - B.nzombies
    BY <1>2, <1>5, <1>7, <1>8, ZombiesThinner
  <1>10. Ready(y.m)
    BY <1>2, <1>5, <1>7, <1>8, SafeRemoveZombies DEF Safe, Ready
  <1>11. Ready(s.m) /\ s.m \in Matrices /\ y.m \in Matrices
    BY <1>7, <1>10, SafeUnjumble DEF Safe, Ready, Good
  <1>12. /\ s.m.vlen = A.vlen /\ s.m.vdim = A.vdim /\ s.m.control = A.control
         /\ s.m.fmt = A.fmt /\ s.m.nvals = A.nvals - A.nzombies
    BY <1>7, <1>8, <1>9, <1>11, PruneKeeps DEF Thinner
  <1>13. A.nvals \in Nat /\ A.nzombies \in Nat /\ s.m.nvals < A.nvals
    BY <1>1, <1>12 DEF Matrices
  <1>14. Thinner(A, s.m)
    BY <1>2, <1>12, <1>13 DEF Thinner
  <1>15. ~AsIfFull(s.m)
    <2>1. A.nvals = Cardinality(Held(A))
      BY <1>1, <1>2 DEF Ready, Good, StructureOK, CountsExact
    <2>2. Cardinality(Held(A)) <= Dense(A)
      <3> DEFINE I == {p \in Pos : InRange(A, p)}
      <3>1. Held(A) \subseteq I
        BY <1>1 DEF Ready, Good, StructureOK, EntriesInRange, Held
      <3>2. IsFiniteSet(I) /\ Cardinality(I) = Dense(A)
        BY <1>1, InsideCount
      <3> HIDE DEF I
      <3> QED BY <3>1, <3>2, FS_Subset
    <2>3. Dense(s.m) = Dense(A) /\ Dense(A) \in Nat
      BY <1>1, <1>12, DenseNat DEF Dense
    <2>4. Nnz(s.m) = s.m.nvals /\ s.m.fmt # "full"
      BY <1>2, <1>12 DEF Nnz
    <2> QED BY <1>13, <2>1, <2>2, <2>3, <2>4 DEF AsIfFull
  <1>16. Sparsely(s.m)
    BY <1>1, <1>2, <1>3, <1>11, <1>14, SparselyThinner
  <1> DEFINE t == ConformTarget(s.m)
             D == ConformStart(s.m)
  <1>17. t # {} /\ t \subseteq {"hyper", "sparse"}
    BY <1>2, <1>11, <1>12, <1>15, <1>16, SparseTarget
  <1>18. r \in ConvertTo(D, t)
    BY <1>7 DEF ConformSettled
  <1>19. Header(D) /\ D.nne >= 0
    BY <1>11, HeaderType, FollowsConformStart DEF Follows
  <1> HIDE DEF t, D
  <1>20. r.m.fmt \in {"hyper", "sparse"}
    <2>1. \/ \E f \in Formats : t = {f} /\ r.m.fmt = f
          \/ r.m.fmt \in {"hyper", "sparse"} /\ \A f \in Formats : t # {f}
      BY <1>18, <1>19, ObeysConvertTo
    <2> QED BY <1>17, <2>1
  <1> QED BY <1>2, <1>20

\* GB_conform would do the same for a matrix of the same size and structure.
LEMMA CalmSame ==
  ASSUME NEW A, Calm(A), NEW B, B.fmt = A.fmt, B.vlen = A.vlen, B.vdim = A.vdim,
         B.nvals = A.nvals, B.control = A.control, B.jumbled => A.jumbled
  PROVE  Calm(B)
  <1> SUFFICES ASSUME B.jumbled PROVE ConformTarget(B) # {"bitmap"}
    BY DEF Calm
  <1>1. A.jumbled /\ ConformTarget(A) # {"bitmap"}
    BY DEF Calm
  <1>2. AsIfFull(A) <=> AsIfFull(B)
    BY <1>1 DEF AsIfFull, AnyPendingWork
  <1>3. /\ SparsityControl(B) = SparsityControl(A) /\ Dense(B) = Dense(A)
        /\ Nnz(B) = Nnz(A)
    BY DEF SparsityControl, Dense, Nnz
  <1>4. /\ SparseToBitmapTest(A) <=> SparseToBitmapTest(B)
        /\ BitmapToSparseTest(A) <=> BitmapToSparseTest(B)
    BY <1>3 DEF SparseToBitmapTest, BitmapToSparseTest
  <1>5. ConformTarget(B) = ConformTarget(A)
    BY <1>2, <1>3, <1>4 DEF ConformTarget
  <1> QED BY <1>1, <1>5

\* A matrix that is bitmap or full has no vectors to sort.
LEMMA CalmDense ==
  ASSUME NEW A, Ready(A), A.fmt \in {"bitmap", "full"} \/ ~A.jumbled
  PROVE  Calm(A)
  BY JumbledSparse DEF Calm

-----------------------------------------------------------------------------
(* Every method keeps the structure it was chosen for *)

\* GB_UNJUMBLE keeps the structure for which the method was chosen.
LEMMA EndsUnjumbled ==
  ASSUME NEW A, Usable(A), Calm(A), NEW r \in Unjumbled(A)
  PROVE  /\ Ends(r)
         /\ r.info = "SUCCESS" => r.m.fmt = A.fmt \/ {r.m.fmt, A.fmt} \subseteq {"sparse", "hyper"}
  <1>1. Ready(A) /\ A \in Matrices /\ A.nzombies \in Nat /\ A.jumbled \in BOOLEAN /\ Header(A)
    BY HeaderType DEF Usable, Ready, Good, Matrices
  <1>2. CASE ~A.jumbled
    <2>1. r \in Done(A)
      BY <1>2 DEF Unjumbled
    <2> QED BY <2>1, EndsDone
  <1>3. CASE A.jumbled /\ A.nzombies > 0
    <2>1. r \in Wait(A)
      BY <1>3 DEF Unjumbled
    <2>2. Ends(r)
      BY <1>1, <2>1, TendsWait, EndsObeys DEF Tends
    <2> QED BY <1>3, <2>1, <2>2, WaitStaysSparse
  <1>4. CASE A.jumbled /\ A.nzombies = 0
    <2>1. r \in Unjumble(A)
      BY <1>4 DEF Unjumbled
    <2> QED BY <1>1, <2>1, ObeysPrune, EndsObeys
  <1> QED BY <1>1, <1>2, <1>3, <1>4

\* Methods 01 to 20.
LEMMA EndsUpdate ==
  ASSUME NEW A, Usable(A), Calm(A), NEW q, NEW r \in Update(A, q)
  PROVE  Ends(r)
  <1> DEFINE fits(B) == B.fmt = A.fmt \/ {B.fmt, A.fmt} \subseteq {"sparse", "hyper"}
             entries(B) == Done(UpdateEntries(B, q)) \cup NoMemory(B)
             update(B)  == IF fits(B) THEN Each(Done(B) \cup HyperHashBuild(B), entries)
                           ELSE {[m |-> B, info |-> "CRASH"]}
  <1>1. PICK x \in Unjumbled(A) : r \in Then(x, update(x.m))
    BY DEF Update, Each
  <1>2. Ends(x) /\ (x.info = "SUCCESS" => fits(x.m))
    BY EndsUnjumbled
  <1>3. ASSUME x.info = "SUCCESS", r \in update(x.m)
        PROVE  Ends(r)
    <2>1. PICK y \in Done(x.m) \cup HyperHashBuild(x.m) : r \in Then(y, entries(y.m))
      BY <1>2, <1>3 DEF Each
    <2>2. Ends(y)
      BY <2>1, EndsDone DEF HyperHashBuild
    <2>3. r \in entries(y.m) => Ends(r)
      BY EndsDone
    <2> HIDE DEF entries
    <2> QED BY <2>1, <2>2, <2>3, EndsStep
  <1> HIDE DEF update
  <1> QED BY <1>1, <1>2, <1>3, EndsStep

\* A bitmap or full matrix is made sparse, and has nothing to sort then.
LEMMA EndsNotDense ==
  ASSUME NEW A, Ready(A), NEW r \in NotDense(A)
  PROVE  Ends(r) /\ (r.info = "SUCCESS" /\ Calm(A) => Calm(r.m))
  <1>1. Header(A)
    BY HeaderType DEF Ready, Good
  <1>2. CASE A.fmt \in {"bitmap", "full"}
    <2>1. r \in AnyToSparse(A)
      BY <1>2 DEF NotDense
    <2>2. Ends(r)
      BY <1>1, <2>1, ObeysAnyTo, EndsObeys
    <2>3. ~A.jumbled
      BY <1>2, JumbledSparse
    <2>4. r.m.jumbled => A.jumbled
      BY <2>1, SafeAnyToSparse DEF Safe, Fits
    <2> QED BY <2>2, <2>3, <2>4 DEF Calm
  <1>3. CASE A.fmt \notin {"bitmap", "full"}
    <2>1. r \in Done(A)
      BY <1>3 DEF NotDense
    <2> QED BY <2>1, EndsDone
  <1> QED BY <1>2, <1>3

\* GB_bitmap_assign.
LEMMA EndsBitmap ==
  ASSUME NEW A \in Matrices, NEW q, NEW r \in BitmapAssign(A, q)
  PROVE  Ends(r)
  <1> DEFINE copied(B) == /\ Splat(q) /\ ~Scalar(q)
                          /\ q.A.fmt \in {"sparse", "hyper"} \cap SparsityControl(B)
             result(B) == IF Splat(q) /\ Scalar(q) THEN Splatted(B)
                          ELSE IF copied(B) THEN CopyMatrix(B, q) ELSE BitmapEntries(B, q)
             assign(B) == Done(result(B))
  <1>1. PICK z \in Each(AnyToBitmap(A), assign) \cup NoMemory(A) : r = FreeOnError(z)
    BY DEF BitmapAssign
  <1>2. CASE z \in NoMemory(A)
    BY <1>1, <1>2, EndsDone, EndsOnError
  <1>3. CASE z \in Each(AnyToBitmap(A), assign)
    <2>1. PICK y \in AnyToBitmap(A) : z \in Then(y, assign(y.m))
      BY <1>3 DEF Each
    <2>2. Ends(y)
      BY <2>1, HeaderType, ObeysAnyTo, EndsObeys
    <2> HIDE DEF result
    <2>3. z \in assign(y.m) => Ends(z)
      BY EndsDone
    <2>4. Ends(z)
      BY <2>1, <2>2, <2>3, EndsStep
    <2> QED BY <1>1, <2>4, EndsOnError
  <1> QED BY <1>1, <1>2, <1>3

-----------------------------------------------------------------------------
(* GB_subassigner does not crash *)

\* Sorting alone.
LEMMA EndsSorted ==
  ASSUME NEW A \in Matrices, A.nzombies = 0, NEW r \in Unjumbled(A)
  PROVE  Ends(r) /\ (r.info = "SUCCESS" => ~r.m.jumbled)
  <1>1. A.jumbled \in BOOLEAN /\ Header(A) /\ ~(A.nzombies > 0)
    BY HeaderType DEF Matrices
  <1>2. CASE ~A.jumbled
    <2>1. r \in Done(A)
      BY <1>2 DEF Unjumbled
    <2> QED BY <1>2, <2>1, EndsDone
  <1>3. CASE A.jumbled
    <2>1. r \in Unjumble(A)
      BY <1>1, <1>3 DEF Unjumbled
    <2> QED BY <1>1, <2>1, PruneKeeps, ObeysPrune, EndsObeys
  <1> QED BY <1>2, <1>3

\* Any method, with the structure that it was chosen for.
LEMMA EndsSubassigner ==
  ASSUME NEW D, NEW q, NEW m, Fed(D, q, m), Calm(D), NEW r \in Subassigner(D, q, m)
  PROVE  Ends(r)
  <1> DEFINE settled == IsDense(D) /\ ~HasPending(D) /\ D.nzombies = 0 /\ D.fmt # "bitmap"
             apply(B) ==
               CASE ByBitmap(D, q, m) -> BitmapAssign(B, q)
                 [] ~ByBitmap(D, q, m) /\ m = "21"  -> Done(Splatted(B))
                 [] ~ByBitmap(D, q, m) /\ m = "24"  -> Done(CopyMatrix(B, q)) \cup NoMemory(D)
                 [] ~ByBitmap(D, q, m) /\ m = "05e" -> Done(CopyPattern(B, q)) \cup NoMemory(D)
                 [] ~ByBitmap(D, q, m) /\ m = "25"  -> Done(CopyMasked(B, q)) \cup NoMemory(D)
                 [] ~ByBitmap(D, q, m) /\ m = "26"  -> Done(Append26(B, q)) \cup NoMemory(D)
                 [] ~ByBitmap(D, q, m) /\ m = "update" -> Update(B, q)
             start == IF settled THEN Unjumbled(D) ELSE Done(D)
             applied == Each(start, apply)
  <1>1. PICK y \in {FreeOnError(z) : z \in applied} : r \in Then(y, Block(y.m))
    BY DEF Subassigner, Each
  <1>2. PICK z \in applied : y = FreeOnError(z)
    BY <1>1
  <1>3. PICK x \in start : z \in Then(x, apply(x.m))
    BY <1>2 DEF Each
  <1>4. D \in Matrices /\ m \in Methods
    BY DEF Fed
  <1>5. Ends(x) /\ (x.info = "SUCCESS" => Fed(x.m, q, m) /\ x.m.fmt = D.fmt /\ Calm(x.m))
    <2>1. CASE settled
      <3>1. x \in Unjumbled(D)
        BY <1>3, <2>1
      <3>2. D.nzombies = 0
        BY <2>1
      <3> HIDE DEF settled, start, apply
      <3> QED BY <1>4, <3>1, <3>2, EndsSorted, FedUnjumbled DEF Calm
    <2>2. CASE ~settled
      <3>1. x \in Done(D)
        BY <1>3, <2>2
      <3> QED BY <3>1, EndsDone
    <2> QED BY <2>1, <2>2
  <1>6. Ends(z) /\ (z.info = "SUCCESS" => Tidy(z))
    <2>1. CASE x.info # "SUCCESS"
      BY <1>3, <1>5, <2>1 DEF Then
    <2>2. CASE x.info = "SUCCESS"
      <3>1. z \in apply(x.m) /\ Fed(x.m, q, m) /\ Calm(x.m)
        BY <1>3, <1>5, <2>2 DEF Then
      <3>2. ByBitmap(x.m, q, m) = ByBitmap(D, q, m)
        BY <1>5, <2>2 DEF ByBitmap
      <3>3. CASE ByBitmap(D, q, m)
        <4>1. z \in BitmapAssign(x.m, q) /\ x.m \in Matrices
          BY <3>1, <3>3 DEF Fed
        <4>2. Kept(z)
          BY <3>1, <3>2, <3>3, <4>1, FedForBitmap, KeptBitmapAssign
        <4> QED BY <4>1, <4>2, KeptTidy, EndsBitmap
      <3>4. CASE ~ByBitmap(D, q, m)
        <4>1. \/ m = "21" /\ z \in Done(Splatted(x.m))
              \/ m = "24" /\ z \in Done(CopyMatrix(x.m, q)) \cup NoMemory(D)
              \/ m = "05e" /\ z \in Done(CopyPattern(x.m, q)) \cup NoMemory(D)
              \/ m = "25" /\ z \in Done(CopyMasked(x.m, q)) \cup NoMemory(D)
              \/ m = "26" /\ z \in Done(Append26(x.m, q)) \cup NoMemory(D)
              \/ m = "update" /\ z \in Update(x.m, q)
          BY <1>4, <3>1, <3>4 DEF Methods
        <4> HIDE DEF apply
        <4>2. z.info = "SUCCESS" => Tidy(z)
          BY <1>4, <3>1, <3>2, <3>4, <4>1, TidyMethod
        <4>3. CASE m = "update"
          <5>1. Usable(x.m)
            BY <3>1, <4>3 DEF Fed, Usable, Ready, Good
          <5> QED BY <3>1, <4>1, <4>2, <4>3, <5>1, EndsUpdate
        <4>4. CASE m # "update"
          BY <4>1, <4>2, <4>4, EndsDone
        <4> QED BY <4>3, <4>4
      <3> QED BY <3>3, <3>4
    <2> QED BY <2>1, <2>2
  <1>7. Ends(y) /\ (y.info = "SUCCESS" => y.m \in Matrices)
    <2>1. Ends(y) /\ y.info = z.info
      BY <1>2, <1>6, EndsOnError
    <2>2. y.info = "SUCCESS" => y = z /\ Tidy(z)
      BY <1>2, <1>6, <2>1 DEF FreeOnError
    <2> QED BY <2>1, <2>2 DEF Tidy, Good
  <1>8. y.info = "SUCCESS" /\ r \in Block(y.m) => Ends(r)
    BY <1>7, HeaderType, TendsWaiters, EndsObeys DEF Tends
  <1> QED BY <1>1, <1>7, <1>8, EndsStep

\* The second phase of GrB_assign with replace.
LEMMA EndsReplaceOutside ==
  ASSUME NEW A, Usable(A), NEW q, NEW r \in ReplaceOutside(A, q)
  PROVE  Ends(r)
  <1>1. PICK y \in Each(WaitIf(HasPending(A), A), NotDense) :
          r \in Then(y, Done(DeleteOutside(y.m, q)))
    BY DEF ReplaceOutside, Each
  <1>2. PICK x \in WaitIf(HasPending(A), A) : y \in Then(x, NotDense(x.m))
    BY <1>1 DEF Each
  <1>3. Ready(A) /\ Header(A)
    BY HeaderType DEF Usable, Ready, Good
  <1>4. Ends(x)
    BY <1>3, TendsWaiters, EndsObeys DEF Tends
  <1>5. x.info = "SUCCESS" => Ready(x.m)
    BY <1>3, SafeWaitIf DEF Safe, Ready
  <1>6. Ends(y)
    BY <1>2, <1>4, <1>5, EndsNotDense, EndsStep
  <1>7. r \in Done(DeleteOutside(y.m, q)) => Ends(r)
    BY EndsDone
  <1> QED BY <1>1, <1>6, <1>7, EndsStep

\* GB_assign and GB_subassign.
LEMMA EndsAssignBody ==
  ASSUME NEW D, NEW q, NEW m, Fed(D, q, m), Calm(D), NEW r \in AssignBody(D, q, m)
  PROVE  Ends(r)
  <1> DEFINE outside == q.kind = "assign" /\ q.M # NoMatrix /\ q.replace /\ ~Whole(q)
             bitmap  == /\ q.kind = "assign"
                        /\ ByBitmap(D, q, m) \/ (outside /\ D.fmt \in {"bitmap", "full"})
             inside  == IF bitmap THEN BitmapAssign(D, q) ELSE Subassigner(D, q, m)
  <1>1. AssignBody(D, q, m)
          = IF outside /\ ~bitmap THEN Each(inside, LAMBDA B : ReplaceOutside(B, q)) ELSE inside
    BY DEF AssignBody
  <1>2. ASSUME NEW z \in inside
        PROVE  Ends(z)
    <2>1. CASE bitmap
      BY <1>2, <2>1, EndsBitmap DEF Fed
    <2>2. CASE ~bitmap
      BY <1>2, <2>2, EndsSubassigner
    <2> QED BY <2>1, <2>2
  <1>3. CASE r \in inside
    BY <1>2, <1>3
  <1>4. CASE ~bitmap /\ r \in Each(inside, LAMBDA B : ReplaceOutside(B, q))
    <2>1. PICK z \in inside : r \in Then(z, ReplaceOutside(z.m, q))
      BY <1>4 DEF Each
    <2>2. Kept(z)
      BY <1>4, KeptSubassigner
    <2>3. z.info = "SUCCESS" => Usable(z.m)
      BY <2>2, KeptUsable
    <2> QED BY <1>2, <2>1, <2>3, EndsReplaceOutside, EndsStep
  <1> HIDE DEF outside, bitmap, inside
  <1> QED BY <1>1, <1>3, <1>4

-----------------------------------------------------------------------------
(* Neither does a call *)

\* The iso value and the list of tuples do not matter to GB_conform.
LEMMA EndsWithIso ==
  ASSUME NEW D, Usable(D), Calm(D), NEW q, Asked(D, q), ~MustWait(D, q),
         NEW r \in WithIso(D, q)
  PROVE  Ends(r) /\ (r.info = "SUCCESS" => Calm(r.m))
  <1> DEFINE iso == IsoAfter(D, q)
             op  == IF HasPending(D) /\ iso = NotIso THEN q.accum ELSE NoOp
             B   == [D EXCEPT !.pend.op = op]
             E   == [B EXCEPT !.iso = iso]
  <1>1. /\ D \in Matrices /\ q.accum \in Ops /\ op \in Ops
    BY OpAssumption DEF Usable, Ready, Good, Asked
  <1>2. \/ iso = NotIso /\ r \in AnyToNonIso(B)
        \/ iso # NotIso /\ (r \in AnyToIso(B, iso) \/ r \in Done(E))
    BY DEF WithIso
  <1>3. D.iso # NotIso /\ HasPending(D) => op = NoOp
    BY DEF MustWait
  <1> HIDE DEF op
  <1>4. Usable(B) /\ SameShape(D, B)
    BY <1>1, <1>3, UsableRepended
  <1>5. B.control = D.control
    BY <1>1 DEF Matrices
  <1> HIDE DEF B
  <1>6. Calm(B)
    BY <1>4, <1>5, CalmSame DEF SameShape
  <1>7. Ready(B) /\ Header(B)
    BY <1>4, HeaderType DEF Usable, Ready, Good
  <1>8. /\ E.fmt = B.fmt /\ E.vlen = B.vlen /\ E.vdim = B.vdim
        /\ E.nvals = B.nvals /\ E.control = B.control /\ E.jumbled = B.jumbled
    BY <1>7 DEF Ready, Good, Matrices
  <1>9. Calm(E)
    BY <1>6, <1>8, CalmSame
  <1>10. CASE iso = NotIso /\ r \in AnyToNonIso(B)
    <2>1. Obeys(B, r)
      BY <1>7, <1>10, TendsIso DEF Tends
    <2>2. r.info = "SUCCESS" => SameShape(B, r.m) /\ r.m.control = B.control
      BY <1>7, <1>10, <2>1, NonIsoShape DEF Obeys, Follows
    <2> QED BY <1>6, <2>1, <2>2, EndsObeys, CalmSame DEF SameShape
  <1>11. CASE iso # NotIso /\ (r \in AnyToIso(B, iso) \/ r \in Done(E))
    <2>1. r \in Done(E) \cup NoMemory(PhybixFree(B))
      BY <1>11 DEF AnyToIso
    <2> HIDE DEF E
    <2> QED BY <1>9, <2>1, EndsDone
  <1> QED BY <1>2, <1>10, <1>11

\* What is cleared has nothing to sort, and a wait sorts.
LEMMA EndsPrepare ==
  ASSUME NEW A, Usable(A), Calm(A), NEW q, NEW r \in Prepare(A, q)
  PROVE  Ends(r) /\ (r.info = "SUCCESS" => Calm(r.m))
  <1> DEFINE early == Whole(q) /\ ~NoMask(q) /\ q.replace /\ q.accum = NoOp /\ ~UseBitmap(A, q)
             D == [A EXCEPT !.pend = IF Splat(q) THEN NoPending ELSE @]
             F == [A EXCEPT !.pend = NoPending]
             start == IF early THEN Clear(A) ELSE Done(D)
  <1>1. Ready(A) /\ A \in Matrices /\ Header(A)
    BY HeaderType DEF Usable, Ready, Good
  <1>2. PICK b \in start : r \in Then(b, WaitIf(MustWait(b.m, Effective(b.m, q)), b.m))
    BY DEF Prepare, Each
  <1>3. Ends(b) /\ (b.info = "SUCCESS" => Ready(b.m) /\ Calm(b.m))
    <2>1. CASE early
      <3>1. b \in Clear(A)
        BY <1>2, <2>1
      <3>2. Ends(b)
        BY <1>1, <3>1, TendsClear, EndsObeys DEF Tends
      <3>3. b.info = "SUCCESS" => Ready(b.m)
        BY <3>1, KeptClear, KeptUsable DEF Usable
      <3>4. ~b.m.jumbled
        BY <3>1, KeepsClear
      <3> QED BY <3>2, <3>3, <3>4 DEF Calm
    <2>2. CASE ~early
      <3>1. b \in Done(D)
        BY <1>2, <2>2
      <3>2. D = A \/ D = F
        BY <1>1 DEF Matrices
      <3>3. Ready(F) /\ Calm(F)
        <4>1. /\ F.fmt = A.fmt /\ F.vlen = A.vlen /\ F.vdim = A.vdim
              /\ F.nvals = A.nvals /\ F.control = A.control /\ F.jumbled = A.jumbled
          BY <1>1 DEF Matrices
        <4> QED BY <1>1, <4>1, ReadyUnpended, CalmSame
      <3> HIDE DEF D, F
      <3> QED BY <1>1, <3>1, <3>2, <3>3, EndsDone
    <2> QED BY <2>1, <2>2
  <1>4. ASSUME b.info = "SUCCESS", r \in WaitIf(MustWait(b.m, Effective(b.m, q)), b.m)
        PROVE  Ends(r) /\ (r.info = "SUCCESS" => Calm(r.m))
    <2>1. Ready(b.m) /\ Calm(b.m) /\ Header(b.m)
      BY <1>3, <1>4, HeaderType DEF Ready, Good
    <2>2. Ends(r)
      BY <1>4, <2>1, TendsWaiters, EndsObeys DEF Tends
    <2> QED BY <1>4, <2>1, <2>2, CalmWaitIf
  <1>5. CASE b.info # "SUCCESS"
    BY <1>2, <1>3, <1>5 DEF Then
  <1>6. CASE b.info = "SUCCESS"
    BY <1>2, <1>4, <1>6 DEF Then
  <1> QED BY <1>5, <1>6

\* GB_UNJUMBLE has sorted the matrix before its entries are updated.
LEMMA UpdateSorted ==
  ASSUME NEW A, Usable(A), A.fmt \in {"sparse", "hyper"}, NEW q, Asked(A, q),
         NEW r \in Update(A, q), r.info = "SUCCESS"
  PROVE  ~r.m.jumbled
  <1> DEFINE fits(B) == B.fmt = A.fmt \/ {B.fmt, A.fmt} \subseteq {"sparse", "hyper"}
             entries(B) == Done(UpdateEntries(B, q)) \cup NoMemory(B)
             update(B)  == IF fits(B) THEN Each(Done(B) \cup HyperHashBuild(B), entries)
                           ELSE {[m |-> B, info |-> "CRASH"]}
  <1>1. PICK x \in Unjumbled(A) : r \in Then(x, update(x.m))
    BY DEF Update, Each
  <1>2. Kept(x) /\ Fits(A, x.m) /\ (x.info = "SUCCESS" => ~x.m.jumbled)
    BY SafeUnjumbled, KeptSafe DEF Safe, Usable
  <1>3. x.info = "SUCCESS" /\ r \in update(x.m)
    BY <1>1 DEF Then
  <1>4. fits(x.m)
    <2>1. CASE ~fits(x.m)
      <3>1. r = [m |-> x.m, info |-> "CRASH"]
        BY <1>3, <2>1
      <3> QED BY <3>1
    <2> QED BY <2>1
  <1>5. PICK y \in Done(x.m) \cup HyperHashBuild(x.m) : r \in Then(y, entries(y.m))
    BY <1>3, <1>4 DEF Each
  <1>6. Usable(x.m) /\ Ready(x.m) /\ Asked(x.m, q) /\ x.m.fmt \in {"sparse", "hyper"}
    BY <1>2, <1>3, <1>4, KeptUsable, AskedSame DEF Fits, Usable
  <1>7. y.info = "SUCCESS" /\ r \in entries(y.m)
    BY <1>5 DEF Then
  <1>8. /\ y.m \in Matrices /\ Ready(y.m) /\ y.m.vlen = x.m.vlen /\ y.m.vdim = x.m.vdim
        /\ y.m.fmt = x.m.fmt /\ ~y.m.jumbled
    <2>1. CASE y \in Done(x.m)
      <3>1. y.m = x.m
        BY <1>7, <2>1, EndsDone
      <3> QED BY <1>2, <1>3, <1>6, <3>1 DEF Ready, Good
    <2>2. CASE y \in HyperHashBuild(x.m)
      <3>1. Ready(y.m) /\ Fits(x.m, y.m)
        BY <1>6, <1>7, <2>2, SafeHyperHashBuild DEF Safe, Ready
      <3>2. y.m.fmt = x.m.fmt
        BY <1>6, <1>7, <2>2, TurnsHash
      <3> QED BY <1>2, <1>3, <3>1, <3>2 DEF Fits, Ready, Good
    <2> QED BY <1>5, <2>1, <2>2
  <1>9. ~UpdateEntries(y.m, q).jumbled
    BY <1>6, <1>8, AskedSame, ReadyUpdateEntries
  <1>10. r.m = UpdateEntries(y.m, q)
    BY <1>7, EndsDone
  <1> QED BY <1>9, <1>10

\* The bitmap method leaves a bitmap, unless it replaces all of it.
LEMMA CalmBitmapDelete ==
  ASSUME NEW A \in Matrices, NEW q, ~Splat(q), NEW r \in BitmapAssign(A, q),
         r.info = "SUCCESS"
  PROVE  r.m.fmt = "bitmap"
  <1> DEFINE copied(B) == /\ Splat(q) /\ ~Scalar(q)
                          /\ q.A.fmt \in {"sparse", "hyper"} \cap SparsityControl(B)
             result(B) == IF Splat(q) /\ Scalar(q) THEN Splatted(B)
                          ELSE IF copied(B) THEN CopyMatrix(B, q) ELSE BitmapEntries(B, q)
             assign(B) == Done(result(B))
  <1>1. PICK z \in Each(AnyToBitmap(A), assign) \cup NoMemory(A) : r = FreeOnError(z)
    BY DEF BitmapAssign
  <1>2. z.info = "SUCCESS" /\ r = z
    <2>1. Ends(z)
      <3>1. CASE z \in NoMemory(A)
        BY <3>1, EndsDone
      <3>2. CASE z \in Each(AnyToBitmap(A), assign)
        <4>1. PICK y \in AnyToBitmap(A) : z \in Then(y, assign(y.m))
          BY <3>2 DEF Each
        <4>2. Ends(y)
          BY <4>1, HeaderType, ObeysAnyTo, EndsObeys
        <4> HIDE DEF result
        <4>3. z \in assign(y.m) => Ends(z)
          BY EndsDone
        <4> QED BY <4>1, <4>2, <4>3, EndsStep
      <3> QED BY <1>1, <3>1, <3>2
    <2>2. z.info = "SUCCESS"
      BY <1>1, <2>1, EndsOnError
    <2> QED BY <1>1, <2>2 DEF FreeOnError
  <1>3. z \in Each(AnyToBitmap(A), assign)
    BY <1>1, <1>2 DEF NoMemory
  <1>4. PICK y \in AnyToBitmap(A) : z \in Then(y, assign(y.m))
    BY <1>3 DEF Each
  <1>5. y.info = "SUCCESS" /\ z.m = result(y.m)
    <2>1. y.info = "SUCCESS" /\ z \in assign(y.m)
      BY <1>2, <1>4 DEF Then
    <2> HIDE DEF result
    <2> QED BY <1>2, <2>1, EndsDone
  <1>6. y.m.fmt = "bitmap"
    BY <1>4, <1>5, ToBitmapFormat
  <1>7. result(y.m) = BitmapEntries(y.m, q)
    OBVIOUS
  <1>8. BitmapEntries(y.m, q).fmt = y.m.fmt
    BY DEF BitmapEntries
  <1> QED BY <1>2, <1>5, <1>6, <1>7, <1>8

\* The entries of C(I,J) are deleted.
LEMMA EndsDelete ==
  ASSUME NEW A, Usable(A), Calm(A), NEW q, Asked(A, q), ~Splat(q), NEW dense,
         NEW y \in WaitIf(HasPending(A), A),
         NEW r \in Then(y, IF dense THEN BitmapAssign(y.m, q)
                           ELSE UNION {Then(x, Update(x.m, q)) : x \in NotDense(y.m)})
  PROVE  Ends(r) /\ (r.info = "SUCCESS" => Ready(r.m) /\ Calm(r.m))
  <1>1. Ready(A) /\ Orderly(A) /\ Header(A)
    BY HeaderType DEF Usable, Ready, Good
  <1>2. Kept(y) /\ Fits(A, y.m)
    BY <1>1, SafeWaitIf, KeptSafe DEF Safe
  <1>3. Ends(y) /\ (y.info = "SUCCESS" => Ready(y.m) /\ Calm(y.m))
    BY <1>1, TendsWaiters, EndsObeys, CalmWaitIf DEF Tends
  <1>4. Tidy(r)
    BY TidyDelete
  <1>5. CASE y.info # "SUCCESS"
    BY <1>3, <1>5 DEF Then
  <1>6. CASE y.info = "SUCCESS"
    <2>1. Usable(y.m) /\ y.m \in Matrices /\ Asked(y.m, q)
      BY <1>2, <1>6, KeptUsable, AskedSame DEF Fits, Usable, Ready, Good
    <2>2. r.info = "SUCCESS" => Ready(r.m)
      BY <1>4 DEF Tidy, Ready
    <2>3. CASE dense
      <3>1. r \in BitmapAssign(y.m, q)
        BY <1>6, <2>3 DEF Then
      <3>2. r.info = "SUCCESS" => r.m.fmt = "bitmap"
        BY <2>1, <3>1, CalmBitmapDelete
      <3> QED BY <2>1, <2>2, <3>1, <3>2, EndsBitmap, CalmDense
    <2>4. CASE ~dense
      <3>1. PICK x \in NotDense(y.m) : r \in Then(x, Update(x.m, q))
        BY <1>6, <2>4 DEF Then
      <3>2. /\ Ends(x) /\ (x.info = "SUCCESS" => Calm(x.m))
            /\ Kept(x) /\ Fits(y.m, x.m)
            /\ x.info = "SUCCESS" => x.m.fmt \in {"sparse", "hyper"}
        BY <1>3, <1>6, <2>1, <3>1, EndsNotDense, SafeNotDense, KeptSafe DEF Safe, Usable
      <3>3. CASE x.info # "SUCCESS"
        BY <3>1, <3>2, <3>3 DEF Then
      <3>4. CASE x.info = "SUCCESS"
        <4>1. Usable(x.m) /\ Calm(x.m) /\ Asked(x.m, q) /\ r \in Update(x.m, q)
          BY <2>1, <3>1, <3>2, <3>4, KeptUsable, AskedSame DEF Fits, Then
        <4>2. Ends(r) /\ (r.info = "SUCCESS" => ~r.m.jumbled)
          BY <3>2, <3>4, <4>1, EndsUpdate, UpdateSorted
        <4> QED BY <2>2, <4>2, CalmDense
      <3> QED BY <3>3, <3>4
    <2> QED BY <2>3, <2>4
  <1> QED BY <1>5, <1>6

\* GB_block at the end of a call.
LEMMA EndsBlock ==
  ASSUME NEW y, Ends(y), y.info = "SUCCESS" => Ready(y.m) /\ Calm(y.m),
         NEW r \in Then(y, Block(y.m))
  PROVE  Ends(r) /\ (r.info = "SUCCESS" => Calm(r.m))
  <1>1. CASE y.info # "SUCCESS"
    BY <1>1 DEF Then
  <1>2. CASE y.info = "SUCCESS"
    <2>1. r \in Block(y.m) /\ Ready(y.m) /\ Calm(y.m) /\ Header(y.m)
      BY <1>2, HeaderType DEF Then, Ready, Good
    <2>2. Ends(r)
      BY <2>1, TendsWaiters, EndsObeys DEF Tends
    <2> QED BY <2>1, <2>2, CalmBlock
  <1> QED BY <1>1, <1>2

\* Nothing is assigned, but C, or C(I,J), may be cleared.
LEMMA EndsEmptyMask ==
  ASSUME NEW A, Usable(A), Calm(A), NEW q, Asked(A, q), EmptyMask(q),
         NEW r \in EmptyMaskAssign(A, q)
  PROVE  Ends(r) /\ (r.info = "SUCCESS" => Calm(r.m))
  <1> DEFINE update(D) == Update(D, q)
             delete(B) == IF UseBitmap(A, q) THEN BitmapAssign(B, q)
                          ELSE Each(NotDense(B), update)
             clears == Whole(q) \/ q.kind = "assign"
             deleted == CASE ~q.replace -> Done(A)
                          [] q.replace /\ clears -> Clear(A)
                          [] OTHER -> Each(WaitIf(HasPending(A), A), delete)
  <1>1. PICK y \in deleted : r \in Then(y, Block(y.m))
    BY DEF EmptyMaskAssign, Each
  <1>2. Ready(A) /\ Header(A)
    BY HeaderType DEF Usable, Ready, Good
  <1>3. CASE ~q.replace
    <2>1. y \in Done(A)
      BY <1>1, <1>3
    <2>2. Ends(y) /\ Ready(y.m) /\ Calm(y.m)
      BY <1>2, <2>1, EndsDone DEF Done
    <2> QED BY <1>1, <2>2, EndsBlock
  <1>4. CASE q.replace /\ clears
    <2>1. y \in Clear(A)
      BY <1>1, <1>4
    <2>2. Ends(y) /\ ~y.m.jumbled
      BY <1>2, <2>1, TendsClear, EndsObeys, KeepsClear DEF Tends
    <2>3. y.info = "SUCCESS" => Ready(y.m)
      BY <2>1, KeptClear, KeptUsable DEF Usable
    <2>4. y.info = "SUCCESS" => Calm(y.m)
      BY <2>2 DEF Calm
    <2> QED BY <1>1, <2>2, <2>3, <2>4, EndsBlock
  <1>5. CASE q.replace /\ ~clears
    <2>1. deleted = Each(WaitIf(HasPending(A), A), delete)
      BY <1>5
    <2>2. PICK x \in WaitIf(HasPending(A), A) : y \in Then(x, delete(x.m))
      BY <1>1, <2>1 DEF Each
    <2>3. ~Splat(q)
      BY DEF EmptyMask, Splat, NoMask
    <2>4. delete(x.m) = IF UseBitmap(A, q) THEN BitmapAssign(x.m, q)
                        ELSE UNION {Then(w, Update(w.m, q)) : w \in NotDense(x.m)}
      BY DEF Each
    <2> HIDE DEF delete
    <2>5. Ends(y) /\ (y.info = "SUCCESS" => Ready(y.m) /\ Calm(y.m))
      BY <2>2, <2>3, <2>4, EndsDelete
    <2> HIDE DEF deleted
    <2> QED BY <1>1, <2>5, EndsBlock
  <1> HIDE DEF clears
  <1> QED BY <1>3, <1>4, <1>5

\* A whole call, except where the code goes wrong (see README).
LEMMA EndsAssigned ==
  ASSUME NEW A, Usable(A), Calm(A), NEW q, Asked(A, q),
         ~(Splat(q) /\ Scalar(q) /\ (A.nzombies > 0 \/ A.jumbled)),
         ~(Appends(A, q) /\ A.Y # NoHash),
         NEW r \in Assigned(A, q)
  PROVE  Ends(r) /\ (r.info = "SUCCESS" => Calm(r.m))
  <1> DEFINE body(B, e) == Each(WithIso(B, e), LAMBDA D : AssignBody(D, e, Method(B, e)))
             assigned(B) == body(B, Effective(B, q))
  <1>1. CASE EmptyMask(q)
    BY <1>1, EndsEmptyMask DEF Assigned
  <1>2. CASE ~EmptyMask(q)
    <2>1. PICK z \in Each(Each(Prepare(A, q), assigned), Conform) : r \in Then(z, Block(z.m))
      BY <1>2 DEF Assigned, Each
    <2>2. PICK y \in Each(Prepare(A, q), assigned) : z \in Then(y, Conform(y.m))
      BY <2>1 DEF Each
    <2>3. PICK x \in Prepare(A, q) : y \in Then(x, assigned(x.m))
      BY <2>2 DEF Each
    <2> DEFINE B == x.m
               e == Effective(B, q)
    <2>4. /\ Kept(x)
          /\ x.info = "SUCCESS" =>
               /\ x.m.vlen = A.vlen /\ x.m.vdim = A.vdim
               /\ ~MustWait(x.m, Effective(x.m, q))
               /\ Splat(q) => ~HasPending(x.m) /\ x.m.nzombies = A.nzombies
                              /\ (x.m.jumbled <=> A.jumbled)
               /\ Appends(x.m, Effective(x.m, q)) /\ x.m.Y # NoHash =>
                    Appends(A, q) /\ A.Y # NoHash
      BY <2>3, KeptPrepare
    <2>5. Ends(x) /\ (x.info = "SUCCESS" => Calm(x.m))
      BY <2>3, EndsPrepare
    <2>6. Ends(y) /\ Kept(y)
      <3>1. CASE x.info # "SUCCESS"
        BY <2>3, <2>4, <2>5, <3>1 DEF Then
      <3>2. CASE x.info = "SUCCESS"
        <4>1. y \in body(B, e)
          BY <2>3, <3>2 DEF Then
        <4>2. PICK w \in WithIso(B, e) : y \in Then(w, AssignBody(w.m, e, Method(B, e)))
          BY <4>1 DEF Each
        <4>3. /\ Asked(A, e) /\ (Splat(e) <=> Splat(q)) /\ (Scalar(e) <=> Scalar(q))
          BY AskedEffective DEF Splat, Whole, NoMask, Scalar
        <4>4. Usable(B) /\ Asked(B, e) /\ Calm(B)
          BY <2>4, <2>5, <3>2, <4>3, KeptUsable, AskedSame
        <4>5. /\ ~MustWait(B, e) /\ (Splat(e) => ~HasPending(B))
              /\ Splat(e) /\ Scalar(e) => B.nzombies = 0 /\ ~B.jumbled
              /\ Appends(B, e) => B.Y = NoHash
          <5>1. A.nzombies \in Nat
            BY DEF Usable, Ready, Good, Matrices
          <5>2. Splat(q) /\ Scalar(q) => A.nzombies = 0 /\ ~A.jumbled
            BY <5>1
          <5> QED BY <2>4, <3>2, <4>3, <5>2
        <4> HIDE DEF B, e
        <4>6. IF w.info = "SUCCESS" THEN Fed(w.m, e, Method(B, e)) ELSE Kept(w)
          BY <4>2, <4>4, <4>5, FedWithIso
        <4>7. Ends(w) /\ (w.info = "SUCCESS" => Calm(w.m))
          BY <4>2, <4>4, <4>5, EndsWithIso
        <4> QED BY <4>2, <4>6, <4>7, KeptAssignBody, EndsAssignBody DEF Then
      <3> QED BY <3>1, <3>2
    <2>7. Ends(z) /\ (z.info = "SUCCESS" => Ready(z.m) /\ Calm(z.m))
      <3>1. CASE y.info # "SUCCESS"
        BY <2>2, <2>6, <3>1 DEF Then
      <3>2. CASE y.info = "SUCCESS"
        <4>1. Ready(y.m) /\ Header(y.m) /\ z \in Conform(y.m)
          BY <2>2, <2>6, <3>2, KeptUsable, HeaderType DEF Usable, Ready, Good, Then
        <4> QED BY <4>1, ObeysConform, EndsObeys, CalmConform
      <3> QED BY <3>1, <3>2
    <2> QED BY <2>1, <2>7, EndsBlock
  <1> QED BY <1>1, <1>2

\* No reply of AbstractMatrix is a crash.
LEMMA SurvivesNext ==
  ASSUME Intact, SurvivingNext
  PROVE  reply'.info # "CRASH"
  <1>1. ASSUME NEW call, NEW info, NEW val, info # "CRASH", Abstract!Reply(call, info, val)
        PROVE  reply'.info # "CRASH"
    BY <1>1 DEF Abstract!Reply
  <1>2. ASSUME NEW call, NEW B, Abstract!Fail(call, B)
        PROVE  reply'.info # "CRASH"
    BY <1>1, <1>2 DEF Abstract!Fail
  <1>3. ASSUME NEW call, NEW B, Abstract!Update(call, B)
        PROVE  reply'.info # "CRASH"
    BY <1>1, <1>2, <1>3 DEF Abstract!Update
  <1>4. ASSUME NEW call, NEW info, NEW v, info # "CRASH", Abstract!Observe(call, info, v)
        PROVE  reply'.info # "CRASH"
    BY <1>1, <1>2, <1>4 DEF Abstract!Observe
  <1>5. Abstract!Next
    BY RefinesNext
  <1>6. CASE Abstract!Refuse
    BY <1>1, <1>6 DEF Abstract!Refuse
  <1>7. CASE Abstract!Serve
    <2>1. CASE \E p \in Indices, s \in Val, t \in Types, accum \in Ops :
                 Abstract!Set(p, s, t, accum)
      BY <1>1, <1>3, <2>1 DEF Abstract!Set
    <2>2. CASE \E p \in Indices : Abstract!Remove(p) \/ Abstract!Extract(p)
      BY <1>3, <1>4, <2>2 DEF Abstract!Remove, Abstract!Extract
    <2>3. CASE Abstract!Nvals
      BY <1>4, <2>3 DEF Abstract!Nvals
    <2>4. CASE Abstract!Clear
      BY <1>3, <2>4 DEF Abstract!Clear
    <2>5. CASE \E d \in NewDims : Abstract!Resize(d)
      BY <1>3, <2>5 DEF Abstract!Resize
    <2>6. CASE \E T \in Results : Abstract!Assign(T)
      BY <1>3, <2>6 DEF Abstract!Assign
    <2>7. CASE \E call \in Abstract!Settings : Abstract!Update(call, AbsOf(C))
      BY <1>3, <2>7
    <2> QED BY <1>7, <2>1, <2>2, <2>3, <2>4, <2>5, <2>6, <2>7 DEF Abstract!Serve
  <1> QED BY <1>5, <1>6, <1>7 DEF Abstract!Next

\* Every step keeps unsorted matrices sparse, if it does not run out of memory, and
\* no step crashes.
LEMMA SurvivesStep ==
  ASSUME Intact, JumbledStaysSparse, SurvivingNext \/ SoundAssign
  PROVE  /\ reply'.info # "CRASH"
         /\ reply'.info = "OUT_OF_MEMORY" => MemoryMayFail
         /\ reply'.info # "OUT_OF_MEMORY" => JumbledStaysSparse'
  <1>1. CASE SurvivingNext
    <2>1. Next
      BY <1>1 DEF SurvivingNext, Next
    <2> QED BY <1>1, <2>1, SurvivesNext, MindsNext, CalmNext DEF Minded
  <1>2. CASE SoundAssign
    <2>1. PICK q \in Assignments :
            /\ ~KeepsZombies(q) /\ ~LeavesHash(q) /\ q.dims = <<C.vlen, C.vdim>>
            /\ Perform(<<"assignment", q>>, Assigned(C, q))
      BY <1>2 DEF SoundAssign, GrB_Matrix_assign
    <2>2. CASE Refuse(<<"assignment", q>>)
      BY <2>2 DEF Refuse, Reply, JumbledStaysSparse
    <2>3. CASE C.valid /\ \E r \in Assigned(C, q) :
                 C' = r.m /\ Reply(<<"assignment", q>>, r.info, NoVal)
      <3>1. PICK r \in Assigned(C, q) : C' = r.m /\ reply'.info = r.info
        BY <2>3 DEF Reply
      <3>2. Usable(C) /\ Calm(C) /\ Asked(C, q)
        BY <2>1, <2>3, IntactUsable, AskedAssignments DEF Calm, JumbledStaysSparse
      <3>3. Ends(r) /\ (r.info = "SUCCESS" => Calm(r.m))
        BY <2>1, <3>1, <3>2, EndsAssigned DEF KeepsZombies, LeavesHash
      <3> QED BY <3>1, <3>3 DEF Ends, Calm, JumbledStaysSparse
    <2> QED BY <2>1, <2>2, <2>3 DEF Perform
  <1> QED BY <1>1, <1>2

-----------------------------------------------------------------------------
(* The theorems *)

\* However an assignment is done, with zombies and tuples, in place or by copying
\* the structure of A or M, and wherever memory runs out, the user sees the
\* assignment that the user guide defines (GrB_assign, GxB_subassign), as long as
\* no call crashes.
THEOREM ImplementsAssign == SoundSpec /\ [](reply.info # "CRASH") => RefinesAssign
  <1> DEFINE Running == reply.info # "CRASH"
  <1>1. Intact /\ [SurvivingNext \/ SoundAssign]_vars /\ Running'
          => [AbstractAssigned!AssignNext]_<<AbsOf(C), reply>>
    <2>1. CASE SurvivingNext \/ SoundAssign
      BY <2>1, RefinesAssignNext
    <2>2. CASE UNCHANGED vars
      BY <2>2 DEF vars, AbsOf
    <2> QED BY <2>1, <2>2
  <1>2. Init => AbstractAssigned!Init
    BY InitStep, SameInit
  <1> HIDE DEF Running
  <1>3. SoundSpec /\ []Running => RefinesAssign
    BY <1>1, <1>2, AssignInvariant, PTL DEF SoundSpec, RefinesAssign, AbstractAssigned!AssignSpec
  <1> QED BY <1>3 DEF Running

\* Unless memory runs out, no assignment is left with a matrix that GB_UNJUMBLE,
\* where it has to remove zombies too, has given another structure than the one
\* that the method was chosen for, and no call crashes.
THEOREM NoCrash ==
  SoundSpec /\ [](reply.info # "OUT_OF_MEMORY")
    => [](JumbledStaysSparse /\ reply.info # "CRASH")
  <1> DEFINE Enough == reply.info # "OUT_OF_MEMORY"
             Survived == JumbledStaysSparse /\ reply.info # "CRASH"
  <1>1. Init => Survived
    BY CalmInit DEF Init
  <1>2. Intact /\ Survived /\ [SurvivingNext \/ SoundAssign]_vars /\ Enough' => Survived'
    <2>1. CASE SurvivingNext \/ SoundAssign
      BY <2>1, SurvivesStep
    <2>2. CASE UNCHANGED vars
      BY <2>2 DEF vars, JumbledStaysSparse
    <2> QED BY <2>1, <2>2
  <1> HIDE DEF Enough, Survived
  <1>3. SoundSpec /\ []Enough => []Survived
    BY <1>1, <1>2, AssignInvariant, PTL DEF SoundSpec
  <1> QED BY <1>3 DEF Enough, Survived

\* Where memory does not fail, the user always sees the assignment that the user
\* guide defines (GrB_assign, GxB_subassign).
THEOREM ImplementsWithMemory ==
  ASSUME ~MemoryMayFail
  PROVE  SoundSpec => RefinesAssign
  <1> DEFINE Survived == /\ JumbledStaysSparse
                         /\ reply.info # "CRASH" /\ reply.info # "OUT_OF_MEMORY"
             Running == reply.info # "CRASH"
  <1>1. Init => Survived
    BY CalmInit DEF Init
  <1>2. Intact /\ Survived /\ [SurvivingNext \/ SoundAssign]_vars => Survived'
    <2>1. CASE SurvivingNext \/ SoundAssign
      BY <2>1, SurvivesStep
    <2>2. CASE UNCHANGED vars
      BY <2>2 DEF vars, JumbledStaysSparse
    <2> QED BY <2>1, <2>2
  <1>3. Survived => Running
    OBVIOUS
  <1>4. SoundSpec /\ []Running => RefinesAssign
    BY ImplementsAssign
  <1> HIDE DEF Survived, Running
  <1> QED BY <1>1, <1>2, <1>3, <1>4, AssignInvariant, PTL DEF SoundSpec
=============================================================================
