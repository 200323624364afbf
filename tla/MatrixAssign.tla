------------------------------ MODULE MatrixAssign ------------------------------
(***************************************************************************)
(* GrB_assign and GxB_subassign: C(I,J)<M> = accum (C(I,J), A), with a     *)
(* scalar or a matrix A (src/Source/assign).  An assignment is a record    *)
(*   kind     "assign": M is for all of C; "subassign": for C(I,J) only    *)
(*   dims     the dimensions of C                                          *)
(*   region   the positions of C(I,J)                                      *)
(*   M, comp, struct, replace      the mask and its descriptor             *)
(*   accum, A, s, type      A is NoMatrix for the scalar s; type is theirs *)
(* M and A are finished, though they may be jumbled, and are not C.  Their *)
(* entries are given at the positions of C that they are for.              *)
(***************************************************************************)
EXTENDS MatrixOps

CONSTANTS
  NoMatrix,       \* the mask, or the matrix A, is NULL
  False           \* the value that a mask reads as false

ASSUME FalseAssumption == False \in Val

\* Go on from every successful outcome
Each(outcomes, Step(_)) == UNION {Then(r, Step(r.m)) : r \in outcomes}

-----------------------------------------------------------------------------
(* What is asked for *)

NoMask(q)    == q.M = NoMatrix /\ ~q.comp
EmptyMask(q) == q.M = NoMatrix /\ q.comp
Scalar(q)    == q.A = NoMatrix
Whole(q)     == q.region = {p \in Pos : p[1] < q.dims[1] /\ p[2] < q.dims[2]}

\* C(:,:) = x or A: nothing of C is left
Splat(q) == Whole(q) /\ NoMask(q) /\ q.accum = NoOp

\* The mask lets the assignment write C(p)
MaskTrue(q, p) ==
  (q.M # NoMatrix => q.M.entry[p] \in Val /\ (q.struct \/ q.M.entry[p] # False)) # q.comp

Given(q, p) == IF Scalar(q) THEN q.s ELSE q.A.entry[p]

\* What C(p), in C(I,J), becomes; a zombie is as good as no entry
Result(C, q, p) ==
  LET old == IF C.entry[p] \in Val THEN C.entry[p] ELSE Absent
      new == Given(q, p)
  IN  CASE ~MaskTrue(q, p) -> IF q.replace THEN Absent ELSE old
        [] MaskTrue(q, p) /\ new = Absent -> IF q.accum = NoOp THEN Absent ELSE old
        [] OTHER ->
             IF C.iso # NotIso THEN C.iso
             ELSE IF q.accum = NoOp \/ old = Absent THEN Cast(q.type, new)
             ELSE Apply(q.accum, old, q.type, new)

EmptyMatrix(C) == Nnz(C) = 0 /\ ~HasPending(C) /\ C.nzombies = 0

\* GB_is_dense: zombies and the order of the entries do not matter
IsDense(A) == Nnz(A) = Dense(A)

-----------------------------------------------------------------------------
(* Methods 01 to 20: C keeps its structure *)

Before(p, r) == p[2] < r[2] \/ (p[2] = r[2] /\ p[1] < r[1])

\* The positions of S in column order
InOrder(S) ==
  [k \in 1 .. Cardinality(S) |->
     CHOOSE p \in S : Cardinality({r \in S : Before(r, p)}) = k - 1]

\* Mutant of InsertTuples: the tuples before them are not compared with
InsertTuplesUnchecked(C, q, S) ==
  LET new == [k \in 1 .. Cardinality(S) |->
                [pos |-> InOrder(S)[k],
                 s   |-> IF C.iso # NotIso THEN NoScalar ELSE Given(q, InOrder(S)[k])]]
      list == IF HasPending(C) THEN C.pend
              ELSE [op |-> IF C.iso # NotIso THEN NoOp ELSE q.accum, type |-> q.type,
                    sorted |-> TRUE, tup |-> <<>>]
  IN  [C EXCEPT !.pend = [list EXCEPT !.tup = @ \o new]]

\* Mutant of InsertTuples: an iso matrix is not told from the others
InsertTuplesNonIso(C, q, S) ==
  LET new == [k \in 1 .. Cardinality(S) |->
                [pos |-> InOrder(S)[k], s |-> Given(q, InOrder(S)[k])]]
      list == IF HasPending(C) THEN C.pend
              ELSE [op |-> q.accum, type |-> q.type, sorted |-> TRUE, tup |-> <<>>]
      last == list.tup[Len(list.tup)].pos
  IN  [C EXCEPT !.pend = [list EXCEPT !.tup = @ \o new,
                                      !.sorted = @ /\ ~(HasPending(C) /\ Before(new[1].pos, last))]]

\* The tasks insert in column order; what one of them, or an assignment or a
\* setElement before, has put last is compared with the first tuple of the next.
InsertTuples(C, q, S) ==
  LET new == [k \in 1 .. Cardinality(S) |->
                [pos |-> InOrder(S)[k],
                 s   |-> IF C.iso # NotIso THEN NoScalar ELSE Given(q, InOrder(S)[k])]]
      list == IF HasPending(C) THEN C.pend
              ELSE [op |-> IF C.iso # NotIso THEN NoOp ELSE q.accum, type |-> q.type,
                    sorted |-> TRUE, tup |-> <<>>]
      last == list.tup[Len(list.tup)].pos
  IN  [C EXCEPT !.pend = [list EXCEPT !.tup = @ \o new,
                                      !.sorted = @ /\ ~(HasPending(C) /\ Before(new[1].pos, last))]]

\* Mutant of UpdateEntries: a zombie that is brought back is still counted
UpdateEntriesForgetsUndelete(C, q) ==
  LET result(p) == IF p \in q.region THEN Result(C, q, p) ELSE C.entry[p]
      deleted   == {p \in q.region \cap Live(C) : result(p) = Absent}
      inserted  == {p \in q.region \ Held(C) : result(p) # Absent}
      B == [C EXCEPT !.entry = [p \in Pos |->
                        IF p \in deleted THEN Zombie
                        ELSE IF p \in inserted \/ result(p) = Absent THEN @[p] ELSE result(p)],
                     !.nzombies = @ + Cardinality(deleted)]
  IN  IF inserted = {} THEN B ELSE InsertTuples(B, q, inserted)

\* A live entry is changed or becomes a zombie, a zombie is brought back, and
\* an entry that is not in the structure becomes a pending tuple.
UpdateEntries(C, q) ==
  LET result(p) == IF p \in q.region THEN Result(C, q, p) ELSE C.entry[p]
      deleted   == {p \in q.region \cap Live(C) : result(p) = Absent}
      undeleted == {p \in q.region \cap Zombies(C) : result(p) # Absent}
      inserted  == {p \in q.region \ Held(C) : result(p) # Absent}
      B == [C EXCEPT !.entry = [p \in Pos |->
                        IF p \in deleted THEN Zombie
                        ELSE IF p \in inserted \/ result(p) = Absent THEN @[p] ELSE result(p)],
                     !.nzombies = @ + Cardinality(deleted) - Cardinality(undeleted)]
  IN  IF inserted = {} THEN B ELSE InsertTuples(B, q, inserted)

\* GB_UNJUMBLE: with zombies all the work is done, and C conformed
Unjumbled(C) ==
  CASE ~C.jumbled -> Done(C)
    [] C.jumbled /\ C.nzombies > 0 -> Wait(C)
    [] C.jumbled /\ C.nzombies = 0 -> Unjumble(C)

\* A search in C, or the extraction of its pattern, may build the hash of C.
\* The method is not chosen again if C is no longer sparse.
Update(C, q) ==
  LET fits(B) == B.fmt = C.fmt \/ {B.fmt, C.fmt} \subseteq {"sparse", "hyper"}
      entries(B) == Done(UpdateEntries(B, q)) \cup NoMemory(B)
      update(B)  == IF fits(B) THEN Each(Done(B) \cup HyperHashBuild(B), entries)
                    ELSE {[m |-> B, info |-> "CRASH"]}
  IN  Each(Unjumbled(C), update)

-----------------------------------------------------------------------------
(* Methods 21, 24, 05e, 25 and 26: C takes the structure of A or of M *)

\* Method 21: every entry has the iso value, which GB_assign_prep has set
Splatted(C) ==
  [AnyToFull(C) EXCEPT !.entry = [p \in Pos |-> IF InRange(C, p) THEN C.iso ELSE Absent]]

\* GB_dup_worker: C becomes a copy of X, with the entries and the iso value given
Duplicate(X, entry, iso) ==
  [X EXCEPT !.entry = entry, !.iso = iso, !.Y = NoHash, !.nne = NvecNonempty(X),
            !.nohash = FALSE]

CastValues(q, entry) ==
  [p \in Pos |-> IF entry[p] \in Val THEN Cast(q.type, entry[p]) ELSE entry[p]]

CastIso(q) == IF q.A.iso = NotIso THEN NotIso ELSE Cast(q.type, q.A.iso)

\* Method 24: if both are dense the values alone are copied
CopyMatrix(C, q) ==
  LET values == CastValues(q, q.A.entry)
      reuse  == IsDense(C) /\ IsDense(q.A) /\ ~q.A.jumbled
      B == IF reuse THEN [AnyToFull(C) EXCEPT !.entry = values, !.iso = CastIso(q),
                                              !.nzombies = 0, !.pend = NoPending,
                                              !.jumbled = FALSE, !.unsorted = {}]
           ELSE [Duplicate(q.A, values, CastIso(q)) EXCEPT !.control = C.control]
  IN  B

\* Method 05e: an empty C gets the pattern of the mask
CopyPattern(C, q) ==
  LET x == Cast(q.type, q.s)
  IN  Duplicate(q.M, [p \in Pos |-> IF q.M.entry[p] \in Val THEN x ELSE Absent], x)

\* Mutant of CopyMasked: an entry that A does not have is not counted as deleted
CopyMaskedUncounted(C, q) ==
  LET entry == [p \in Pos |-> CASE q.M.entry[p] \notin Val -> Absent
                                [] q.M.entry[p] \in Val /\ Given(q, p) = Absent -> Zombie
                                [] OTHER -> Cast(q.type, Given(q, p))]
  IN  Duplicate(q.M, entry, CastIso(q))

\* Method 25: the pattern of the mask again, with zombies where A has no entry
CopyMasked(C, q) ==
  LET entry == [p \in Pos |-> CASE q.M.entry[p] \notin Val -> Absent
                                [] q.M.entry[p] \in Val /\ Given(q, p) = Absent -> Zombie
                                [] OTHER -> Cast(q.type, Given(q, p))]
      B == Duplicate(q.M, entry, CastIso(q))
  IN  [B EXCEPT !.nzombies = Cardinality(Zombies(B))]

\* Method 26: the vectors of A are appended to the hyperlist; the hash stays
Append26(C, q) ==
  LET vecs == {p[2] : p \in q.region}
      new  == Cardinality(Nonempty(q.A))
  IN  [C EXCEPT !.entry = [p \in Pos |-> IF p[2] \in vecs THEN q.A.entry[p] ELSE @[p]],
                !.h = @ \cup vecs, !.nvals = @ + q.A.nvals,
                !.nne = IF @ >= 0 THEN @ + new ELSE @,
                !.jumbled = @ \/ q.A.jumbled, !.unsorted = @ \cup q.A.unsorted]

-----------------------------------------------------------------------------
(* GB_bitmap_assign *)

\* Mutant of BitmapEntries: replace stops at the edges of C(I,J)
BitmapEntriesInside(C, q) ==
  LET entry == [p \in Pos |-> IF p \in q.region THEN Result(C, q, p) ELSE C.entry[p]]
      B == [C EXCEPT !.entry = entry]
  IN  [B EXCEPT !.nvals = Cardinality(Live(B))]

\* Every entry of C(I,J) is set or deleted in place; GrB_assign with replace
\* also deletes what the mask does not protect outside of it.
BitmapEntries(C, q) ==
  LET entry == [p \in Pos |->
        CASE p \in q.region -> Result(C, q, p)
          [] p \notin q.region /\ q.kind = "assign" /\ q.replace /\ InRange(C, p)
               /\ ~MaskTrue(q, p) -> Absent
          [] OTHER -> C.entry[p]]
      B == [C EXCEPT !.entry = entry]
  IN  [B EXCEPT !.nvals = Cardinality(Live(B))]

\* A failure frees C
BitmapAssign(C, q) ==
  LET copied(B) == /\ Splat(q) /\ ~Scalar(q)
                   /\ q.A.fmt \in {"sparse", "hyper"} \cap SparsityControl(B)
      assign(B) == Done(IF Splat(q) /\ Scalar(q) THEN Splatted(B)
                        ELSE IF copied(B) THEN CopyMatrix(B, q) ELSE BitmapEntries(B, q))
  IN  {FreeOnError(r) : r \in Each(AnyToBitmap(C), assign) \cup NoMemory(C)}

-----------------------------------------------------------------------------
(* GB_subassigner_method: the choice of the method, and what is iso *)

\* Method 05e or 25: C becomes a copy of the pattern of M
CopiesMask(C, q) ==
  /\ q.M # NoMatrix /\ ~q.comp /\ q.struct /\ ~q.replace
  /\ Whole(q) /\ q.accum = NoOp /\ EmptyMatrix(C)

\* Method 26: all rows, and a range of columns just after the last one of C->h
Appends(C, q) ==
  LET vecs  == {p[2] : p \in q.region}
      first == IF C.h = {} THEN 0 ELSE Max(C.h) + 1
  IN  /\ NoMask(q) /\ ~Whole(q) /\ q.accum = NoOp /\ ~Scalar(q)
      /\ q.A.fmt = "sparse" /\ q.A.iso = NotIso /\ q.type = CType
      /\ C.fmt = "hyper" /\ C.iso = NotIso
      /\ vecs = first .. first + Cardinality(vecs) - 1
      /\ q.region = (0 .. C.vlen - 1) \X vecs

Method(C, q) ==
  CASE Splat(q) /\ Scalar(q)  -> "21"
    [] Splat(q) /\ ~Scalar(q) -> "24"
    [] CopiesMask(C, q) /\ Scalar(q) -> "05e"
    [] CopiesMask(C, q) /\ ~Scalar(q) /\ q.A.fmt \in {"bitmap", "full"} -> "25"
    [] Appends(C, q) -> "26"
    [] OTHER -> "update"

\* Where the method m cannot do it GB_bitmap_assign does
ByBitmap(C, q, m) ==
  CASE m \in {"21", "24"} -> C.fmt = "bitmap"
    [] m = "25" -> q.M.fmt \in {"bitmap", "full"}
    [] m \in {"05e", "26"} -> FALSE
    [] m = "update" ->
         \/ C.fmt = "bitmap"
         \/ C.fmt = "full" /\ (q.replace \/ (q.accum = NoOp /\ ~Scalar(q)))

\* All entries of the scalar or matrix that is assigned are known to be equal
IsoGiven(q) ==
  Scalar(q) \/ q.A.iso # NotIso \/ (q.A.fmt # "bitmap" /\ Nnz(q.A) = 1)

ValueGiven(q) ==
  CASE Scalar(q) -> q.s
    [] ~Scalar(q) /\ q.A.iso # NotIso -> q.A.iso
    [] ~Scalar(q) /\ q.A.iso = NotIso -> q.A.entry[CHOOSE p \in Live(q.A) : TRUE]

\* The iso value that C is to have, or NotIso
IsoAfter(C, q) ==
  LET x    == ValueGiven(q)
      cout == Cast(q.type, x)
      same == EmptyMatrix(C) \/ C.iso = cout
      iso  == /\ IsoGiven(q) /\ Method(C, q) # "26"
              /\ Method(C, q) = "update" => same
              /\ Method(C, q) = "update" /\ q.accum # NoOp =>
                   C.iso # NotIso /\ (EmptyMatrix(C) \/ Apply(q.accum, C.iso, q.type, x) = cout)
  IN  IF iso THEN cout ELSE NotIso

-----------------------------------------------------------------------------
(* GB_assign_prep *)

UseBitmap(C, q) ==
  C.fmt = "bitmap" \/ (q.replace /\ C.fmt = "full" /\ "bitmap" \in SparsityControl(C))

\* Without a mask, or if C is empty, nothing is replaced
Effective(C, q) ==
  [q EXCEPT !.replace = @ /\ ~NoMask(q) /\ ~EmptyMatrix(C)]

\* Mutant of MustWait: replace does not see that tuples may have to be deleted
MustWaitNoReplace(C, q) ==
  HasPending(C) /\ \/ q.accum = NoOp /\ ~Scalar(q) /\ q.A.fmt # "full"
                   \/ ~Compatible(C, q.type, q.accum)
                   \/ (C.iso # NotIso) # (IsoAfter(C, q) # NotIso)

\* A pending tuple cannot be deleted, and those to come must agree with it
MustWait(C, q) ==
  HasPending(C) /\ \/ q.replace
                   \/ q.accum = NoOp /\ ~Scalar(q) /\ q.A.fmt # "full"
                   \/ ~Compatible(C, q.type, q.accum)
                   \/ (C.iso # NotIso) # (IsoAfter(C, q) # NotIso)

\* The tuples that are still pending take the operator of the assignment
WithIso(C, q) ==
  LET iso == IsoAfter(C, q)
      B   == [C EXCEPT !.pend.op = IF HasPending(C) /\ iso = NotIso THEN q.accum ELSE NoOp]
  IN  CASE iso = NotIso -> AnyToNonIso(B)
        [] iso # NotIso /\ C.iso = NotIso -> AnyToIso(B, iso)
        [] iso # NotIso /\ C.iso # NotIso -> Done([B EXCEPT !.iso = iso])

\* An early clear, and the wait
Prepare(C, q) ==
  LET early == Whole(q) /\ ~NoMask(q) /\ q.replace /\ q.accum = NoOp /\ ~UseBitmap(C, q)
      start == IF early THEN Clear(C)
               ELSE Done([C EXCEPT !.pend = IF Splat(q) THEN NoPending ELSE @])
  IN  Each(start, LAMBDA B : WaitIf(MustWait(B, Effective(B, q)), B))

NotDense(C) == IF C.fmt \in {"bitmap", "full"} THEN AnyToSparse(C) ELSE Done(C)

\* An empty mask, complemented: nothing is assigned, but C, or C(I,J), is
\* cleared if C_replace is set.  C is not conformed.
EmptyMaskAssign(C, q) ==
  LET update(D) == Update(D, q)
      delete(B) == IF UseBitmap(C, q) THEN BitmapAssign(B, q) ELSE Each(NotDense(B), update)
      deleted == CASE ~q.replace -> Done(C)
                   [] q.replace /\ (Whole(q) \/ q.kind = "assign") -> Clear(C)
                   [] OTHER -> Each(WaitIf(HasPending(C), C), delete)
  IN  Each(deleted, Block)

-----------------------------------------------------------------------------
(* GB_subassigner, GB_assign and GB_subassign *)

Subassigner(C, q, m) ==
  LET settled == IsDense(C) /\ ~HasPending(C) /\ C.nzombies = 0 /\ C.fmt # "bitmap"
      apply(B) ==
        CASE ByBitmap(C, q, m) -> BitmapAssign(B, q)
          [] ~ByBitmap(C, q, m) /\ m = "21"  -> Done(Splatted(B))
          [] ~ByBitmap(C, q, m) /\ m = "24"  -> Done(CopyMatrix(B, q)) \cup NoMemory(C)
          [] ~ByBitmap(C, q, m) /\ m = "05e" -> Done(CopyPattern(B, q)) \cup NoMemory(C)
          [] ~ByBitmap(C, q, m) /\ m = "25"  -> Done(CopyMasked(B, q)) \cup NoMemory(C)
          [] ~ByBitmap(C, q, m) /\ m = "26"  -> Done(Append26(B, q)) \cup NoMemory(C)
          [] ~ByBitmap(C, q, m) /\ m = "update" -> Update(B, q)
      applied == Each(IF settled THEN Unjumbled(C) ELSE Done(C), apply)
  IN  Each({FreeOnError(r) : r \in applied}, Block)

\* GB_assign_zombie5: the entries outside of C(I,J) that M does not protect
DeleteOutside(C, q) ==
  LET doomed == {p \in Live(C) \ q.region : ~MaskTrue(q, p)}
  IN  [C EXCEPT !.entry = [p \in Pos |-> IF p \in doomed THEN Zombie ELSE @[p]],
                !.nzombies = @ + Cardinality(doomed)]

ReplaceOutside(C, q) ==
  Each(Each(WaitIf(HasPending(C), C), NotDense), LAMBDA B : Done(DeleteOutside(B, q)))

\* GrB_assign with replace has a second phase for the rest of C
AssignBody(C, q, m) ==
  LET outside == q.kind = "assign" /\ q.M # NoMatrix /\ q.replace /\ ~Whole(q)
      bitmap  == /\ q.kind = "assign"
                 /\ ByBitmap(C, q, m) \/ (outside /\ C.fmt \in {"bitmap", "full"})
      inside  == IF bitmap THEN BitmapAssign(C, q) ELSE Subassigner(C, q, m)
  IN  IF outside /\ ~bitmap THEN Each(inside, LAMBDA B : ReplaceOutside(B, q)) ELSE inside

\* The whole of a call.  The method is chosen after the wait, before C is given
\* its new iso value.  A failure after the assignment leaves it done.
Assigned(C, q) ==
  LET with(B, e)  == Each(WithIso(B, e), LAMBDA D : AssignBody(D, e, Method(B, e)))
      assigned(B) == with(B, Effective(B, q))
  IN  IF EmptyMask(q) THEN EmptyMaskAssign(C, q)
      ELSE Each(Each(Each(Prepare(C, q), assigned), Conform), Block)
=============================================================================
