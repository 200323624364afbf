------------------------------ MODULE MatrixWait ------------------------------
(***************************************************************************)
(* Deferred work: the list of pending tuples (src/Source/pending), and the *)
(* functions that finish it, GB_unjumble, GB_wait, GB_block and            *)
(* GrB_Matrix_wait (src/Source/wait), with the hyper_hash A->Y that they   *)
(* build, keep or drop (src/Source/hyper) and GB_conform of a matrix that  *)
(* may have pending tuples.                                                *)
(***************************************************************************)
EXTENDS MatrixConvert, FiniteSetsExt

-----------------------------------------------------------------------------
(* The list of pending tuples *)

\* Mutant of PendingAdd: only the last tuple decides if the list is sorted
PendingAddLocalOrder(A, p, s, t, op) ==
  LET tup  == A.pend.tup
      prev == tup[Len(tup)].pos
      new  == [pos |-> p, s |-> IF A.iso = NotIso THEN s ELSE NoScalar]
      list == IF tup = <<>>
              THEN [op |-> op, type |-> t, sorted |-> TRUE, tup |-> <<new>>]
              ELSE [A.pend EXCEPT !.sorted = prev[2] <= p[2], !.tup = Append(@, new)]
  IN  Done([A EXCEPT !.pend = list]) \cup NoMemory(PhybixFree(A))

\* GB_Pending_add: one more tuple.  The first one sets the operator and the
\* type; "sorted" records whether the tuples came in column order.
PendingAdd(A, p, s, t, op) ==
  LET tup  == A.pend.tup
      prev == tup[Len(tup)].pos
      inOrder == prev[2] < p[2] \/ (prev[2] = p[2] /\ prev[1] <= p[1])
      new  == [pos |-> p, s |-> IF A.iso = NotIso THEN s ELSE NoScalar]
      list == IF tup = <<>>
              THEN [op |-> op, type |-> t, sorted |-> TRUE, tup |-> <<new>>]
              ELSE [A.pend EXCEPT !.sorted = @ /\ inOrder, !.tup = Append(@, new)]
  IN  Done([A EXCEPT !.pend = list]) \cup NoMemory(PhybixFree(A))

\* The pending tuples of position p, by their place in the list
PendingAt(A, p) == {k \in DOMAIN A.pend.tup : A.pend.tup[k].pos = p}

\* The value once tuple k is added, if v has it for the tuples of K before k:
\* the first tuple is cast to the matrix type and each later one, in the order
\* of arrival, is applied to the value so far (GB_builder sorts stably).
ValueAfter(A, K, v, k) ==
  LET before == {l \in K : l < k}
      tuple  == A.pend.tup[k]
  IN  IF before = {} THEN Cast(A.pend.type, tuple.s)
      ELSE Apply(A.pend.op, v[Max(before)], A.pend.type, tuple.s)

\* Mutant of Assembled: the last tuple wins, whatever the operator
AssembledLast(A, p) ==
  LET K == PendingAt(A, p)
  IN  IF A.iso # NotIso THEN A.iso ELSE Cast(A.pend.type, A.pend.tup[Max(K)].s)

\* The value that the pending tuples of position p build
Assembled(A, p) ==
  LET K == PendingAt(A, p)
      v == CHOOSE v \in [K -> Val] : \A k \in K : v[k] = ValueAfter(A, K, v, k)
  IN  IF A.iso # NotIso THEN A.iso ELSE v[Max(K)]

\* T, a new hypersparse matrix with just the pending tuples of A
BuildPending(A) ==
  LET held == PendingPos(A)
      vecs == {p[2] : p \in held}
  IN  [A EXCEPT !.fmt = "hyper",
                !.entry = [p \in Pos |-> IF p \in held THEN Assembled(A, p) ELSE Absent],
                !.nvals = Cardinality(held), !.nzombies = 0,
                !.nne = Cardinality(vecs), !.h = vecs, !.Y = NoHash,
                !.jumbled = FALSE, !.unsorted = {}, !.pend = NoPending,
                !.control = Formats, !.nohash = FALSE]

-----------------------------------------------------------------------------
(* The steps of GB_wait *)

\* GB_unjumble: the vectors are sorted; zombies and pending tuples stay
Unjumble(A) ==
  LET B == UpdateNne(A)
  IN  IF ~A.jumbled THEN Done(B)
      ELSE Done([B EXCEPT !.jumbled = FALSE, !.unsorted = {}]) \cup NoMemory(B)

\* GB_hyper_prune: drop the empty vectors from the hyperlist
HyperPrune(A) ==
  LET B == UpdateNne(A)
  IN  IF A.fmt # "hyper" THEN Done(A)
      ELSE IF B.nne = Cardinality(B.h) THEN Done(B)
      ELSE Done([B EXCEPT !.h = Nonempty(B), !.Y = NoHash,
                          !.nne = Cardinality(Nonempty(B))]) \cup NoMemory(B)

\* GB_transplant: move all of T into C.  A sparse T with all entries present
\* becomes full, whatever C's sparsity control; C keeps its own settings.
Transplant(C, T) ==
  LET full == T.fmt = "full" \/ (T.fmt = "sparse" /\ AsIfFull(T))
  IN  [T EXCEPT !.fmt = IF full THEN "full" ELSE @,
                !.nvals = IF full THEN 0 ELSE @,
                !.Y = IF T.fmt = "hyper" /\ ~C.nohash THEN @ ELSE NoHash,
                !.control = C.control, !.nohash = C.nohash]

\* Mutant of TransplantConform: the matrix is left as the transplant made it
TransplantOnly(C, T) == Done(Transplant(C, T))

TransplantConform(C, T) == ConformSettled(Transplant(C, T))

\* GB_selector (GxB_NONZOMBIE) into W, then W is transplanted back
RemoveZombies(A) ==
  LET W == [A EXCEPT !.entry = [p \in Pos |-> IF @[p] = Zombie THEN Absent ELSE @[p]],
                     !.nvals = @ - A.nzombies, !.nzombies = 0, !.Y = NoHash]
      counted == [W EXCEPT !.nne = Cardinality(Nonempty(W))]
  IN  IF A.nzombies = 0 THEN Done(A)
      ELSE NoMemory(A)
             \cup UNION {Then(r, Done(Transplant(A, r.m))) : r \in HyperPrune(counted)}

\* GB_add of A and T, whose entries are disjoint, with the SECOND operator:
\* hypersparse if both are.  S has no hash.
AddPending(A, T) ==
  LET S == [A EXCEPT !.fmt = A.fmt,
                     !.entry = [p \in Pos |-> IF T.entry[p] # Absent
                                              THEN T.entry[p] ELSE A.entry[p]],
                     !.h = IF A.fmt = "hyper" THEN @ \cup T.h ELSE @,
                     !.Y = NoHash]
  IN  [S EXCEPT !.nvals = Cardinality(Held(S)), !.nne = Cardinality(Nonempty(S))]

\* Mutant of MergePending: the old hash is put back though the hyperlist grew
MergePendingStaleHash(A, T) ==
  LET keep == A.fmt = "hyper" /\ ~A.nohash /\ A.Y # NoHash
      restored(m) == IF keep /\ m.fmt = "hyper" /\ m.Y = NoHash
                     THEN [m EXCEPT !.Y = A.Y] ELSE m
  IN  {IF r.info = "SUCCESS" THEN [r EXCEPT !.m = restored(@)] ELSE r
         : r \in TransplantConform(A, AddPending(A, T))} \cup NoMemory(A)

\* The old hash is kept if the hyperlist has not changed, and is put back once
\* the result has been transplanted and conformed, if it is still hypersparse.
MergePending(A, T) ==
  LET S    == AddPending(A, T)
      keep == A.fmt = "hyper" /\ ~A.nohash /\ A.Y # NoHash /\ S.h = A.h
      restored(m) == IF keep /\ m.fmt = "hyper" /\ m.Y = NoHash
                     THEN [m EXCEPT !.Y = A.Y] ELSE m
  IN  {IF r.info = "SUCCESS" THEN [r EXCEPT !.m = restored(@)] ELSE r
         : r \in TransplantConform(A, S)} \cup NoMemory(A)

\* A has pending tuples or zombies: assemble T, prune, sort, and merge
FinishWork(A) ==
  LET T == BuildPending(A)
      pruned == RemoveZombies([A EXCEPT !.pend = NoPending])
      sorted == UNION {Then(r, Unjumble(r.m)) : r \in pruned}
      finish(B) == IF ~HasPending(A) THEN ConformSettled(B)
                   ELSE IF Nnz(B) = 0 THEN TransplantConform(B, T)
                   ELSE MergePending(B, T)
  IN  NoMemory(A) \cup UNION {Then(r, finish(r.m)) : r \in sorted}

\* GB_wait: if any step fails, nothing is left of A but its header
Wait(A) ==
  CASE A.fmt \in {"full", "bitmap"} -> Done(A)
    [] A.fmt \in {"hyper", "sparse"} /\ ~AnyPendingWork(A) -> Done(UpdateNne(A))
    [] A.fmt \in {"hyper", "sparse"} /\ AnyPendingWork(A) ->
         {FreeOnError(r) : r \in IF HasPending(A) \/ A.nzombies > 0
                                 THEN FinishWork(A) ELSE Unjumble(A)}

-----------------------------------------------------------------------------
(* Callers of GB_wait *)

\* GB_MATRIX_WAIT and GB_MATRIX_WAIT_IF_PENDING_OR_ZOMBIES
WaitIf(cond, A) == IF cond THEN Wait(A) ELSE Done(A)

\* GB_hyper_hash_build
HyperHashBuild(A) ==
  IF ~HyperHashNeed(A) THEN Done(A)
  ELSE Done([A EXCEPT !.Y = A.h]) \cup NoMemory(PhybixFree(A))

\* Mutant of Materialize: the hash is not built
MaterializeNoHash(A) == Wait(A)

Materialize(A) == UNION {Then(r, HyperHashBuild(r.m)) : r \in Wait(A)}

\* GrB_Matrix_wait with GrB_MATERIALIZE (GrB_COMPLETE does nothing)
MatrixWait(A) ==
  IF AnyPendingWork(A) \/ HyperHashNeed(A) THEN Materialize(A) ELSE Done(A)

\* GB_block: in blocking mode, or with too many pending tuples
Block(A) ==
  IF /\ AnyPendingWork(A) \/ HyperHashNeed(A)
     /\ Blocking \/ Len(A.pend.tup) >= Dense(A)
  THEN Materialize(A) ELSE Done(A)

\* Mutant of Conform: the pending tuples are not assembled first
ConformWithPending(A) == ConformSettled(A)

\* GB_conform of any matrix.  Only the bitmap structure needs the pending
\* tuples to be assembled first; the target was chosen before that.
Conform(A) ==
  IF HasPending(A) /\ ConformTarget(A) = {"bitmap"}
  THEN UNION {Then(r, AnyToBitmap(r.m)) : r \in Wait(ConformStart(A))}
  ELSE ConformSettled(A)
=============================================================================
