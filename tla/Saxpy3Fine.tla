------------------------------ MODULE Saxpy3Fine ------------------------------
(***************************************************************************)
(* A team of fine tasks that computes one vector C(:,j) of C = A*B,        *)
(* C<M> = A*B or C<!M> = A*B together (GB_AxB_saxpy3).  The tasks share    *)
(* one workspace, Hf and Hx: a hash table, or Gustavson's dense vector.    *)
(* This module has what both methods share: the work, the workspace, the   *)
(* phases and the gathering of C(:,j).                                     *)
(*                                                                         *)
(* Each term A(i,k)*B(k,j) is a token <<task, place>>; a value in Hx is    *)
(* the set of the terms added into it, so a lost term shows.               *)
(***************************************************************************)
EXTENDS Integers, Sequences, FiniteSets, FiniteSetsExt

CONSTANTS
  TeamSize,       \* SaxpyTasks [].team_size
  VLen,           \* C->vlen (cvlen)
  Jobs            \* the products to compute: see JobType

Team == 0 .. TeamSize - 1
Rows == 0 .. VLen - 1

\* work [t]: the row indices i of the terms of task t, in the order of its
\* slice of B(:,j); bjnz: nnz (B(:,j)); Mj and Mtrue: the pattern of M(:,j)
\* and where it is true; inPlace: M is dense and not scattered; hash:
\* AxB_method is GxB_AxB_HASH, otherwise GxB_AxB_GUSTAVSON
Monoids == [any : BOOLEAN, atomicWrite : BOOLEAN, atomicUpdate : BOOLEAN]
JobType == [work : [Team -> Seq(Rows)], bjnz : Nat \ {0},
            mask : {"none", "M", "notM"}, Mj : Seq(Rows), Mtrue : SUBSET Rows,
            inPlace : BOOLEAN, hash : BOOLEAN, monoid : Monoids]

ASSUME TeamAssumption == TeamSize \in Nat \ {0} /\ VLen \in Nat \ {0}
ASSUME JobsAssumption ==
  /\ Jobs \subseteq JobType
  /\ \A J \in Jobs :
       LET pattern == {J.Mj[p] : p \in DOMAIN J.Mj}
       IN  /\ Cardinality(pattern) = Len(J.Mj) /\ J.Mtrue \subseteq pattern
           /\ J.inPlace => pattern = Rows
           \* the ANY monoid updates by a write (GB_macrofy_monoid)
           /\ J.monoid.any /\ J.monoid.atomicUpdate => J.monoid.atomicWrite

VARIABLES
  job,            \* the product computed
  hsize,          \* SaxpyTasks [].hsize, size of Hf and Hx
  phase,          \* the parallel region the team is in
  pos,            \* place of each task in the loop of its region
  pc,             \* where each task is in the body of that loop
  probe,          \* times each task has rehashed; a full turn is cut off
  hf,             \* local hf (or f, or i_mine) of each task
  zold,           \* the value read by an update that is not atomic
  Hf, Hx,         \* the shared workspace
  my_cjnz,        \* SaxpyTasks [].my_cjnz
  C               \* C(:,j): position -> row index and value

locals == <<pc, probe, hf, zold>>
vars   == <<job, hsize, phase, pos, locals, Hf, Hx, my_cjnz, C>>

-----------------------------------------------------------------------------
\* An entry (h,f) of Hf.  Gustavson's Hf [i] has no h, which is then 0.
\* f is 0: nothing here, 1: in the mask, 2: C(i,j) is here, 3: locked
Entry(h, f) == [h |-> h, f |-> f]
Empty       == Entry(0, 0)
Garbage     == <<0, 0>>             \* no term: Hx is not initialised

UseGustavson == hsize = VLen
SlotIndices  == 0 .. hsize - 1
Unlocked(i)  == Entry(i + 1, 2)     \* i_unlocked
Masked(i)    == Entry(i + 1, 1)     \* i_masked

FloorLog2(n) == CHOOSE k \in 0 .. n : 2^k <= n /\ n < 2^(k + 1)

\* The flops of C(:,j), with the work to scatter M(:,j)
Flops(J) ==
  LET mjnz == IF J.mask = "none" \/ J.inPlace THEN 0 ELSE Len(J.Mj)
  IN  (IF mjnz > 0 THEN mjnz ELSE J.bjnz)
        + MapThenSumSet(LAMBDA t : Len(J.work[t]), Team)

\* Mutant: the size is not doubled, and rounded down
HashTableSizeNotDoubled(J) ==
  LET size == 2^FloorLog2(Flops(J))
  IN  IF ~J.hash \/ Flops(J) >= VLen \div 2 \/ size >= VLen THEN VLen ELSE size

\* Twice the smallest power of 2 above the flops, or cvlen (Gustavson)
HashTableSize(J) ==
  LET size == 2 * 2^(FloorLog2(Flops(J)) + 1)
  IN  IF ~J.hash \/ Flops(J) >= VLen \div 2 \/ size >= VLen
      THEN VLen
      ELSE size

ASSUME TableAssumption == \A J \in Jobs : HashTableSize(J) \in Nat \ {0}

\* GB_PARTITION: the share of task t of the range 0 .. n - 1
Share(n, t) == (t * n) \div TeamSize .. ((t + 1) * n) \div TeamSize - 1

-----------------------------------------------------------------------------
\* C(i,j) may be computed
MaskAllows(i) ==
  CASE job.mask = "none" -> TRUE
    [] job.mask = "M"    -> i \in job.Mtrue
    [] job.mask = "notM" -> i \notin job.Mtrue

\* The indices of M(:,j) that task t looks at in phase 1
ToScatter(t) ==
  LET n == Len(job.Mj)
      first == (t * n) \div TeamSize
      last  == ((t + 1) * n) \div TeamSize
  IN  IF job.mask = "none" \/ (job.inPlace /\ ~UseGustavson)
      THEN <<>>
      ELSE SubSeq(job.Mj, first + 1, last)

\* The loop of task t in this region has this many iterations
Trips(t) ==
  IF phase = "scatter" THEN Len(ToScatter(t))
  ELSE IF phase = "numeric" THEN Len(job.work[t]) ELSE 1

Running(t)  == pos[t] <= Trips(t)
InNumeric(t) == phase = "numeric" /\ Running(t)
At(t, label) == InNumeric(t) /\ pc[t] = label

\* The row index of this iteration, and the place in Hf and Hx it looks at:
\* GB_HASHF, then GB_REHASH as often as the task has rehashed
Index(t) == IF phase = "scatter" THEN ToScatter(t)[pos[t]] ELSE job.work[t][pos[t]]
Slot(t)  == IF UseGustavson THEN Index(t) ELSE (257 * Index(t) + probe[t]) % hsize
Term(t)  == <<t, pos[t]>>

\* What follows an access to the workspace: go on at label, go round the
\* GB_HASH loop, or leave it for the next iteration
Goto(t, label) ==
  pc' = [pc EXCEPT ![t] = label] /\ UNCHANGED <<pos, probe>>
Rehash(t) ==
  /\ pc' = [pc EXCEPT ![t] = "find"]
  /\ probe' = [probe EXCEPT ![t] = (@ % hsize) + 1]
  /\ UNCHANGED pos
Advance(t) ==
  /\ pos' = [pos EXCEPT ![t] = @ + 1]
  /\ probe' = [probe EXCEPT ![t] = 0]
  /\ pc' = [pc EXCEPT ![t] = "find"]

\* Mutants: 3 is added to the flag; a locked entry is locked again
LockedByAdding(e) == Entry(e.h, e.f + 3)
MayLockAgain(e)   == TRUE

\* The lock of an entry is its flag 3
Locked(e) == Entry(e.h, 3)
MayLock(e) == e.f # 3

SetFlag(t, e) == Hf' = [Hf EXCEPT ![Slot(t)] = e]

-----------------------------------------------------------------------------
Init ==
  /\ job \in Jobs
  /\ hsize = HashTableSize(job)
  /\ phase = "scatter"
  /\ pos = [t \in Team |-> 1]
  /\ pc = [t \in Team |-> "find"]
  /\ probe = [t \in Team |-> 0]
  /\ hf = [t \in Team |-> Empty]
  /\ zold = [t \in Team |-> {}]
  /\ Hf = [s \in SlotIndices |-> Empty]
  /\ Hx = [s \in SlotIndices |-> {Garbage}]
  /\ my_cjnz = [t \in Team |-> 0]
  /\ C = << >>

\* The barrier at the end of a parallel region: every task has left it
Barrier(from, to) ==
  /\ phase = from
  /\ \A t \in Team : ~Running(t)
  /\ phase' = to
  /\ pos' = [t \in Team |-> 1]
  /\ UNCHANGED <<job, hsize, locals, Hf, Hx, C>>

\* Phase 1: M(i,j) is present but false
SkipFalse(t) ==
  /\ phase = "scatter" /\ Running(t) /\ Index(t) \notin job.Mtrue
  /\ Advance(t)
  /\ UNCHANGED <<job, hsize, phase, hf, zold, Hf, Hx, my_cjnz, C>>

EndScatter == Barrier("scatter", "numeric") /\ UNCHANGED my_cjnz
EndNumeric == Barrier("numeric", "count") /\ UNCHANGED my_cjnz

-----------------------------------------------------------------------------
\* Access to Hx.  The owner of the lock writes the first term; or adds to the
\* value, at once if the monoid has an atomic update (a compare-and-swap loop
\* counts as the step that succeeds), otherwise by a read and then a write.
\* With an atomic update a task may add without the lock: that ends its
\* iteration.
WriteHx(t) ==
  /\ At(t, "write")
  /\ Hx' = [Hx EXCEPT ![Slot(t)] = {Term(t)}]
  /\ Goto(t, "unlock")
  /\ UNCHANGED <<job, hsize, phase, hf, zold, Hf, my_cjnz, C>>

UpdateHx(t) ==
  /\ At(t, "update")
  /\ IF job.monoid.atomicUpdate
     THEN /\ Hx' = [Hx EXCEPT ![Slot(t)] = @ \cup {Term(t)}]
          /\ Goto(t, "unlock")
          /\ UNCHANGED zold
     ELSE /\ zold' = [zold EXCEPT ![t] = Hx[Slot(t)]]
          /\ Goto(t, "store")
          /\ UNCHANGED Hx
  /\ UNCHANGED <<job, hsize, phase, hf, Hf, my_cjnz, C>>

StoreHx(t) ==
  /\ At(t, "store")
  /\ Hx' = [Hx EXCEPT ![Slot(t)] = zold[t] \cup {Term(t)}]
  /\ Goto(t, "unlock")
  /\ UNCHANGED <<job, hsize, phase, hf, zold, Hf, my_cjnz, C>>

FastUpdateHx(t) ==
  /\ At(t, "fast")
  /\ Hx' = [Hx EXCEPT ![Slot(t)] = @ \cup {Term(t)}]
  /\ Advance(t)
  /\ UNCHANGED <<job, hsize, phase, hf, zold, Hf, my_cjnz, C>>

AccessHx(t) == WriteHx(t) \/ UpdateHx(t) \/ StoreHx(t) \/ FastUpdateHx(t)

\* Phase 3: a task counts the entries in its share of the workspace
MyEntries(t) == {s \in Share(hsize, t) : Hf[s].f = 2}
Count(t) ==
  /\ phase = "count" /\ Running(t)
  /\ my_cjnz' = [my_cjnz EXCEPT ![t] = Cardinality(MyEntries(t))]
  /\ Advance(t)
  /\ UNCHANGED <<job, hsize, phase, hf, zold, Hf, Hx, C>>

\* Mutant: the entries of the task itself are counted too
BeforeInclusive(t) == MapThenSumSet(LAMBDA u : my_cjnz[u], 0 .. t)

\* Phase 4: where each task of the team starts in C(:,j)
Before(t) == MapThenSumSet(LAMBDA u : my_cjnz[u], 0 .. t - 1)
Cumsum ==
  /\ Barrier("count", "gather")
  /\ my_cjnz' = [t \in Team |-> Before(t)]

\* Phase 5: a task copies the entries in its share to C(:,j), in their order
\* (a dense vector is copied in place; this is the same)
RowAt(s) == IF UseGustavson THEN s ELSE Hf[s].h - 1
Gather(t) ==
  /\ phase = "gather" /\ Running(t)
  /\ LET mine == MyEntries(t)
         Place(s) == my_cjnz[t] + Cardinality({r \in mine : r < s})
         places == {Place(s) : s \in mine}
     IN  C' = [p \in DOMAIN C \cup places |->
                 IF p \in places
                 THEN LET s == CHOOSE s \in mine : Place(s) = p
                      IN  [i |-> RowAt(s), x |-> Hx[s]]
                 ELSE C[p]]
  /\ Advance(t)
  /\ UNCHANGED <<job, hsize, phase, hf, zold, Hf, Hx, my_cjnz>>

EndGather == Barrier("gather", "done") /\ UNCHANGED my_cjnz
=============================================================================
