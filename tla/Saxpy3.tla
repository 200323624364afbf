-------------------------------- MODULE Saxpy3 --------------------------------
(***************************************************************************)
(* The specification of a team of fine tasks of saxpy3 and its properties. *)
(* A thread may run several tasks one after the other; the tasks then      *)
(* interleave in fewer ways than here.                                     *)
(***************************************************************************)
EXTENDS Saxpy3FineHash, Saxpy3FineGus

Task(t) ==
  \/ SkipFalse(t) \/ HashTask(t) \/ GusTask(t) \/ AccessHx(t)
  \/ Count(t) \/ Gather(t)
Master  == EndScatter \/ EndNumeric \/ Cumsum \/ EndGather
Finished == phase = "done" /\ UNCHANGED vars

Next == (\E t \in Team : Task(t)) \/ Master \/ Finished

\* Every thread of the team is scheduled; a parallel region ends when all
\* its tasks have, and the next statement runs
Fairness == (\A t \in Team : WF_vars(Task(t))) /\ WF_vars(Master)

Spec == Init /\ [][Next]_vars /\ Fairness
-----------------------------------------------------------------------------
Labels == {"find", "fast", "lock", "write", "update", "store", "unlock",
           "restore", "flag", "put"}
Phases == {"scatter", "numeric", "count", "gather", "done"}
TermType == (Team \X Nat) \cup {Garbage}

\* Type invariant of the team and its workspace
TypeOK ==
  /\ job \in JobType
  /\ hsize \in Nat \ {0}
  /\ phase \in Phases
  /\ pos \in [Team -> Nat \ {0}]
  /\ pc \in [Team -> Labels]
  /\ probe \in [Team -> Nat]
  /\ hf \in [Team -> [h : 0 .. VLen, f : 0 .. 3]]
  /\ zold \in [Team -> SUBSET TermType]
  /\ Hf \in [SlotIndices -> [h : 0 .. VLen, f : 0 .. 3]]
  /\ Hx \in [SlotIndices -> SUBSET TermType]
  /\ my_cjnz \in [Team -> Nat]

\* The task owns the lock of its slot (Gustavson's ANY kernels have no lock)
Owns(t) ==
  /\ InNumeric(t)
  /\ pc[t] \in {"write", "update", "store", "unlock", "restore"}
  /\ ~(UseGustavson /\ LockFree)

\* Mutual exclusion: an entry of Hf is marked as locked exactly while one
\* task is in its critical section, and no other task is.  An unlock with
\* a prior value, or a plain write of Hf, could break this.
LockSound ==
  /\ \A t, u \in Team : Owns(t) /\ Owns(u) /\ Slot(t) = Slot(u) => t = u
  /\ \A s \in SlotIndices : Hf[s].f = 3 <=> \E t \in Team : Owns(t) /\ Slot(t) = s

\* An update that is not atomic is exclusive: between its read of Hx and its
\* write no other task changes the value, with or without the lock.
UpdateExclusive ==
  \A t \in Team : pc[t] = "store" => zold[t] = Hx[Slot(t)]

\* The entries of the table from the first one of index i up to slot s
Path(i, s) == LET home == (257 * i) % hsize
              IN  {(home + k) % hsize : k \in 0 .. (s + hsize - home) % hsize}

\* Linear probing works once the mask is in the table: no index is in it
\* twice, and the way to it from its first slot is never interrupted by an
\* empty slot, although entries are claimed by many tasks at once.
TableSound ==
  ~UseGustavson /\ phase # "scatter" =>
    \A s \in SlotIndices : Hf[s].h # 0 =>
      /\ \A r \in SlotIndices : Hf[r].h = Hf[s].h => r = s
      /\ \A r \in Path(Hf[s].h - 1, s) : Hf[r] # Empty

\* The terms of row i that C(i,j) is the sum of
Terms(i) == UNION {{<<t, p>> : p \in {q \in DOMAIN job.work[t] : job.work[t][q] = i}} :
                   t \in Team}
Wanted == {i \in Rows : MaskAllows(i) /\ Terms(i) # {}}

\* In the end C(:,j) has exactly the rows that have a term and that the mask
\* allows, each once, in consecutive positions; its value has every term (one
\* of them for the ANY monoid), none twice, and nothing uninitialised.
ResultRight ==
  phase = "done" =>
    /\ DOMAIN C = 0 .. Cardinality(Wanted) - 1
    /\ {C[p].i : p \in DOMAIN C} = Wanted
    /\ \A p \in DOMAIN C :
         IF job.monoid.any
         THEN \E c \in Terms(C[p].i) : C[p].x = {c}
         ELSE C[p].x = Terms(C[p].i)

\* Every task finds its slot, gets its lock and ends, and so does the team
Terminates == <>(phase = "done")

-----------------------------------------------------------------------------
\* The team implements TermSum: C(i,j) is what has been written to the place
\* of i in Hx, once it is known to be the place of i.
SumOf(i) == UNION {Hx[s] : s \in {s \in SlotIndices : RowAt(s) = i /\ Hx[s] # {Garbage}}}

\* With the ANY monoid one term, whichever, is as good as all of them
AnyTerm == <<0, 0>>
Seen(S)  == IF job.monoid.any /\ S # {} THEN {AnyTerm} ELSE S
ToDo(i)  == IF MaskAllows(i) THEN Seen(Terms(i)) \ Seen(SumOf(i)) ELSE {}

RowsWithTerms ==
  {i \in Rows : \E J \in Jobs, t \in Team : \E p \in DOMAIN J.work[t] : J.work[t][p] = i}

ToDoOfRows == [i \in RowsWithTerms |-> ToDo(i)]
SumOfRows  == [i \in RowsWithTerms |-> Seen(SumOf(i))]
NotGiven   == {<<-1, {}>>}
Given      == IF phase = "done"
              THEN {<<C[p].i, Seen(C[p].x)>> : p \in DOMAIN C}
              ELSE NotGiven

Sums == INSTANCE TermSum WITH
          Places   <- RowsWithTerms,
          Summands <- Team \X Nat,
          None     <- NotGiven,
          todo     <- ToDoOfRows,
          sum      <- SumOfRows,
          result   <- Given

\* However the tasks interleave, each term is added once to the sum of its
\* row and is never lost, and the result is given in the end.
ImplementsTermSum == Sums!Spec
=============================================================================
