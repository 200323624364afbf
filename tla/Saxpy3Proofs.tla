----------------------------- MODULE Saxpy3Proofs -----------------------------
(***************************************************************************)
(* The fine tasks of saxpy3, for every team, every product and every table *)
(* size: mutual exclusion (Spec => []LockSound), updates that do not       *)
(* overlap (Spec => []UpdateExclusive), the hash table that the tasks fill *)
(* together (Spec => []TableSound) and, from these, the product itself     *)
(* (Spec => []ResultRight), phase by phase; in the end, that the steps of  *)
(* the team are those of TermSum (Spec => Sums!Safety).                    *)
(***************************************************************************)
EXTENDS Saxpy3, SequenceTheorems, FiniteSetTheorems, TLAPS

Entries == [h : 0 .. VLen, f : 0 .. 3]

\* The part of the type invariant that the locks depend on
Typed ==
  /\ job \in Jobs /\ hsize = HashTableSize(job)
  /\ phase \in Phases
  /\ pos \in [Team -> Nat \ {0}]
  /\ pc \in [Team -> Labels]
  /\ probe \in [Team -> Nat]
  /\ hf \in [Team -> Entries]
  /\ Hf \in [SlotIndices -> Entries]

\* Gustavson's kernels for the ANY monoid, which do without the lock
NoLocks == UseGustavson /\ LockFree

\* A task is in the middle of an iteration only in the numeric phase, where
\* its label fits the kernel; an entry that it has put aside is unlocked
Labelled(t) ==
  /\ pc[t] # "find" => InNumeric(t)
  /\ pc[t] \in {"flag", "put"} => NoLocks
  /\ pc[t] = "lock" => ~NoLocks
  /\ hf[t].f # 3

LInv == Typed /\ (\A t \in Team : Labelled(t)) /\ LockSound
-----------------------------------------------------------------------------
(* What the assumptions say of a job, its loops and its slots *)

LEMMA TeamIsFinite == TeamSize \in Nat \ {0} /\ Team \subseteq Nat /\ VLen \in Nat \ {0}
BY TeamAssumption DEF Team

LEMMA JobFields ==
  ASSUME NEW J \in Jobs
  PROVE  /\ J.work \in [Team -> Seq(Rows)]
         /\ J.Mj \in Seq(Rows)
         /\ J.monoid \in Monoids
         /\ J.inPlace \in BOOLEAN
         /\ J \in JobType
BY JobsAssumption DEF JobType

LEMMA SizeOfTable ==
  ASSUME Typed
  PROVE  hsize \in Nat \ {0}
BY TableAssumption DEF Typed

LEMMA NumericTrips ==
  ASSUME NEW t \in Team
  PROVE  InNumeric(t) <=> phase = "numeric" /\ pos[t] <= Len(job.work[t])
BY DEF InNumeric, Running, Trips

\* The share of a task lies within the range it is taken from
LEMMA ShareInRange ==
  ASSUME NEW n \in Nat, NEW t \in Team
  PROVE  /\ (t * n) \div TeamSize \in Nat
         /\ ((t + 1) * n) \div TeamSize \in Nat
         /\ ((t + 1) * n) \div TeamSize <= n
<1>1. t \in Nat /\ t + 1 <= TeamSize /\ TeamSize \in Nat /\ TeamSize > 0
  BY TeamAssumption DEF Team
<1>2. t * n \in Nat /\ (t + 1) * n \in Nat
  BY <1>1
<1>3. (t + 1) * n <= TeamSize * n
  BY <1>1
<1>4. \A a \in Nat : a \div TeamSize \in Nat
  BY <1>1
<1>5. \A a \in Nat : a <= TeamSize * n => a \div TeamSize <= n
  BY <1>1
<1> QED
  BY <1>2, <1>3, <1>4, <1>5

LEMMA IndexInRows ==
  ASSUME Typed, NEW t \in Team, phase \in {"scatter", "numeric"}, Running(t)
  PROVE  Index(t) \in Rows
<1>0. job.work[t] \in Seq(Rows) /\ job.Mj \in Seq(Rows) /\ pos[t] \in Nat \ {0}
  BY JobFields DEF Typed
<1>1. CASE phase = "numeric"
  <2>1. pos[t] \in 1 .. Len(job.work[t])
    BY <1>0, <1>1, NumericTrips DEF InNumeric
  <2> QED
    BY <1>0, <1>1, <2>1, ElementOfSeq DEF Index
<1>2. CASE phase = "scatter"
  <2> DEFINE n == Len(job.Mj)
             first == (t * n) \div TeamSize
             last  == ((t + 1) * n) \div TeamSize
  <2>1. n \in Nat /\ first \in Nat /\ last \in Nat /\ last <= n
    BY <1>0, ShareInRange, LenProperties
  <2>2. ToScatter(t) \in Seq(Rows)
    <3>1. SubSeq(job.Mj, first + 1, last) \in Seq(Rows)
      <4>1. first + 1 \in Int /\ last \in Int
        BY <2>1
      <4>2. \A p \in first + 1 .. last : job.Mj[p] \in Rows
        BY <1>0, <2>1, ElementOfSeq
      <4> HIDE DEF first, last
      <4> QED
        BY <4>1, <4>2, SubSeqProperties
    <3>2. <<>> \in Seq(Rows)
      OBVIOUS
    <3> QED
      BY <3>1, <3>2 DEF ToScatter
  <2>3. pos[t] \in 1 .. Len(ToScatter(t))
    BY <1>0, <1>2, <2>2, LenProperties DEF Running, Trips
  <2> QED
    BY <1>2, <2>2, <2>3, ElementOfSeq DEF Index
<1> QED
  BY <1>1, <1>2

LEMMA SlotInTable ==
  ASSUME Typed, NEW t \in Team, phase \in {"scatter", "numeric"}, Running(t)
  PROVE  Slot(t) \in SlotIndices
<1>1. Index(t) \in Rows /\ probe[t] \in Nat
  BY IndexInRows DEF Typed
<1>2. hsize \in Nat /\ hsize > 0 /\ Index(t) \in Nat
  BY <1>1, SizeOfTable DEF Rows
<1>3. CASE UseGustavson
  BY <1>1, <1>3 DEF Slot, UseGustavson, Rows, SlotIndices
<1>4. CASE ~UseGustavson
  <2>1. \A a \in Nat : a % hsize \in 0 .. hsize - 1
    BY <1>2
  <2> QED
    BY <1>1, <1>2, <1>4, <2>1 DEF Slot, SlotIndices
<1> QED
  BY <1>3, <1>4
-----------------------------------------------------------------------------
(* What an access of one task means for the others *)

\* The task goes somewhere, in its loop or round it
Moves(t) == \/ \E label \in Labels : Goto(t, label)
            \/ Rehash(t)
            \/ Advance(t)

\* One task takes an action within a parallel region
Steps(t) == UNCHANGED <<job, hsize, phase>> /\ Moves(t)

LEMMA StepTyped ==
  ASSUME Typed, NEW t \in Team, Steps(t)
  PROVE  /\ job' \in Jobs /\ hsize' = HashTableSize(job)' /\ phase' \in Phases
         /\ pos' \in [Team -> Nat \ {0}]
         /\ pc' \in [Team -> Labels]
         /\ probe' \in [Team -> Nat]
         /\ SlotIndices' = SlotIndices
<1>1. hsize \in Nat /\ hsize > 0
  BY SizeOfTable
<1>2. \A a \in Nat : (a % hsize) + 1 \in Nat
  BY <1>1
<1>3. pos' \in [Team -> Nat \ {0}] /\ pc' \in [Team -> Labels] /\ probe' \in [Team -> Nat]
  <2>1. CASE \E label \in Labels : Goto(t, label)
    BY <2>1 DEF Typed, Goto
  <2>2. CASE Rehash(t)
    BY <1>2, <2>2 DEF Typed, Rehash, Labels
  <2>3. CASE Advance(t)
    BY <2>3 DEF Typed, Advance, Labels
  <2> QED
    BY <2>1, <2>2, <2>3 DEF Steps, Moves
<1>4. job' = job /\ hsize' = hsize /\ phase' = phase
  BY DEF Steps
<1> QED
  BY <1>3, <1>4 DEF Typed, SlotIndices

LEMMA StepFrame ==
  ASSUME Typed, NEW t \in Team, Steps(t), NEW u \in Team, u # t
  PROVE  /\ pos'[u] = pos[u] /\ pc'[u] = pc[u]
         /\ InNumeric(u)' = InNumeric(u)
         /\ Slot(u)' = Slot(u)
         /\ Owns(u)' = Owns(u)
         /\ NoLocks' = NoLocks
<1>1. pos'[u] = pos[u] /\ pc'[u] = pc[u] /\ probe'[u] = probe[u]
  BY DEF Typed, Steps, Moves, Goto, Rehash, Advance
<1>2. job' = job /\ hsize' = hsize /\ phase' = phase
  BY DEF Steps
<1>3. InNumeric(u)' = InNumeric(u)
  BY <1>1, <1>2 DEF InNumeric, Running, Trips, ToScatter, UseGustavson
<1>4. Slot(u)' = Slot(u)
  BY <1>1, <1>2 DEF Slot, Index, ToScatter, UseGustavson
<1>5. Owns(u)' = Owns(u)
  BY <1>1, <1>2, <1>3 DEF Owns, UseGustavson, LockFree
<1>6. NoLocks' = NoLocks
  BY <1>2 DEF NoLocks, UseGustavson, LockFree
<1> QED
  BY <1>1, <1>3, <1>4, <1>5, <1>6

\* A task that goes on in its iteration stays at its slot
LEMMA GotoFrame ==
  ASSUME Typed, NEW t \in Team, NEW label \in Labels, Goto(t, label),
         UNCHANGED <<job, hsize, phase>>
  PROVE  /\ pc'[t] = label
         /\ InNumeric(t)' = InNumeric(t)
         /\ Slot(t)' = Slot(t)
<1>1. pc'[t] = label /\ pos' = pos /\ probe' = probe
  BY DEF Typed, Goto
<1>2. job' = job /\ hsize' = hsize /\ phase' = phase
  OBVIOUS
<1> QED
  BY <1>1, <1>2 DEF InNumeric, Running, Trips, ToScatter, Slot, Index, UseGustavson

\* A step that does not touch Hf, and neither takes nor gives up a lock
LEMMA KeepLocks ==
  ASSUME LInv, NEW t \in Team, Steps(t), Hf' = Hf,
         Owns(t)' <=> Owns(t), Owns(t) => Slot(t)' = Slot(t)
  PROVE  LockSound'
<1>1. \A u \in Team : (Owns(u)' <=> Owns(u)) /\ (Owns(u) => Slot(u)' = Slot(u))
  BY StepFrame DEF LInv
<1>2. SlotIndices' = SlotIndices
  BY StepTyped DEF LInv
<1> QED
  BY <1>1, <1>2 DEF LInv, LockSound

\* Taking the lock of an entry that nobody has
LEMMA TakeLock ==
  ASSUME LInv, NEW t \in Team, Steps(t), ~Owns(t), Owns(t)', Slot(t)' = Slot(t),
         Slot(t) \in SlotIndices, MayLock(Hf[Slot(t)]),
         SetFlag(t, Locked(Hf[Slot(t)]))
  PROVE  LockSound'
<1> DEFINE s == Slot(t)
<1>1. \A u \in Team : u # t => Owns(u)' = Owns(u) /\ Slot(u)' = Slot(u)
  BY StepFrame DEF LInv
<1>2. SlotIndices' = SlotIndices
  BY StepTyped DEF LInv
<1>3. \A u \in Team : ~(Owns(u) /\ Slot(u) = s)
  BY DEF LInv, LockSound, MayLock
<1>4. Hf[s] \in Entries
  BY DEF LInv, Typed
<1>5. Hf'[s].f = 3 /\ \A r \in SlotIndices : r # s => Hf'[r] = Hf[r]
  BY <1>4 DEF LInv, Typed, SetFlag, Locked, Entry, Entries
<1>6. ASSUME NEW u \in Team, NEW v \in Team, Owns(u)', Owns(v)', Slot(u)' = Slot(v)'
      PROVE  u = v
  BY <1>1, <1>3, <1>6 DEF LInv, LockSound
<1>7. ASSUME NEW r \in SlotIndices
      PROVE  Hf'[r].f = 3 <=> \E u \in Team : Owns(u)' /\ Slot(u)' = r
  <2>1. CASE r = s
    BY <1>5, <2>1
  <2>2. CASE r # s
    BY <1>1, <1>5, <2>2 DEF LInv, LockSound
  <2> QED
    BY <2>1, <2>2
<1> QED
  BY <1>2, <1>6, <1>7 DEF LockSound

\* Giving up the lock, with any entry that is not locked
LEMMA GiveUpLock ==
  ASSUME LInv, NEW t \in Team, Steps(t), Owns(t), ~Owns(t)',
         NEW e, e.f # 3, SetFlag(t, e)
  PROVE  LockSound'
<1> DEFINE s == Slot(t)
<1>1. \A u \in Team : u # t => Owns(u)' = Owns(u) /\ Slot(u)' = Slot(u)
  BY StepFrame DEF LInv
<1>2. SlotIndices' = SlotIndices
  BY StepTyped DEF LInv
<1>3. \A u \in Team : Owns(u) /\ Slot(u) = s => u = t
  BY DEF LInv, LockSound
<1>4. \A r \in SlotIndices : IF r = s THEN Hf'[r] = e ELSE Hf'[r] = Hf[r]
  BY DEF LInv, Typed, SetFlag
<1>5. ASSUME NEW u \in Team, NEW v \in Team, Owns(u)', Owns(v)', Slot(u)' = Slot(v)'
      PROVE  u = v
  BY <1>1, <1>5 DEF LInv, LockSound
<1>6. ASSUME NEW r \in SlotIndices
      PROVE  Hf'[r].f = 3 <=> \E u \in Team : Owns(u)' /\ Slot(u)' = r
  <2>1. CASE r = s
    BY <1>1, <1>3, <1>4, <2>1
  <2>2. CASE r # s
    BY <1>1, <1>4, <2>2 DEF LInv, LockSound
  <2> QED
    BY <2>1, <2>2
<1> QED
  BY <1>2, <1>5, <1>6 DEF LockSound

\* Writing Hf where there are no locks at all
LEMMA WithoutLocks ==
  ASSUME LInv, NEW t \in Team, Steps(t), ~Owns(t)', \A u \in Team : ~Owns(u),
         NEW e, e.f # 3, SetFlag(t, e)
  PROVE  LockSound'
<1>1. \A u \in Team : ~Owns(u)'
  BY StepFrame DEF LInv
<1>2. SlotIndices' = SlotIndices
  BY StepTyped DEF LInv
<1>3. \A r \in SlotIndices : Hf'[r] = e \/ Hf'[r] = Hf[r]
  BY DEF LInv, Typed, SetFlag
<1>4. \A r \in SlotIndices : Hf[r].f # 3
  BY DEF LInv, LockSound
<1> QED
  BY <1>1, <1>2, <1>3, <1>4 DEF LockSound
-----------------------------------------------------------------------------
(* The actions of a task *)

LEMMA StepInv ==
  ASSUME LInv, NEW t \in Team, Steps(t), LockSound', Labelled(t)',
         hf' \in [Team -> Entries], Hf' \in [SlotIndices -> Entries],
         \A u \in Team : u # t => hf'[u] = hf[u]
  PROVE  LInv'
<1>1. Typed'
  BY StepTyped DEF LInv, Typed
<1>2. \A u \in Team : u # t => Labelled(u)'
  BY StepFrame DEF LInv, Labelled
<1> QED
  BY <1>1, <1>2 DEF LInv

\* A step that leaves Hf and hf alone
LEMMA QuietStep ==
  ASSUME LInv, NEW t \in Team, Steps(t), UNCHANGED <<hf, Hf>>,
         Owns(t)' <=> Owns(t), Owns(t) => Slot(t)' = Slot(t), Labelled(t)'
  PROVE  LInv'
<1>1. LockSound'
  BY KeepLocks
<1> QED
  BY <1>1, StepInv DEF LInv, Typed

LEMMA RowEntries ==
  ASSUME NEW i \in Rows
  PROVE  /\ Masked(i) \in Entries /\ Masked(i).f # 3
         /\ Unlocked(i) \in Entries /\ Unlocked(i).f # 3
BY TeamAssumption DEF Rows, Masked, Unlocked, Entry, Entries

LEMMA FlagEntries ==
  \A f \in {0, 1, 2} : Flag(f) \in Entries /\ Flag(f).f # 3
BY TeamAssumption DEF Flag, Entry, Entries

LEMMA LockedEntry ==
  ASSUME NEW e \in Entries
  PROVE  Locked(e) \in Entries
BY DEF Locked, Entry, Entries

LEMMA SetFlagTyped ==
  ASSUME Typed, NEW t \in Team, NEW e \in Entries, SetFlag(t, e)
  PROVE  Hf' \in [SlotIndices -> Entries]
BY DEF Typed, SetFlag

\* Outside of the numeric phase no task is in an iteration of phase 2
LEMMA Outside ==
  ASSUME LInv, NEW t \in Team, phase # "numeric"
  PROVE  pc[t] = "find" /\ ~Owns(t)
BY DEF LInv, Labelled, Owns, InNumeric

LEMMA FindIsNotOwner ==
  ASSUME NEW t \in Team, pc[t] = "find"
  PROVE  ~Owns(t)
BY DEF Owns

\* Going round or out of the loop, a task is at the label "find"
LEMMA RoundOrOut ==
  ASSUME LInv, NEW t \in Team, Rehash(t) \/ Advance(t)
  PROVE  pc'[t] = "find" /\ ~Owns(t)'
BY DEF LInv, Typed, Rehash, Advance, Owns

LEMMA SkipFalseStep ==
  ASSUME LInv, NEW t \in Team, SkipFalse(t)
  PROVE  LInv'
<1>1. Steps(t)
  BY DEF SkipFalse, Steps, Moves
<1>2. ~Owns(t)
  BY Outside DEF SkipFalse
<1>3. pc'[t] = "find" /\ ~Owns(t)'
  BY RoundOrOut DEF SkipFalse
<1>4. Labelled(t)'
  BY <1>3 DEF Labelled, LInv, SkipFalse
<1> QED
  BY <1>1, <1>2, <1>3, <1>4, QuietStep DEF SkipFalse

LEMMA HashScatterStep ==
  ASSUME LInv, NEW t \in Team, HashScatter(t)
  PROVE  LInv'
<1> DEFINE i_mine == IF probe[t] = 0 THEN Masked(Index(t)) ELSE hf[t]
           seen   == Hf[Slot(t)]
<1>1. Steps(t) /\ (Rehash(t) \/ Advance(t))
  BY DEF HashScatter, Steps, Moves
<1>2. \A u \in Team : ~Owns(u)
  BY Outside DEF HashScatter
<1>3. pc'[t] = "find" /\ ~Owns(t)'
  BY <1>1, RoundOrOut
<1>4. Index(t) \in Rows /\ Slot(t) \in SlotIndices
  BY IndexInRows, SlotInTable DEF LInv, HashScatter
<1>5. i_mine \in Entries /\ i_mine.f # 3
  BY <1>4, RowEntries DEF LInv, Typed, Labelled
<1>6. seen \in Entries /\ seen.f # 3
  BY <1>2, <1>4 DEF LInv, Typed, LockSound
<1>7. SetFlag(t, i_mine) /\ (hf' = hf \/ hf' = [hf EXCEPT ![t] = seen])
  BY DEF HashScatter
<1>8. Hf' \in [SlotIndices -> Entries]
  BY <1>5, <1>7, SetFlagTyped DEF LInv
<1>9. /\ hf' \in [Team -> Entries] /\ hf'[t].f # 3
      /\ \A u \in Team : u # t => hf'[u] = hf[u]
  BY <1>6, <1>7 DEF LInv, Typed, Labelled
<1>10. LockSound'
  <2> HIDE DEF i_mine
  <2> QED
    BY <1>1, <1>2, <1>3, <1>5, <1>7, WithoutLocks
<1>11. Labelled(t)'
  BY <1>3, <1>9 DEF Labelled
<1> QED
  BY <1>1, <1>8, <1>9, <1>10, <1>11, StepInv

LEMMA HashSkipStep ==
  ASSUME LInv, NEW t \in Team, HashSkip(t)
  PROVE  LInv'
<1>1. Steps(t)
  BY DEF HashSkip, Steps, Moves
<1>2. ~Owns(t)
  BY FindIsNotOwner DEF HashSkip, At
<1>3. pc'[t] = "find" /\ ~Owns(t)'
  BY RoundOrOut DEF HashSkip
<1>4. Labelled(t)'
  BY <1>3 DEF Labelled, LInv, HashSkip
<1> QED
  BY <1>1, <1>2, <1>3, <1>4, QuietStep DEF HashSkip

LEMMA HashFindStep ==
  ASSUME LInv, NEW t \in Team, HashFind(t)
  PROVE  LInv'
<1>1. UNCHANGED <<job, hsize, phase, hf, Hf>> /\ InNumeric(t) /\ ~UseGustavson
  BY DEF HashFind, At
<1>2. ~Owns(t)
  BY FindIsNotOwner DEF HashFind, At
<1>3. CASE Goto(t, "fast") \/ Goto(t, "lock")
  <2>1. PICK label \in {"fast", "lock"} : Goto(t, label)
    BY <1>3
  <2>2. Steps(t)
    BY <1>1, <2>1 DEF Steps, Moves, Labels
  <2>3. pc'[t] = label /\ InNumeric(t)'
    BY <1>1, <2>1, GotoFrame DEF LInv, Labels
  <2>4. ~Owns(t)'
    BY <2>3 DEF Owns
  <2>5. Labelled(t)'
    BY <1>1, <2>3 DEF Labelled, LInv, NoLocks, UseGustavson
  <2> QED
    BY <1>1, <1>2, <2>2, <2>4, <2>5, QuietStep
<1>4. CASE Rehash(t) \/ Advance(t)
  <2>1. Steps(t)
    BY <1>1, <1>4 DEF Steps, Moves
  <2>2. pc'[t] = "find" /\ ~Owns(t)'
    BY <1>4, RoundOrOut
  <2>3. Labelled(t)'
    BY <1>1, <2>2 DEF Labelled, LInv
  <2> QED
    BY <1>1, <1>2, <2>1, <2>2, <2>3, QuietStep
<1> QED
  BY <1>3, <1>4 DEF HashFind

\* Both kernels lock an entry in the same way
LEMMA LockStep ==
  ASSUME LInv, NEW t \in Team, At(t, "lock"), UNCHANGED <<job, hsize, phase>>,
         MayLock(Hf[Slot(t)]), SetFlag(t, Locked(Hf[Slot(t)])),
         hf' = [hf EXCEPT ![t] = Hf[Slot(t)]],
         NEW label \in {"write", "update", "unlock", "restore"}, Goto(t, label)
  PROVE  LInv'
<1>1. Steps(t)
  BY DEF Steps, Moves, Labels
<1>2. InNumeric(t) /\ pc[t] = "lock" /\ ~NoLocks
  BY DEF At, LInv, Labelled
<1>3. Slot(t) \in SlotIndices /\ Hf[Slot(t)] \in Entries
  BY <1>2, SlotInTable DEF LInv, Typed, InNumeric
<1>4. pc'[t] = label /\ InNumeric(t)' /\ Slot(t)' = Slot(t)
  BY <1>2, GotoFrame DEF LInv, Labels
<1>5. ~NoLocks'
  BY <1>2 DEF NoLocks, UseGustavson, LockFree
<1>6. ~Owns(t) /\ Owns(t)'
  BY <1>2, <1>4, <1>5 DEF Owns, NoLocks
<1>7. LockSound'
  BY <1>1, <1>3, <1>4, <1>6, TakeLock
<1>8. Hf' \in [SlotIndices -> Entries]
  BY <1>3, LockedEntry, SetFlagTyped DEF LInv
<1>9. /\ hf' \in [Team -> Entries] /\ hf'[t].f # 3
      /\ \A u \in Team : u # t => hf'[u] = hf[u]
  BY <1>3 DEF LInv, Typed, MayLock
<1>10. Labelled(t)'
  BY <1>4, <1>9 DEF Labelled
<1> QED
  BY <1>1, <1>7, <1>8, <1>9, <1>10, StepInv

LEMMA HashLockStep ==
  ASSUME LInv, NEW t \in Team, HashLock(t)
  PROVE  LInv'
<1>1. PICK label \in {"write", "update", "unlock", "restore"} : Goto(t, label)
  BY DEF HashLock
<1>2. /\ At(t, "lock") /\ UNCHANGED <<job, hsize, phase>>
      /\ MayLock(Hf[Slot(t)]) /\ SetFlag(t, Locked(Hf[Slot(t)]))
      /\ hf' = [hf EXCEPT ![t] = Hf[Slot(t)]]
  BY DEF HashLock
<1> QED
  BY <1>1, <1>2, LockStep

LEMMA GusLockStep ==
  ASSUME LInv, NEW t \in Team, GusLock(t)
  PROVE  LInv'
<1>1. PICK label \in {"write", "update", "unlock", "restore"} : Goto(t, label)
  BY DEF GusLock
<1>2. /\ At(t, "lock") /\ UNCHANGED <<job, hsize, phase>>
      /\ MayLock(Hf[Slot(t)]) /\ SetFlag(t, Locked(Hf[Slot(t)]))
      /\ hf' = [hf EXCEPT ![t] = Hf[Slot(t)]]
  BY DEF GusLock
<1> QED
  BY <1>1, <1>2, LockStep

\* Every unlock ends a round, and writes an entry that is not locked
LEMMA UnlockStep ==
  ASSUME LInv, NEW t \in Team, Owns(t) \/ NoLocks,
         UNCHANGED <<job, hsize, phase, hf>>, Rehash(t) \/ Advance(t),
         NEW e \in Entries, e.f # 3, SetFlag(t, e)
  PROVE  LInv'
<1>1. Steps(t)
  BY DEF Steps, Moves
<1>2. pc'[t] = "find" /\ ~Owns(t)'
  BY RoundOrOut
<1>3. LockSound'
  <2>1. CASE Owns(t)
    BY <1>1, <1>2, <2>1, GiveUpLock
  <2>2. CASE NoLocks
    <3>1. \A u \in Team : ~Owns(u)
      BY <2>2 DEF Owns, NoLocks
    <3> QED
      BY <1>1, <1>2, <3>1, WithoutLocks
  <2> QED
    BY <2>1, <2>2
<1>4. Hf' \in [SlotIndices -> Entries]
  BY SetFlagTyped DEF LInv
<1>5. Labelled(t)'
  BY <1>2 DEF Labelled, LInv
<1> QED
  BY <1>1, <1>3, <1>4, <1>5, StepInv DEF LInv, Typed

LEMMA HashUnlockStep ==
  ASSUME LInv, NEW t \in Team, HashUnlock(t)
  PROVE  LInv'
<1>1. Owns(t) /\ Index(t) \in Rows
  BY IndexInRows DEF HashUnlock, At, Owns, LInv, InNumeric
<1>2. Unlocked(Index(t)) \in Entries /\ Unlocked(Index(t)).f # 3
  BY <1>1, RowEntries
<1> QED
  BY <1>1, <1>2, UnlockStep DEF HashUnlock

LEMMA HashRestoreStep ==
  ASSUME LInv, NEW t \in Team, HashRestore(t)
  PROVE  LInv'
<1>1. Owns(t)
  BY DEF HashRestore, At, Owns
<1>2. hf[t] \in Entries /\ hf[t].f # 3
  BY DEF LInv, Typed, Labelled
<1> QED
  BY <1>1, <1>2, UnlockStep DEF HashRestore

LEMMA GusScatterStep ==
  ASSUME LInv, NEW t \in Team, GusScatter(t)
  PROVE  LInv'
<1>1. Steps(t)
  BY DEF GusScatter, Steps, Moves
<1>2. \A u \in Team : ~Owns(u)
  BY Outside DEF GusScatter
<1>3. pc'[t] = "find" /\ ~Owns(t)'
  BY RoundOrOut DEF GusScatter
<1>4. Flag(1) \in Entries /\ Flag(1).f # 3 /\ SetFlag(t, Flag(1))
  BY FlagEntries DEF GusScatter
<1>5. LockSound'
  BY <1>1, <1>2, <1>3, <1>4, WithoutLocks
<1>6. Hf' \in [SlotIndices -> Entries]
  BY <1>4, SetFlagTyped DEF LInv
<1>7. hf' = hf
  BY DEF GusScatter
<1>8. Labelled(t)'
  BY <1>3, <1>7 DEF Labelled, LInv
<1> QED
  BY <1>1, <1>5, <1>6, <1>7, <1>8, StepInv DEF LInv, Typed

\* A task goes from one label to another, and owns a lock at both or neither
LEMMA QuietGoto ==
  ASSUME LInv, NEW t \in Team, InNumeric(t), UNCHANGED <<job, hsize, phase, hf, Hf>>,
         NEW label \in Labels, Goto(t, label),
         \/ NoLocks
         \/ pc[t] = "find" /\ label \in {"fast", "lock"}
         \/ pc[t] \in {"write", "update", "store"} /\ label \in {"store", "unlock"},
         label \in {"flag", "put"} => NoLocks,
         label = "lock" => ~NoLocks
  PROVE  LInv'
<1>1. Steps(t)
  BY DEF Steps, Moves
<1>2. pc'[t] = label /\ InNumeric(t)' /\ Slot(t)' = Slot(t)
  BY GotoFrame DEF LInv
<1>3. NoLocks' <=> NoLocks
  BY DEF NoLocks, UseGustavson, LockFree
<1>4. Owns(t)' <=> Owns(t)
  BY <1>2, <1>3 DEF Owns, NoLocks
<1>5. Labelled(t)'
  BY <1>2, <1>3 DEF Labelled, LInv
<1> QED
  BY <1>1, <1>2, <1>4, <1>5, QuietStep

\* A task leaves an iteration in which it owns no lock
LEMMA QuietAdvance ==
  ASSUME LInv, NEW t \in Team, UNCHANGED <<job, hsize, phase, hf, Hf>>, Advance(t),
         ~Owns(t)
  PROVE  LInv'
<1>1. Steps(t)
  BY DEF Steps, Moves
<1>2. pc'[t] = "find" /\ ~Owns(t)'
  BY RoundOrOut
<1>3. Labelled(t)'
  BY <1>2 DEF Labelled, LInv
<1> QED
  BY <1>1, <1>2, <1>3, QuietStep

LEMMA GusAnyStep ==
  ASSUME LInv, NEW t \in Team, GusFindAny(t) \/ GusFlagAny(t) \/ GusPutAny(t)
  PROVE  LInv'
<1>1. UNCHANGED <<job, hsize, phase, hf>> /\ InNumeric(t)
  BY DEF GusFindAny, GusFlagAny, GusPutAny, At
<1>2. NoLocks
  BY DEF GusFindAny, GusFlagAny, GusPutAny, At, NoLocks, LInv, Labelled
<1>3. ~Owns(t)
  BY <1>2 DEF Owns, NoLocks
<1>4. CASE GusFindAny(t)
  <2>1. Hf' = Hf
    BY <1>4 DEF GusFindAny
  <2>2. CASE Advance(t)
    BY <1>1, <1>3, <2>1, <2>2, QuietAdvance
  <2>3. CASE \E label \in {"write", "flag"} : Goto(t, label)
    BY <1>1, <1>2, <2>1, <2>3, QuietGoto DEF Labels
  <2> QED
    BY <1>4, <2>2, <2>3 DEF GusFindAny
<1>5. CASE GusFlagAny(t)
  <2>1. Goto(t, "put") /\ SetFlag(t, Flag(2)) /\ "put" \in Labels
    BY <1>5 DEF GusFlagAny, Labels
  <2>2. Steps(t)
    BY <1>1, <2>1 DEF Steps, Moves
  <2>3. pc'[t] = "put" /\ InNumeric(t)'
    BY <1>1, <2>1, GotoFrame DEF LInv
  <2>4. \A u \in Team : ~Owns(u)
    BY <1>2 DEF Owns, NoLocks
  <2>5. ~Owns(t)'
    BY <2>3 DEF Owns
  <2>6. Flag(2) \in Entries /\ Flag(2).f # 3
    BY FlagEntries
  <2>7. LockSound'
    BY <2>1, <2>2, <2>4, <2>5, <2>6, WithoutLocks
  <2>8. Hf' \in [SlotIndices -> Entries]
    BY <2>1, <2>6, SetFlagTyped DEF LInv
  <2>9. NoLocks'
    BY <1>1, <1>2 DEF NoLocks, UseGustavson, LockFree
  <2>10. Labelled(t)'
    BY <1>1, <2>3, <2>9 DEF Labelled, LInv
  <2> QED
    BY <1>1, <2>2, <2>7, <2>8, <2>10, StepInv DEF LInv, Typed
<1>6. CASE GusPutAny(t)
  BY <1>1, <1>3, <1>6, QuietAdvance DEF GusPutAny
<1> QED
  BY <1>4, <1>5, <1>6

LEMMA GusFindStep ==
  ASSUME LInv, NEW t \in Team, GusFind(t)
  PROVE  LInv'
<1>1. /\ UNCHANGED <<job, hsize, phase, hf, Hf>>
      /\ InNumeric(t) /\ pc[t] = "find" /\ ~NoLocks
  BY DEF GusFind, At, NoLocks
<1>2. CASE Advance(t)
  BY <1>1, <1>2, FindIsNotOwner, QuietAdvance
<1>3. CASE \E label \in {"fast", "lock"} : Goto(t, label)
  BY <1>1, <1>3, QuietGoto DEF Labels
<1> QED
  BY <1>2, <1>3 DEF GusFind

LEMMA GusUnlockStep ==
  ASSUME LInv, NEW t \in Team, GusUnlock(t)
  PROVE  LInv'
<1>1. Owns(t) \/ NoLocks
  BY DEF GusUnlock, At, Owns, NoLocks
<1>2. Flag(2) \in Entries /\ Flag(2).f # 3
  BY FlagEntries
<1> QED
  BY <1>1, <1>2, UnlockStep DEF GusUnlock

LEMMA AccessStep ==
  ASSUME LInv, NEW t \in Team, AccessHx(t)
  PROVE  LInv'
<1>1. UNCHANGED <<job, hsize, phase, hf, Hf>> /\ InNumeric(t)
  BY DEF AccessHx, WriteHx, UpdateHx, StoreHx, FastUpdateHx, At
<1>2. CASE FastUpdateHx(t)
  <2>1. ~Owns(t) /\ Advance(t)
    BY <1>2 DEF FastUpdateHx, At, Owns
  <2> QED
    BY <1>1, <2>1, QuietAdvance
<1>3. CASE WriteHx(t) \/ UpdateHx(t) \/ StoreHx(t)
  <2>1. pc[t] \in {"write", "update", "store"}
    BY <1>3 DEF WriteHx, UpdateHx, StoreHx, At
  <2>2. PICK label \in {"store", "unlock"} : Goto(t, label)
    BY <1>3 DEF WriteHx, UpdateHx, StoreHx
  <2> QED
    BY <1>1, <2>1, <2>2, QuietGoto DEF Labels
<1> QED
  BY <1>2, <1>3 DEF AccessHx

LEMMA CountOrGatherStep ==
  ASSUME LInv, NEW t \in Team, Count(t) \/ Gather(t)
  PROVE  LInv'
<1>1. UNCHANGED <<job, hsize, phase, hf, Hf>> /\ Advance(t) /\ phase # "numeric"
  BY DEF Count, Gather
<1> QED
  BY <1>1, Outside, QuietAdvance

LEMMA MasterStep ==
  ASSUME LInv, Master
  PROVE  LInv'
<1>1. PICK from \in Phases, to \in Phases : Barrier(from, to)
  BY DEF Master, EndScatter, EndNumeric, Cumsum, EndGather, Phases
<1>2. /\ UNCHANGED <<job, hsize, pc, probe, hf, Hf>> /\ phase' \in Phases
      /\ pos' = [t \in Team |-> 1]
  BY <1>1 DEF Barrier, locals
<1>3. \A t \in Team : pc[t] = "find" /\ ~Owns(t)
  BY <1>1 DEF LInv, Labelled, Barrier, InNumeric, Owns
<1>4. \A t \in Team : pc'[t] = "find" /\ ~Owns(t)'
  BY <1>2, <1>3 DEF Owns
<1>5. Typed'
  BY <1>2 DEF LInv, Typed, SlotIndices
<1>6. \A t \in Team : Labelled(t)'
  BY <1>2, <1>4 DEF LInv, Labelled
<1>7. LockSound'
  BY <1>2, <1>3, <1>4 DEF LInv, LockSound, SlotIndices
<1> QED
  BY <1>5, <1>6, <1>7 DEF LInv
-----------------------------------------------------------------------------
\* Every call starts with an empty workspace and every task at its loop
LEMMA InitInv == Init => LInv
<1> SUFFICES ASSUME Init
             PROVE  LInv
  OBVIOUS
<1>1. Empty \in Entries /\ Empty.f = 0
  BY TeamAssumption DEF Empty, Entry, Entries
<1>2. Typed
  BY <1>1 DEF Init, Typed, Phases, Labels
<1>3. \A t \in Team : ~Owns(t) /\ pc[t] = "find" /\ hf[t].f # 3
  BY <1>1 DEF Init, Owns, InNumeric
<1>4. LockSound
  BY <1>1, <1>3 DEF Init, LockSound
<1> QED
  BY <1>2, <1>3, <1>4 DEF LInv, Labelled

LEMMA NextInv == LInv /\ [Next]_vars => LInv'
<1> SUFFICES ASSUME LInv, [Next]_vars
             PROVE  LInv'
  OBVIOUS
<1>1. CASE \E t \in Team : Task(t)
  <2>1. PICK t \in Team : Task(t)
    BY <1>1
  <2>2. CASE SkipFalse(t)
    BY <2>2, SkipFalseStep
  <2>3. CASE HashTask(t)
    BY <2>3, HashScatterStep, HashSkipStep, HashFindStep, HashLockStep,
       HashUnlockStep, HashRestoreStep DEF HashTask
  <2>4. CASE GusTask(t)
    BY <2>4, GusScatterStep, GusAnyStep, GusFindStep, GusLockStep, GusUnlockStep
       DEF GusTask
  <2>5. CASE AccessHx(t)
    BY <2>5, AccessStep
  <2>6. CASE Count(t) \/ Gather(t)
    BY <2>6, CountOrGatherStep
  <2> QED
    BY <2>1, <2>2, <2>3, <2>4, <2>5, <2>6 DEF Task
<1>2. CASE Master
  BY <1>2, MasterStep
<1>3. CASE UNCHANGED vars
  <2>1. UNCHANGED <<job, hsize, phase, pos, pc, probe, hf, Hf>>
    BY <1>3 DEF vars, locals
  <2>2. \A t \in Team : /\ InNumeric(t)' = InNumeric(t)
                        /\ Slot(t)' = Slot(t)
                        /\ NoLocks' = NoLocks
    BY <2>1 DEF InNumeric, Running, Trips, ToScatter, Slot, Index, NoLocks,
       UseGustavson, LockFree
  <2>3. \A t \in Team : Owns(t)' = Owns(t)
    BY <2>1, <2>2 DEF Owns, UseGustavson, LockFree
  <2>4. Typed'
    BY <2>1 DEF LInv, Typed, SlotIndices
  <2>5. \A t \in Team : Labelled(t)'
    BY <2>1, <2>2 DEF LInv, Labelled
  <2>6. LockSound'
    BY <2>1, <2>2, <2>3 DEF LInv, LockSound, SlotIndices
  <2> QED
    BY <2>4, <2>5, <2>6 DEF LInv
<1> QED
  BY <1>1, <1>2, <1>3 DEF Next, Finished

\* In every reachable state of every team, job and table size, the locks of
\* Hf, the labels of the tasks and the entries they hold fit together.
THEOREM LockInvariant == Spec => []LInv
BY InitInv, NextInv, PTL DEF Spec

\* Mutual exclusion of GB_AxB_saxpy3_fineHash* and GB_AxB_saxpy3_fineGus*: an
\* entry of Hf is locked exactly while one task is in its critical section.
THEOREM LocksAreSound == Spec => []LockSound
<1>1. LInv => LockSound
  BY DEF LInv
<1> QED
  BY LockInvariant, <1>1, PTL
-----------------------------------------------------------------------------
(* Updates of Hx *)

\* Which labels the kernel and the monoid allow
Suited(t) ==
  /\ pc[t] \in {"update", "store"} => ~NoLocks
  /\ pc[t] = "fast"  => job.monoid.atomicUpdate
  /\ pc[t] = "store" => ~job.monoid.atomicUpdate

UInv ==
  /\ Hx \in [SlotIndices -> SUBSET TermType]
  /\ zold \in [Team -> SUBSET TermType]
  /\ \A t \in Team : Suited(t)
  /\ UpdateExclusive

\* In the middle of its update a task owns the lock of its slot
LEMMA StoreOwns ==
  ASSUME LInv, UInv, NEW t \in Team, pc[t] = "store"
  PROVE  Owns(t) /\ Slot(t) \in SlotIndices /\ ~NoLocks /\ ~job.monoid.atomicUpdate
<1>1. InNumeric(t) /\ ~NoLocks /\ ~job.monoid.atomicUpdate
  BY DEF LInv, Labelled, UInv, Suited
<1>2. Owns(t)
  BY <1>1 DEF Owns, NoLocks
<1>3. Slot(t) \in SlotIndices
  BY <1>1, SlotInTable DEF LInv, InNumeric
<1> QED
  BY <1>1, <1>2, <1>3

\* A step leaves the updates of all other tasks as they are if it does not
\* write Hx, or writes it with the lock, or no task is in an update
LEMMA OthersKeep ==
  ASSUME LInv, UInv, NEW t \in Team, Steps(t),
         \A u \in Team : u # t => zold'[u] = zold[u],
         NEW value, Hx' = Hx \/ Hx' = [Hx EXCEPT ![Slot(t)] = value],
         Hx' = Hx \/ Owns(t) \/ \A u \in Team : pc[u] # "store"
  PROVE  \A u \in Team : u # t =>
           /\ Suited(u)'
           /\ pc'[u] = "store" => zold'[u] = Hx'[Slot(u)']
<1> SUFFICES ASSUME NEW u \in Team, u # t
             PROVE  /\ Suited(u)'
                    /\ pc'[u] = "store" => zold'[u] = Hx'[Slot(u)']
  OBVIOUS
<1>1. pc'[u] = pc[u] /\ Slot(u)' = Slot(u) /\ NoLocks' = NoLocks /\ job' = job
  BY StepFrame DEF LInv, Steps
<1>2. Suited(u)'
  BY <1>1 DEF UInv, Suited
<1>3. ASSUME pc[u] = "store"
      PROVE  zold'[u] = Hx'[Slot(u)]
  <2>1. Owns(u) /\ Slot(u) \in SlotIndices /\ zold[u] = Hx[Slot(u)]
    BY <1>3, StoreOwns DEF UInv, UpdateExclusive
  <2>2. Hx' = Hx \/ Slot(u) # Slot(t)
    BY <1>3, <2>1 DEF LInv, LockSound
  <2> QED
    BY <2>1, <2>2 DEF UInv
<1> QED
  BY <1>1, <1>2, <1>3

LEMMA TermTyped ==
  ASSUME Typed, NEW t \in Team
  PROVE  Term(t) \in TermType
BY DEF Typed, Term, TermType

\* Steps that leave Hx alone
LEMMA QuietUpdate ==
  ASSUME LInv, UInv, NEW t \in Team, Steps(t), UNCHANGED <<Hx, zold>>,
         pc'[t] # "store", pc'[t] = "update" => ~NoLocks,
         pc'[t] = "fast" => job.monoid.atomicUpdate
  PROVE  UInv'
<1>1. \A u \in Team : u # t =>
        Suited(u)' /\ (pc'[u] = "store" => zold'[u] = Hx'[Slot(u)'])
  BY OthersKeep
<1>2. NoLocks' <=> NoLocks
  BY DEF Steps, NoLocks, UseGustavson, LockFree
<1>3. Suited(t)'
  BY <1>2 DEF Suited, Steps
<1>4. SlotIndices' = SlotIndices
  BY StepTyped DEF LInv
<1> QED
  BY <1>1, <1>3, <1>4 DEF UInv, UpdateExclusive

\* Steps that write Hx
LEMMA WritingUpdate ==
  ASSUME LInv, UInv, NEW t \in Team, Steps(t), zold' = zold,
         NEW value \in SUBSET TermType, Hx' = [Hx EXCEPT ![Slot(t)] = value],
         Owns(t) \/ NoLocks \/ job.monoid.atomicUpdate,
         pc'[t] \in {"unlock", "find"}
  PROVE  UInv'
<1>1. Owns(t) \/ \A u \in Team : pc[u] # "store"
  BY StoreOwns
<1>2. \A u \in Team : u # t =>
        Suited(u)' /\ (pc'[u] = "store" => zold'[u] = Hx'[Slot(u)'])
  BY <1>1, OthersKeep
<1>3. Suited(t)'
  BY DEF Suited
<1>4. SlotIndices' = SlotIndices
  BY StepTyped DEF LInv
<1> QED
  BY <1>2, <1>3, <1>4 DEF UInv, UpdateExclusive

\* Going round or out of the loop, with Hx as it was
LEMMA RoundOrOutUpdate ==
  ASSUME LInv, UInv, NEW t \in Team, UNCHANGED <<job, hsize, phase, Hx, zold>>,
         Rehash(t) \/ Advance(t)
  PROVE  UInv'
<1>1. Steps(t)
  BY DEF Steps, Moves
<1>2. pc'[t] = "find"
  BY RoundOrOut
<1> QED
  BY <1>1, <1>2, QuietUpdate

\* Going to a label other than "store", with Hx as it was
LEMMA GotoUpdate ==
  ASSUME LInv, UInv, NEW t \in Team, UNCHANGED <<job, hsize, phase, Hx, zold>>,
         NEW label \in Labels \ {"store"}, Goto(t, label),
         label = "update" => ~NoLocks, label = "fast" => job.monoid.atomicUpdate
  PROVE  UInv'
<1>1. Steps(t)
  BY DEF Steps, Moves
<1>2. pc'[t] = label
  BY GotoFrame DEF LInv
<1> QED
  BY <1>1, <1>2, QuietUpdate

LEMMA HashUpdate ==
  ASSUME LInv, UInv, NEW t \in Team, HashTask(t)
  PROVE  UInv'
<1>1. UNCHANGED <<job, hsize, phase, Hx, zold>>
  BY DEF HashTask, HashScatter, HashSkip, HashFind, HashLock, HashUnlock, HashRestore
<1>2. CASE Rehash(t) \/ Advance(t)
  BY <1>1, <1>2, RoundOrOutUpdate
<1>3. CASE HashFind(t) /\ ~Rehash(t) /\ ~Advance(t)
  <2>1. CASE Goto(t, "lock")
    BY <1>1, <2>1, GotoUpdate DEF Labels
  <2>2. CASE Goto(t, "fast") /\ job.monoid.atomicUpdate
    BY <1>1, <2>2, GotoUpdate DEF Labels
  <2> QED
    BY <1>3, <2>1, <2>2 DEF HashFind, CanUpdate
<1>4. CASE HashLock(t)
  <2>1. ~NoLocks /\ \E label \in {"write", "unlock", "update", "restore"} : Goto(t, label)
    BY <1>4 DEF HashLock, NoLocks
  <2> QED
    BY <1>1, <2>1, GotoUpdate DEF Labels
<1> QED
  BY <1>2, <1>3, <1>4 DEF HashTask, HashScatter, HashSkip, HashUnlock, HashRestore

LEMMA GusUpdate ==
  ASSUME LInv, UInv, NEW t \in Team, GusTask(t)
  PROVE  UInv'
<1>1. CASE GusPutAny(t)
  <2>1. NoLocks /\ Advance(t) /\ UNCHANGED <<job, hsize, phase, zold>>
    BY <1>1 DEF GusPutAny, At, LInv, Labelled
  <2>2. Steps(t) /\ pc'[t] = "find"
    BY <2>1, RoundOrOut DEF Steps, Moves
  <2>3. {Term(t)} \in SUBSET TermType
    BY TermTyped DEF LInv
  <2>4. Hx' = [Hx EXCEPT ![Slot(t)] = {Term(t)}]
    BY <1>1 DEF GusPutAny
  <2> QED
    BY <2>1, <2>2, <2>3, <2>4, WritingUpdate
<1>2. CASE ~GusPutAny(t)
  <2>1. UNCHANGED <<job, hsize, phase, Hx, zold>>
    BY <1>2 DEF GusTask, GusScatter, GusFindAny, GusFlagAny, GusFind, GusLock, GusUnlock
  <2>2. CASE Rehash(t) \/ Advance(t)
    BY <2>1, <2>2, RoundOrOutUpdate
  <2>3. CASE GusFindAny(t) /\ ~Advance(t)
    <3>1. \E label \in {"write", "flag"} : Goto(t, label)
      BY <2>3 DEF GusFindAny
    <3> QED
      BY <2>1, <3>1, GotoUpdate DEF Labels
  <2>4. CASE GusFlagAny(t)
    BY <2>1, <2>4, GotoUpdate DEF GusFlagAny, Labels
  <2>5. CASE GusFind(t) /\ ~Advance(t)
    <3>1. CASE Goto(t, "lock")
      BY <2>1, <3>1, GotoUpdate DEF Labels
    <3>2. CASE Goto(t, "fast") /\ job.monoid.atomicUpdate
      BY <2>1, <3>2, GotoUpdate DEF Labels
    <3> QED
      BY <2>5, <3>1, <3>2 DEF GusFind
  <2>6. CASE GusLock(t)
    <3>1. ~NoLocks
      BY <2>6 DEF GusLock, At, LInv, Labelled
    <3>2. \E label \in {"write", "unlock", "update"} : Goto(t, label)
      BY <2>6 DEF GusLock
    <3> QED
      BY <2>1, <3>1, <3>2, GotoUpdate DEF Labels
  <2> QED
    BY <1>2, <2>2, <2>3, <2>4, <2>5, <2>6 DEF GusTask, GusScatter, GusUnlock
<1> QED
  BY <1>1, <1>2

LEMMA AccessUpdate ==
  ASSUME LInv, UInv, NEW t \in Team, AccessHx(t)
  PROVE  UInv'
<1>1. UNCHANGED <<job, hsize, phase>> /\ InNumeric(t)
  BY DEF AccessHx, WriteHx, UpdateHx, StoreHx, FastUpdateHx, At
<1>2. Term(t) \in TermType /\ Slot(t) \in SlotIndices
  BY <1>1, TermTyped, SlotInTable DEF LInv, InNumeric
<1>3. Hx[Slot(t)] \in SUBSET TermType /\ zold[t] \in SUBSET TermType
  BY <1>2 DEF UInv
<1>4. CASE ~(UpdateHx(t) /\ ~job.monoid.atomicUpdate)
  <2>1. \E value \in {{Term(t)}, Hx[Slot(t)] \cup {Term(t)}, zold[t] \cup {Term(t)}} :
          Hx' = [Hx EXCEPT ![Slot(t)] = value]
    BY <1>4 DEF AccessHx, WriteHx, UpdateHx, StoreHx, FastUpdateHx
  <2>2. zold' = zold
    BY <1>4 DEF AccessHx, WriteHx, UpdateHx, StoreHx, FastUpdateHx
  <2>3. Goto(t, "unlock") \/ Advance(t)
    BY <1>4 DEF AccessHx, WriteHx, UpdateHx, StoreHx, FastUpdateHx
  <2>4. Steps(t) /\ pc'[t] \in {"unlock", "find"}
    BY <1>1, <2>3, GotoFrame, RoundOrOut DEF Steps, Moves, LInv, Labels
  <2>5. Owns(t) \/ NoLocks \/ job.monoid.atomicUpdate
    BY <1>1, <1>4 DEF AccessHx, WriteHx, UpdateHx, StoreHx, FastUpdateHx, At, Owns,
       NoLocks, UInv, Suited
  <2> QED
    BY <1>2, <1>3, <2>1, <2>2, <2>4, <2>5, WritingUpdate
<1>5. CASE UpdateHx(t) /\ ~job.monoid.atomicUpdate
  <2>1. /\ Hx' = Hx /\ zold' = [zold EXCEPT ![t] = Hx[Slot(t)]]
        /\ Goto(t, "store") /\ pc[t] = "update" /\ "store" \in Labels
    BY <1>5 DEF UpdateHx, At, Labels
  <2>2. Steps(t) /\ pc'[t] = "store" /\ Slot(t)' = Slot(t)
    BY <1>1, <2>1, GotoFrame DEF Steps, Moves, LInv
  <2>3. \A u \in Team : u # t =>
          Suited(u)' /\ (pc'[u] = "store" => zold'[u] = Hx'[Slot(u)'])
    BY <2>1, <2>2, OthersKeep DEF UInv
  <2>4. NoLocks' <=> NoLocks
    BY <1>1 DEF NoLocks, UseGustavson, LockFree
  <2>5. Suited(t)' /\ zold'[t] = Hx'[Slot(t)']
    BY <1>1, <1>5, <2>1, <2>2, <2>4 DEF UInv, Suited
  <2>6. SlotIndices' = SlotIndices
    BY <2>2, StepTyped DEF LInv
  <2> QED
    BY <1>3, <2>1, <2>3, <2>5, <2>6 DEF UInv, UpdateExclusive
<1> QED
  BY <1>4, <1>5

LEMMA NextUpdate == LInv /\ UInv /\ [Next]_vars => UInv'
<1> SUFFICES ASSUME LInv, UInv, [Next]_vars
             PROVE  UInv'
  OBVIOUS
<1>1. CASE \E t \in Team : Task(t)
  <2>1. PICK t \in Team : Task(t)
    BY <1>1
  <2>2. CASE SkipFalse(t) \/ Count(t) \/ Gather(t)
    BY <2>2, RoundOrOutUpdate DEF SkipFalse, Count, Gather
  <2> QED
    BY <2>1, <2>2, HashUpdate, GusUpdate, AccessUpdate DEF Task
<1>2. CASE Master
  <2>1. UNCHANGED <<job, hsize, pc, zold, Hx>>
    BY <1>2 DEF Master, EndScatter, EndNumeric, Cumsum, EndGather, Barrier, locals
  <2>2. \A t \in Team : pc[t] = "find"
    BY <1>2 DEF Master, EndScatter, EndNumeric, Cumsum, EndGather, Barrier, LInv,
       Labelled, InNumeric
  <2> QED
    BY <2>1, <2>2 DEF UInv, Suited, UpdateExclusive, SlotIndices
<1>3. CASE UNCHANGED vars
  <2>1. UNCHANGED <<job, hsize, phase, pos, pc, probe, zold, Hx>>
    BY <1>3 DEF vars, locals
  <2>2. NoLocks' = NoLocks /\ \A t \in Team : Slot(t)' = Slot(t)
    BY <2>1 DEF Slot, Index, ToScatter, NoLocks, UseGustavson, LockFree
  <2> QED
    BY <2>1, <2>2 DEF UInv, Suited, UpdateExclusive, SlotIndices
<1> QED
  BY <1>1, <1>2, <1>3 DEF Next, Finished

\* No update of Hx is lost where the monoid has no atomic update: the value
\* read by GB_Z_ATOMIC_UPDATE_HX under the lock is still there when it writes.
THEOREM UpdatesAreExclusive == Spec => []UpdateExclusive
<1>1. Init => UInv
  BY DEF Init, UInv, Suited, UpdateExclusive, TermType, Garbage
<1>2. UInv => UpdateExclusive
  BY DEF UInv
<1> QED
  BY LockInvariant, <1>1, NextUpdate, <1>2, PTL DEF Spec
-----------------------------------------------------------------------------
(* Linear probing *)

LEMMA SmallMultiple ==
  ASSUME NEW n \in Nat \ {0}, NEW x \in Int, -n < n * x, n * x < n
  PROVE  x = 0
<1>1. (x >= 1 => n * x >= n) /\ (x <= -1 => n * x <= -n)
  OBVIOUS
<1> QED
  BY <1>1

LEMMA RemainderOfSum ==
  ASSUME NEW n \in Nat \ {0}, NEW q \in Int, NEW s \in 0 .. n - 1
  PROVE  (n * q + s) % n = s
<1> DEFINE v == n * q + s
           d == v \div n
           r == v % n
<1>1. v \in Int
  OBVIOUS
<1> HIDE DEF v
<1>2. v = n * d + r /\ r \in 0 .. n - 1 /\ d \in Int
  BY <1>1
<1> HIDE DEF d, r
<1>3. n * (q - d) = r - s
  BY <1>2 DEF v
<1>4. q - d = 0
  BY <1>2, <1>3, SmallMultiple
<1> QED
  BY <1>2, <1>3, <1>4 DEF r, v

LEMMA OneTurn ==
  ASSUME NEW n \in Nat \ {0}
  PROVE  \A x \in 0 .. 2 * n - 1 : x % n = IF x < n THEN x ELSE x - n
<1> SUFFICES ASSUME NEW x \in 0 .. 2 * n - 1
             PROVE  x % n = IF x < n THEN x ELSE x - n
  OBVIOUS
<1>1. CASE x < n
  <2>1. (n * 0 + x) % n = x
    BY <1>1, RemainderOfSum
  <2> QED
    BY <1>1, <2>1
<1>2. CASE x >= n
  <2>1. x - n \in 0 .. n - 1 /\ n * 1 + (x - n) = x
    BY <1>2
  <2>2. (n * 1 + (x - n)) % n = x - n
    BY <2>1, RemainderOfSum
  <2> QED
    BY <1>2, <2>1, <2>2
<1> QED
  BY <1>1, <1>2

\* The slots from h to s, which may go round the end of a table of n slots
Stretch(n, h, s) == {(h + k) % n : k \in 0 .. (s + n - h) % n}

\* The slot after s
After(n, s) == IF s + 1 = n THEN 0 ELSE s + 1

LEMMA StretchShape ==
  ASSUME NEW n \in Nat \ {0}, NEW h \in 0 .. n - 1, NEW s \in 0 .. n - 1
  PROVE  \A r : r \in Stretch(n, h, s) <=>
           r \in 0 .. n - 1 /\ IF h <= s THEN h <= r /\ r <= s ELSE h <= r \/ r <= s
<1> DEFINE d == IF h <= s THEN s - h ELSE s + n - h
           Ring(k) == IF h + k < n THEN h + k ELSE h + k - n
<1>1. (s + n - h) % n = d /\ d \in 0 .. n - 1
  <2>1. s + n - h \in 0 .. 2 * n - 1
    OBVIOUS
  <2>2. (s + n - h) % n = IF s + n - h < n THEN s + n - h ELSE (s + n - h) - n
    BY <2>1, OneTurn
  <2> QED
    BY <2>2
<1>2. \A k \in 0 .. d : (h + k) % n = Ring(k)
  <2> SUFFICES ASSUME NEW k \in 0 .. d
               PROVE  (h + k) % n = Ring(k)
    OBVIOUS
  <2>1. h + k \in 0 .. 2 * n - 1 /\ k \in Nat
    BY <1>1
  <2>2. (h + k) % n = IF h + k < n THEN h + k ELSE (h + k) - n
    BY <2>1, OneTurn
  <2> QED
    BY <2>2
<1>3. \A r : r \in Stretch(n, h, s) <=> \E k \in 0 .. d : r = Ring(k)
  BY <1>1, <1>2 DEF Stretch
<1> SUFFICES ASSUME NEW r
             PROVE  (\E k \in 0 .. d : r = Ring(k)) <=>
                      r \in 0 .. n - 1 /\ IF h <= s THEN h <= r /\ r <= s ELSE h <= r \/ r <= s
  BY <1>3
<1>4. ASSUME NEW k \in 0 .. d, r = Ring(k)
      PROVE  r \in 0 .. n - 1 /\ IF h <= s THEN h <= r /\ r <= s ELSE h <= r \/ r <= s
  BY <1>1, <1>4
<1>5. ASSUME r \in 0 .. n - 1, IF h <= s THEN h <= r /\ r <= s ELSE h <= r \/ r <= s
      PROVE  \E k \in 0 .. d : r = Ring(k)
  <2>1. CASE h <= r
    <3>1. r - h \in 0 .. d /\ r = Ring(r - h)
      BY <1>5, <2>1
    <3> QED
      BY <3>1
  <2>2. CASE r < h
    <3>1. r + n - h \in 0 .. d /\ r = Ring(r + n - h)
      BY <1>5, <2>2
    <3> QED
      BY <3>1
  <2> QED
    BY <1>5, <2>1, <2>2
<1> QED
  BY <1>4, <1>5

LEMMA StretchHome ==
  ASSUME NEW n \in Nat \ {0}, NEW h \in 0 .. n - 1
  PROVE  \A r \in Stretch(n, h, h) : r = h
BY StretchShape

\* One slot further: the stretch is longer by one slot, or starts again
LEMMA StretchAfter ==
  ASSUME NEW n \in Nat \ {0}, NEW h \in 0 .. n - 1, NEW s \in 0 .. n - 1
  PROVE  /\ After(n, s) \in 0 .. n - 1
         /\ \A r \in Stretch(n, h, After(n, s)) : r = After(n, s) \/ r \in Stretch(n, h, s)
<1>1. After(n, s) \in 0 .. n - 1
  BY DEF After
<1> QED
  BY <1>1, StretchShape DEF After

\* Of two slots one is on the way to the other
LEMMA StretchOrder ==
  ASSUME NEW n \in Nat \ {0}, NEW h \in 0 .. n - 1,
         NEW r \in 0 .. n - 1, NEW s \in 0 .. n - 1
  PROVE  r \in Stretch(n, h, s) \/ s \in Stretch(n, h, r)
BY StretchShape

\* GB_REHASH: one more rehash, with the count cut off at n, is the next slot
LEMMA RehashIsAfter ==
  ASSUME NEW n \in Nat \ {0}, NEW a \in Nat, NEW p \in Nat
  PROVE  (a + ((p % n) + 1)) % n = After(n, (a + p) % n)
<1> DEFINE s == (a + p) % n
           q == (a + p) \div n
           m == p % n
           k == p \div n
<1>1. a + p = n * q + s /\ s \in 0 .. n - 1 /\ q \in Int
  OBVIOUS
<1>2. p = n * k + m /\ m \in 0 .. n - 1 /\ k \in Int
  OBVIOUS
<1> HIDE DEF s, q, m, k
<1>3. a + (m + 1) = n * (q - k) + (s + 1)
  BY <1>1, <1>2
<1>4. CASE s + 1 < n
  <2>0. q - k \in Int /\ s + 1 \in 0 .. n - 1
    BY <1>1, <1>2, <1>4
  <2>1. (n * (q - k) + (s + 1)) % n = s + 1
    BY <2>0, RemainderOfSum
  <2> QED
    BY <1>1, <1>3, <1>4, <2>1 DEF After, m, s
<1>5. CASE s + 1 = n
  <2>1. n * (q - k) + (s + 1) = n * (q - k + 1) + 0 /\ q - k + 1 \in Int
    BY <1>1, <1>2, <1>5
  <2>2. (n * (q - k + 1) + 0) % n = 0
    BY <2>1, RemainderOfSum
  <2> QED
    BY <1>1, <1>3, <1>5, <2>1, <2>2 DEF After, m, s
<1> QED
  BY <1>1, <1>4, <1>5

-----------------------------------------------------------------------------
(* The mask is scattered once *)

\* No index is twice in the pattern of M(:,j)
LEMMA PatternOnce ==
  ASSUME NEW J \in Jobs
  PROVE  \A p \in 1 .. Len(J.Mj), q \in 1 .. Len(J.Mj) : J.Mj[p] = J.Mj[q] => p = q
<1> DEFINE D == 1 .. Len(J.Mj)
           pattern == {J.Mj[p] : p \in D}
<1>1. J.Mj \in Seq(Rows) /\ Len(J.Mj) \in Nat /\ DOMAIN J.Mj = D
  BY JobFields, LenProperties
<1>2. Cardinality(pattern) = Len(J.Mj)
  BY <1>1, JobsAssumption
<1>3. IsFiniteSet(D) /\ Cardinality(D) = Len(J.Mj)
  <2>1. IsFiniteSet(D) /\ Cardinality(D) = IF 1 > Len(J.Mj) THEN 0 ELSE Len(J.Mj) - 1 + 1
    BY <1>1, FS_Interval
  <2> QED
    BY <1>1, <2>1
<1>4. J.Mj \in [D -> pattern] /\ \A x \in pattern : \E p \in D : J.Mj[p] = x
  <2>1. J.Mj = [p \in D |-> J.Mj[p]]
    BY <1>1
  <2> QED
    BY <2>1
<1>5. J.Mj \in Surjection(D, pattern)
  BY <1>4 DEF Surjection
<1>6. J.Mj \in Injection(D, pattern)
  BY <1>2, <1>3, <1>5, FS_SurjSameCardinalityImpliesInj
<1> QED
  BY <1>6 DEF Injection, IsInjective

\* Where the share of task t of M(:,j) starts
ShareStart(t) == (t * Len(job.Mj)) \div TeamSize

LEMMA SharesInOrder ==
  ASSUME Typed, NEW t \in Team, NEW u \in Team, t < u
  PROVE  ShareStart(t + 1) <= ShareStart(u)
<1>1. job.Mj \in Seq(Rows) /\ t \in Nat /\ u \in Nat
  BY JobFields, TeamIsFinite DEF Typed
<1>2. Len(job.Mj) \in Nat
  BY <1>1, LenProperties
<1> DEFINE n == Len(job.Mj)
<1> HIDE DEF n
<1>3. (t + 1) * n <= u * n
  <2>1. n \in Nat /\ t + 1 \in Nat /\ t + 1 <= u
    BY <1>1, <1>2 DEF n
  <2>2. \A a \in Nat, b \in Nat, c \in Nat : a <= b => a * c <= b * c
    OBVIOUS
  <2> QED
    BY <1>1, <2>1, <2>2
<1>4. \A a \in Nat, b \in Nat : a <= b => a \div TeamSize <= b \div TeamSize
  BY TeamIsFinite
<1>5. (t + 1) * n \in Nat /\ u * n \in Nat
  <2>1. n \in Nat /\ t + 1 \in Nat
    BY <1>1, <1>2 DEF n
  <2>2. \A a \in Nat, b \in Nat : a * b \in Nat
    OBVIOUS
  <2> QED
    BY <1>1, <2>1, <2>2
<1>6. ((t + 1) * n) \div TeamSize <= (u * n) \div TeamSize
  BY <1>3, <1>4, <1>5
<1> QED
  BY <1>6 DEF ShareStart, n

\* The indices of a task are those of its share, one after the other
LEMMA ScatterPlaces ==
  ASSUME Typed, NEW t \in Team
  PROVE  /\ ToScatter(t) \in Seq(Rows)
         /\ \A p \in DOMAIN ToScatter(t) :
              /\ ShareStart(t) + p \in 1 .. Len(job.Mj)
              /\ ShareStart(t) < ShareStart(t) + p
              /\ ShareStart(t) + p <= ShareStart(t + 1)
              /\ ToScatter(t)[p] = job.Mj[ShareStart(t) + p]
<1>1. job.Mj \in Seq(Rows) /\ Len(job.Mj) \in Nat
  BY JobFields, LenProperties DEF Typed
<1> DEFINE first == ShareStart(t)
           last  == ShareStart(t + 1)
<1>2. first \in Nat /\ last \in Nat /\ last <= Len(job.Mj)
  BY <1>1, ShareInRange DEF ShareStart
<1>3. ToScatter(t) = <<>> \/ ToScatter(t) = SubSeq(job.Mj, first + 1, last)
  BY DEF ToScatter, ShareStart
<1> HIDE DEF first, last
<1>4. CASE ToScatter(t) = <<>>
  BY <1>4
<1>5. CASE ToScatter(t) = SubSeq(job.Mj, first + 1, last)
  <2>1. first + 1 \in Int /\ last \in Int /\ \A p \in first + 1 .. last : job.Mj[p] \in Rows
    BY <1>1, <1>2, ElementOfSeq
  <2>2. /\ ToScatter(t) \in Seq(Rows)
        /\ Len(ToScatter(t)) = IF first + 1 <= last THEN last - (first + 1) + 1 ELSE 0
        /\ \A p \in 1 .. last - (first + 1) + 1 : ToScatter(t)[p] = job.Mj[(first + 1) + p - 1]
    BY <1>5, <2>1, SubSeqProperties
  <2>3. DOMAIN ToScatter(t) = 1 .. Len(ToScatter(t))
    BY <2>2, LenProperties
  <2>4. ASSUME NEW p \in DOMAIN ToScatter(t)
        PROVE  /\ first + p \in 1 .. Len(job.Mj)
               /\ first < first + p
               /\ first + p <= last
               /\ ToScatter(t)[p] = job.Mj[first + p]
    <3>1. p \in 1 .. last - (first + 1) + 1 /\ p \in Nat \ {0}
      BY <1>2, <2>2, <2>3
    <3>2. (first + 1) + p - 1 = first + p
      BY <1>2, <3>1
    <3> QED
      BY <1>2, <2>2, <3>1, <3>2
  <2> QED
    BY <2>2, <2>4 DEF first, last
<1> QED
  BY <1>3, <1>4, <1>5

LEMMA ScatterIndex ==
  ASSUME Typed, NEW t \in Team, NEW p \in DOMAIN ToScatter(t)
  PROVE  ToScatter(t)[p] \in Nat
<1>1. ToScatter(t) \in Seq(Rows)
  BY ScatterPlaces
<1>2. ToScatter(t)[p] \in Rows
  BY <1>1, ElementOfSeq, LenProperties
<1> QED
  BY <1>2 DEF Rows

\* No two iterations of the scatter loops, of one task or of two, have the same
\* index of the mask.
LEMMA ScatterOnce ==
  ASSUME Typed, NEW t \in Team, NEW p \in DOMAIN ToScatter(t),
         NEW u \in Team, NEW q \in DOMAIN ToScatter(u), ToScatter(t)[p] = ToScatter(u)[q]
  PROVE  t = u /\ p = q
<1>1. /\ ShareStart(t) + p \in 1 .. Len(job.Mj) /\ ShareStart(u) + q \in 1 .. Len(job.Mj)
      /\ ToScatter(t)[p] = job.Mj[ShareStart(t) + p]
      /\ ToScatter(u)[q] = job.Mj[ShareStart(u) + q]
      /\ ShareStart(t) < ShareStart(t) + p /\ ShareStart(t) + p <= ShareStart(t + 1)
      /\ ShareStart(u) < ShareStart(u) + q /\ ShareStart(u) + q <= ShareStart(u + 1)
  BY ScatterPlaces
<1>2. ShareStart(t) + p = ShareStart(u) + q
  BY <1>1, PatternOnce DEF Typed
<1>3. /\ job.Mj \in Seq(Rows) /\ Len(job.Mj) \in Nat
  BY JobFields, LenProperties DEF Typed
<1>4. \A v \in Team : ShareStart(v) \in Nat /\ ShareStart(v + 1) \in Nat
  BY <1>3, ShareInRange DEF ShareStart
<1>5. p \in Nat /\ q \in Nat
  BY ScatterPlaces, LenProperties
<1>6. t \in Nat /\ u \in Nat
  BY TeamIsFinite
<1>7. ~(t < u) /\ ~(u < t)
  BY <1>1, <1>2, <1>4, <1>5, SharesInOrder
<1>8. t = u
  BY <1>6, <1>7
<1> QED
  BY <1>2, <1>4, <1>5, <1>8

-----------------------------------------------------------------------------
(* A table H of n slots *)

\* The slots from the first one of index i to slot s
Way(n, i, s) == Stretch(n, (257 * i) % n, s)

\* Those before s are in use
Used(H, n, i, s) == \A r \in Way(n, i, s) : r # s => H[r].h # 0

\* Every index in the table is found from its first slot, and is there once
Found(H, n) ==
  \A s \in 0 .. n - 1 : H[s].h # 0 =>
    /\ \A r \in 0 .. n - 1 : H[r].h = H[s].h => r = s
    /\ Used(H, n, H[s].h - 1, s)

LEMMA HomeInTable ==
  ASSUME NEW n \in Nat \ {0}, NEW i \in Nat
  PROVE  (257 * i) % n \in 0 .. n - 1
<1>1. 257 * i \in Nat
  OBVIOUS
<1>2. \A a \in Nat : a % n \in 0 .. n - 1
  OBVIOUS
<1> QED
  BY <1>1, <1>2

LEMMA WayInTable ==
  ASSUME NEW n \in Nat \ {0}, NEW i \in Nat, NEW s \in 0 .. n - 1
  PROVE  Way(n, i, s) \subseteq 0 .. n - 1
BY HomeInTable, StretchShape DEF Way

LEMMA WayHome ==
  ASSUME NEW n \in Nat \ {0}, NEW i \in Nat, NEW s, s = (257 * i) % n
  PROVE  \A r \in Way(n, i, s) : r = s
BY HomeInTable, StretchHome DEF Way

LEMMA WayAfter ==
  ASSUME NEW n \in Nat \ {0}, NEW i \in Nat, NEW s \in 0 .. n - 1
  PROVE  /\ After(n, s) \in 0 .. n - 1
         /\ \A r \in Way(n, i, After(n, s)) : r = After(n, s) \/ r \in Way(n, i, s)
<1>1. (257 * i) % n \in 0 .. n - 1
  BY HomeInTable
<1> QED
  BY <1>1, StretchAfter DEF Way

LEMMA UsedAfter ==
  ASSUME NEW n \in Nat \ {0}, NEW i \in Nat, NEW s \in 0 .. n - 1, NEW H,
         Used(H, n, i, s), H[s].h # 0
  PROVE  Used(H, n, i, After(n, s))
BY WayAfter DEF Used

LEMMA UsedKept ==
  ASSUME NEW n \in Nat \ {0}, NEW i \in Nat, NEW s \in 0 .. n - 1, NEW H, NEW G,
         Used(H, n, i, s), \A r \in 0 .. n - 1 : H[r].h # 0 => G[r].h # 0
  PROVE  Used(G, n, i, s)
BY WayInTable DEF Used

\* An index that is not in the table may be put where its way ends
LEMMA FoundPlaced ==
  ASSUME NEW n \in Nat \ {0}, NEW H \in [0 .. n - 1 -> Entries], Found(H, n), NEW G,
         NEW s \in 0 .. n - 1, NEW i \in Nat, Used(H, n, i, s),
         \A r \in 0 .. n - 1 : H[r].h # i + 1,
         \A r \in 0 .. n - 1 : G[r].h = IF r = s THEN i + 1 ELSE H[r].h
  PROVE  Found(G, n)
<1>1. \A r \in 0 .. n - 1 : H[r].h # 0 => G[r].h # 0
  OBVIOUS
<1>2. \A r \in 0 .. n - 1 : H[r].h \in Nat
  BY DEF Entries
<1> SUFFICES ASSUME NEW q \in 0 .. n - 1, G[q].h # 0
             PROVE  /\ \A r \in 0 .. n - 1 : G[r].h = G[q].h => r = q
                    /\ Used(G, n, G[q].h - 1, q)
  BY DEF Found
<1>3. CASE q = s
  <2>1. G[q].h - 1 = i
    BY <1>3
  <2>2. Used(G, n, i, s)
    BY <1>1, UsedKept
  <2> QED
    BY <1>3, <2>1, <2>2
<1>4. CASE q # s
  <2>1. G[q].h = H[q].h /\ H[q].h - 1 \in Nat
    BY <1>2, <1>4
  <2>2. Used(H, n, H[q].h - 1, q) /\ \A r \in 0 .. n - 1 : H[r].h = H[q].h => r = q
    BY <2>1 DEF Found
  <2>3. Used(G, n, H[q].h - 1, q)
    BY <1>1, <2>1, <2>2, UsedKept
  <2> QED
    BY <2>1, <2>2, <2>3
<1> QED
  BY <1>3, <1>4

LEMMA FoundSame ==
  ASSUME NEW n \in Nat \ {0}, NEW H \in [0 .. n - 1 -> Entries], Found(H, n), NEW G,
         \A r \in 0 .. n - 1 : G[r].h = H[r].h
  PROVE  Found(G, n)
<1> SUFFICES ASSUME NEW q \in 0 .. n - 1, G[q].h # 0
             PROVE  /\ \A r \in 0 .. n - 1 : G[r].h = G[q].h => r = q
                    /\ Used(G, n, G[q].h - 1, q)
  BY DEF Found
<1>1. H[q].h - 1 \in Nat /\ G[q].h = H[q].h
  BY DEF Entries
<1>2. Used(H, n, H[q].h - 1, q) /\ \A r \in 0 .. n - 1 : H[r].h = H[q].h => r = q
  BY <1>1 DEF Found
<1>3. Used(G, n, H[q].h - 1, q)
  BY <1>1, <1>2, UsedKept
<1> QED
  BY <1>1, <1>2, <1>3

\* An index that is not found before an empty slot is not in the table
LEMMA NotFound ==
  ASSUME NEW n \in Nat \ {0}, NEW H \in [0 .. n - 1 -> Entries], Found(H, n),
         NEW s \in 0 .. n - 1, NEW i \in Nat, H[s].h = 0,
         \A r \in Way(n, i, s) : r # s => H[r].h # i + 1
  PROVE  \A r \in 0 .. n - 1 : H[r].h # i + 1
<1> SUFFICES ASSUME NEW r \in 0 .. n - 1, H[r].h = i + 1
             PROVE  FALSE
  OBVIOUS
<1>1. r # s /\ H[r].h # 0 /\ H[r].h - 1 = i
  OBVIOUS
<1>2. Used(H, n, i, r)
  BY <1>1 DEF Found
<1>3. r \in Way(n, i, s) \/ s \in Way(n, i, r)
  BY HomeInTable, StretchOrder DEF Way
<1> QED
  BY <1>1, <1>2, <1>3 DEF Used

-----------------------------------------------------------------------------
(* The invariant of the table *)

TableOK == Found(Hf, hsize)

\* The mask has been scattered into the table
Scattered == InTable("M") \/ InTable("notM")

\* What task t is about to put into the table (h of the entry), and what it
\* will put there in its later iterations
Hand(t) == IF probe[t] = 0 THEN ToScatter(t)[pos[t]] + 1 ELSE hf[t].h
Rest(t) == {ToScatter(t)[p] + 1 : p \in {p \in DOMAIN ToScatter(t) : p > pos[t]}}

\* An index of the mask is in the table, in the hand of one task, or to come
HandOK(t) ==
  /\ probe[t] # 0 =>
       hf[t].h # 0 /\ hf[t].f = 1 /\ Used(Hf, hsize, hf[t].h - 1, Slot(t))
  /\ \A s \in SlotIndices : Hf[s].h # Hand(t)
  /\ \A u \in Team : u # t /\ Running(u) => Hand(u) # Hand(t)
  /\ \A u \in Team : Hand(t) \notin Rest(u)

\* The entries in phase 1
InMask(s) == Hf[s] = Empty \/ (Hf[s].h # 0 /\ Hf[s].f = 1 /\ Scattered)

ScatterOK ==
  /\ \A s \in SlotIndices : InMask(s)
  /\ \A t \in Team : IF Running(t) THEN HandOK(t) ELSE probe[t] = 0
  /\ \A t \in Team, s \in SlotIndices : Hf[s].h \notin Rest(t)

Critical == {"write", "update", "store", "unlock", "restore"}

\* Every slot before that of task t has been taken by another index
Probed(t) ==
  \A r \in Way(hsize, Index(t), Slot(t)) :
    r # Slot(t) => Hf[r].h # 0 /\ Hf[r].h # Index(t) + 1

\* A task that has, or waits for, the lock of its slot may take it: it is free,
\* or it is of its index
MayTake(t) ==
  /\ pc[t] = "lock" => Hf[Slot(t)].f # 1 \/ InTable("M")
  /\ pc[t] \in Critical \cup {"lock"} /\ InTable("M") => Hf[Slot(t)].h = Index(t) + 1
  /\ pc[t] \in Critical => Hf[Slot(t)].h = hf[t].h
  /\ pc[t] \in Critical \ {"restore"} => hf[t].h = 0 \/ hf[t].h = Index(t) + 1
  /\ pc[t] = "restore" => hf[t].h # 0 /\ hf[t].h # Index(t) + 1 /\ hf[t].f = 2

\* An entry e in phase 2
EntryOK(e) ==
  /\ e.h = 0 => e.f = 0 \/ (e.f = 3 /\ ~InTable("M"))
  /\ e.h # 0 => e.f # 0
  /\ e.f = 1 => Scattered

NumericOK ==
  /\ \A s \in SlotIndices : EntryOK(Hf[s])
  /\ \A t \in Team : Running(t) => Probed(t) /\ MayTake(t)

TInv == ~UseGustavson =>
  /\ TableOK
  /\ phase = "scatter" => ScatterOK
  /\ phase = "numeric" => NumericOK

-----------------------------------------------------------------------------
(* Phase 1: the mask is scattered *)

\* A task that runs in phase 1 has a mask to scatter
LEMMA RunningScatters ==
  ASSUME Typed, NEW t \in Team, phase = "scatter", ~UseGustavson, Running(t)
  PROVE  /\ Scattered
         /\ pos[t] \in DOMAIN ToScatter(t)
         /\ Index(t) = ToScatter(t)[pos[t]]
         /\ Index(t) \in Nat
<1>1. pos[t] \in Nat \ {0} /\ pos[t] <= Len(ToScatter(t))
  BY DEF Typed, Running, Trips
<1>2. DOMAIN ToScatter(t) = 1 .. Len(ToScatter(t)) /\ Len(ToScatter(t)) \in Nat
  BY ScatterPlaces, LenProperties
<1>3. ToScatter(t) # <<>>
  BY <1>1, <1>2
<1>4. job.mask # "none" /\ ~job.inPlace
  BY <1>3 DEF ToScatter
<1>5. job.mask \in {"M", "notM"}
  BY <1>4, JobFields DEF Typed, JobType
<1>6. Index(t) \in Rows
  BY IndexInRows
<1> QED
  BY <1>1, <1>2, <1>4, <1>5, <1>6 DEF Scattered, InTable, Index, Rows

\* Where a task looks first, and where it looks once it has rehashed
LEMMA FirstSlot ==
  ASSUME Typed, NEW t \in Team, ~UseGustavson, probe[t] = 0, Index(t) \in Nat
  PROVE  Slot(t) = (257 * Index(t)) % hsize
BY DEF Slot

LEMMA NextSlot ==
  ASSUME Typed, NEW t \in Team, ~UseGustavson, phase \in {"scatter", "numeric"}, Running(t),
         Rehash(t), UNCHANGED <<job, hsize, phase>>
  PROVE  /\ Running(t)' /\ Index(t)' = Index(t) /\ ToScatter(t)' = ToScatter(t)
         /\ Slot(t)' = After(hsize, Slot(t))
         /\ probe'[t] # 0
<1>1. Index(t) \in Rows /\ hsize \in Nat \ {0} /\ probe[t] \in Nat
  BY IndexInRows, SizeOfTable DEF Typed
<1>2. pos' = pos /\ probe'[t] = (probe[t] % hsize) + 1
  BY DEF Rehash, Typed
<1>3. Running(t)' /\ Index(t)' = Index(t) /\ ToScatter(t)' = ToScatter(t)
  BY <1>2 DEF Running, Trips, Index, ToScatter, UseGustavson
<1>4. ~UseGustavson'
  BY DEF UseGustavson
<1>5. 257 * Index(t) \in Nat
  BY <1>1 DEF Rows
<1>6. Slot(t)' = (257 * Index(t) + ((probe[t] % hsize) + 1)) % hsize
  BY <1>2, <1>3, <1>4 DEF Slot
<1>7. (257 * Index(t) + ((probe[t] % hsize) + 1)) % hsize
        = After(hsize, (257 * Index(t) + probe[t]) % hsize)
  BY <1>1, <1>5, RehashIsAfter
<1>8. probe[t] % hsize \in Nat
  BY <1>1
<1> QED
  BY <1>2, <1>3, <1>6, <1>7, <1>8 DEF Slot

\* A step of one task does not change what the others have
LEMMA OthersInScatter ==
  ASSUME Typed, NEW t \in Team, Steps(t), NEW u \in Team, u # t, hf'[u] = hf[u]
  PROVE  /\ Running(u)' = Running(u) /\ ToScatter(u)' = ToScatter(u)
         /\ Hand(u)' = Hand(u) /\ Rest(u)' = Rest(u)
         /\ probe'[u] = probe[u] /\ Index(u)' = Index(u) /\ Slot(u)' = Slot(u)
<1>1. pos'[u] = pos[u] /\ probe'[u] = probe[u]
  BY DEF Typed, Steps, Moves, Goto, Rehash, Advance
<1>2. job' = job /\ hsize' = hsize /\ phase' = phase
  BY DEF Steps
<1>3. ToScatter(u)' = ToScatter(u)
  BY <1>2 DEF ToScatter, UseGustavson
<1> QED
  BY <1>1, <1>2, <1>3 DEF Running, Trips, Hand, Rest, Index, Slot, UseGustavson

\* The next iteration takes the first of the indices to come
LEMMA AdvanceHand ==
  ASSUME Typed, NEW t \in Team, phase = "scatter", ~UseGustavson, Running(t), Advance(t),
         UNCHANGED <<job, hsize, phase>>
  PROVE  /\ probe'[t] = 0
         /\ Running(t)' => Hand(t)' \in Rest(t)
         /\ Rest(t)' \subseteq Rest(t)
         /\ ToScatter(t)' = ToScatter(t)
         /\ Running(t)' => \A u \in Team : Hand(t)' \notin Rest(u)'
<1>1. pos[t] \in Nat \ {0} /\ pos'[t] = pos[t] + 1 /\ probe'[t] = 0
  BY DEF Typed, Advance
<1>2. \A u \in Team : ToScatter(u)' = ToScatter(u)
  BY DEF ToScatter, UseGustavson
<1>3. ToScatter(t) \in Seq(Rows) /\ DOMAIN ToScatter(t) = 1 .. Len(ToScatter(t))
  BY ScatterPlaces, LenProperties
<1>4. Running(t)' => pos[t] + 1 \in DOMAIN ToScatter(t)
  BY <1>1, <1>2, <1>3, LenProperties DEF Running, Trips
<1>5. Hand(t)' = ToScatter(t)[pos[t] + 1] + 1
  BY <1>1, <1>2 DEF Hand
<1>6. Running(t)' => Hand(t)' \in Rest(t)
  BY <1>1, <1>4, <1>5 DEF Rest
<1>7. Rest(t)' \subseteq Rest(t)
  BY <1>1, <1>2, <1>3 DEF Rest
<1>8. ASSUME Running(t)', NEW u \in Team, Hand(t)' \in Rest(u)'
      PROVE  FALSE
  <2>1. PICK p \in DOMAIN ToScatter(u) : p > pos'[u] /\ Hand(t)' = ToScatter(u)[p] + 1
    BY <1>2, <1>8 DEF Rest
  <2>2. ToScatter(u)[p] = ToScatter(t)[pos[t] + 1]
    <3>1. ToScatter(u)[p] \in Nat /\ ToScatter(t)[pos[t] + 1] \in Nat
      BY <1>4, <1>8, <2>1, ScatterIndex
    <3> QED
      BY <1>5, <2>1, <3>1
  <2>3. t = u /\ pos[t] + 1 = p
    BY <1>4, <1>8, <2>2, ScatterOnce
  <2> QED
    BY <1>1, <2>1, <2>3
<1> QED
  BY <1>1, <1>2, <1>6, <1>7, <1>8

\* What a step of task t does to the table: it may put there what it has in hand
PutsHand(t) ==
  \A s \in SlotIndices : /\ Hf[s].h # 0 => Hf'[s].h # 0
                         /\ Hf'[s].h = Hf[s].h \/ Hf'[s].h = Hand(t)

\* What it then has in hand was to come, or was in the table
TakesHand(t) ==
  /\ Rest(t)' \subseteq Rest(t)
  /\ Running(t)' => Hand(t)' \in Rest(t) \/ \E s \in SlotIndices : Hand(t)' = Hf[s].h

LEMMA ScatterOthers ==
  ASSUME Typed, phase = "scatter", ~UseGustavson, ScatterOK, NEW t \in Team, Steps(t),
         Running(t), PutsHand(t), TakesHand(t), \A u \in Team : u # t => hf'[u] = hf[u],
         NEW u \in Team, u # t, Running(u)
  PROVE  HandOK(u)'
<1>1. /\ Hand(u)' = Hand(u) /\ Rest(u)' = Rest(u) /\ probe'[u] = probe[u]
      /\ Slot(u)' = Slot(u) /\ hf'[u] = hf[u]
  BY OthersInScatter
<1>2. HandOK(u) /\ HandOK(t)
  BY DEF ScatterOK
<1>3. SlotIndices' = SlotIndices /\ hsize' = hsize
  BY StepTyped DEF Steps
<1>4. ASSUME probe[u] # 0
      PROVE  hf[u].h # 0 /\ hf[u].f = 1 /\ Used(Hf', hsize, hf[u].h - 1, Slot(u))
  <2>1. hf[u].h # 0 /\ hf[u].f = 1 /\ Used(Hf, hsize, hf[u].h - 1, Slot(u))
    BY <1>2, <1>4 DEF HandOK
  <2>2. hf[u].h - 1 \in Nat /\ hsize \in Nat \ {0} /\ Slot(u) \in 0 .. hsize - 1
    <3>1. Slot(u) \in 0 .. hsize - 1
      BY SlotInTable DEF SlotIndices
    <3>2. hf[u].h \in Nat
      BY DEF Typed, Entries
    <3> QED
      BY <2>1, <3>1, <3>2, SizeOfTable
  <2>3. \A r \in 0 .. hsize - 1 : Hf[r].h # 0 => Hf'[r].h # 0
    BY DEF PutsHand, SlotIndices
  <2>4. Used(Hf', hsize, hf[u].h - 1, Slot(u))
    BY <2>1, <2>2, <2>3, UsedKept
  <2> QED
    BY <2>1, <2>4
<1>5. \A s \in SlotIndices : Hf'[s].h # Hand(u)
  BY <1>2 DEF PutsHand, HandOK
<1>6. ASSUME NEW v \in Team, v # u, Running(v)'
      PROVE  Hand(v)' # Hand(u)
  <2>1. CASE v = t
    BY <1>2, <1>6, <2>1 DEF TakesHand, HandOK
  <2>2. CASE v # t
    BY <1>2, <1>6, <2>2, OthersInScatter DEF HandOK
  <2> QED
    BY <2>1, <2>2
<1>7. \A v \in Team : Hand(u) \notin Rest(v)'
  BY <1>2, OthersInScatter DEF HandOK, TakesHand
<1> QED
  BY <1>1, <1>3, <1>4, <1>5, <1>6, <1>7 DEF HandOK

LEMMA ScatterMove ==
  ASSUME Typed, phase = "scatter", ~UseGustavson, ScatterOK, NEW t \in Team, Steps(t),
         Running(t), PutsHand(t), TakesHand(t), \A u \in Team : u # t => hf'[u] = hf[u],
         \A s \in SlotIndices : InMask(s)', Found(Hf', hsize),
         IF Running(t)' THEN HandOK(t)' ELSE probe'[t] = 0
  PROVE  TInv'
<1>1. SlotIndices' = SlotIndices /\ hsize' = hsize /\ phase' = "scatter"
  BY StepTyped DEF Steps
<1>2. ASSUME NEW u \in Team
      PROVE  IF Running(u)' THEN HandOK(u)' ELSE probe'[u] = 0
  <2>1. CASE u = t
    BY <2>1
  <2>2. CASE u # t
    <3>1. Running(u)' = Running(u) /\ probe'[u] = probe[u]
      BY <2>2, OthersInScatter
    <3>2. Running(u) => HandOK(u)'
      BY <2>2, ScatterOthers
    <3> QED
      BY <3>1, <3>2 DEF ScatterOK
  <2> QED
    BY <2>1, <2>2
<1>3. ASSUME NEW u \in Team, NEW s \in SlotIndices
      PROVE  Hf'[s].h \notin Rest(u)'
  <2>1. Rest(u)' \subseteq Rest(u)
    BY OthersInScatter DEF TakesHand
  <2>2. Hf[s].h \notin Rest(u) /\ Hand(t) \notin Rest(u)
    BY DEF ScatterOK, HandOK
  <2> QED
    BY <2>1, <2>2 DEF PutsHand
<1>4. ScatterOK'
  BY <1>1, <1>2, <1>3 DEF ScatterOK
<1> QED
  BY <1>1, <1>4 DEF TInv, TableOK

\* A task that goes on to its next iteration has a new index in hand
LEMMA AdvanceHandOK ==
  ASSUME Typed, phase = "scatter", ~UseGustavson, ScatterOK, NEW t \in Team,
         Running(t), Advance(t), UNCHANGED <<job, hsize, phase, hf>>, PutsHand(t)
  PROVE  /\ TakesHand(t)
         /\ IF Running(t)' THEN HandOK(t)' ELSE probe'[t] = 0
<1>1. Steps(t)
  BY DEF Steps, Moves
<1>2. /\ probe'[t] = 0 /\ Rest(t)' \subseteq Rest(t)
      /\ Running(t)' => Hand(t)' \in Rest(t)
      /\ Running(t)' => \A u \in Team : Hand(t)' \notin Rest(u)'
  BY AdvanceHand
<1>3. SlotIndices' = SlotIndices
  BY <1>1, StepTyped
<1>4. ASSUME Running(t)'
      PROVE  HandOK(t)'
  <2>1. \A s \in SlotIndices : Hf'[s].h # Hand(t)'
    <3>1. \A s \in SlotIndices : Hf[s].h \notin Rest(t) /\ Hand(t) \notin Rest(t)
      BY DEF ScatterOK, HandOK
    <3> QED
      BY <1>2, <1>4, <3>1 DEF PutsHand
  <2>2. ASSUME NEW u \in Team, u # t, Running(u)'
        PROVE  Hand(u)' # Hand(t)'
    <3>1. Running(u) /\ Hand(u)' = Hand(u)
      BY <1>1, <2>2, OthersInScatter
    <3>2. Hand(u) \notin Rest(t)
      BY <3>1 DEF ScatterOK, HandOK
    <3> QED
      BY <1>2, <1>4, <3>1, <3>2
  <2> QED
    BY <1>2, <1>3, <1>4, <2>1, <2>2 DEF HandOK
<1> QED
  BY <1>2, <1>4 DEF TakesHand

LEMMA SkipFalseTable ==
  ASSUME LInv, TInv, NEW t \in Team, SkipFalse(t), ~UseGustavson
  PROVE  TInv'
<1>1. /\ Typed /\ phase = "scatter" /\ Running(t) /\ Advance(t)
      /\ UNCHANGED <<job, hsize, phase, hf, Hf>> /\ ScatterOK /\ TableOK
  BY DEF SkipFalse, LInv, TInv
<1>2. Steps(t) /\ PutsHand(t)
  BY <1>1 DEF Steps, Moves, PutsHand
<1>3. TakesHand(t) /\ IF Running(t)' THEN HandOK(t)' ELSE probe'[t] = 0
  BY <1>1, <1>2, AdvanceHandOK
<1>4. (\A s \in SlotIndices : InMask(s)') /\ Found(Hf', hsize)
  BY <1>1 DEF ScatterOK, InMask, TableOK, Scattered, InTable
<1> QED
  BY <1>1, <1>2, <1>3, <1>4, ScatterMove

\* What task t has in hand may be put in its slot
LEMMA HandFits ==
  ASSUME Typed, phase = "scatter", ~UseGustavson, ScatterOK, NEW t \in Team, Running(t)
  PROVE  /\ Hand(t) - 1 \in Nat /\ Hand(t) - 1 + 1 = Hand(t)
         /\ Used(Hf, hsize, Hand(t) - 1, Slot(t))
         /\ \A s \in SlotIndices : Hf[s].h # Hand(t)
         /\ LET e == IF probe[t] = 0 THEN Masked(Index(t)) ELSE hf[t]
            IN  e.h = Hand(t) /\ e.f = 1
<1>1. HandOK(t)
  BY DEF ScatterOK
<1>2. Index(t) \in Nat /\ Index(t) = ToScatter(t)[pos[t]]
  BY RunningScatters
<1>3. CASE probe[t] = 0
  <2>1. Hand(t) = Index(t) + 1 /\ Hand(t) - 1 = Index(t)
    BY <1>2, <1>3 DEF Hand
  <2>2. \A r \in Way(hsize, Index(t), Slot(t)) : r = Slot(t)
    BY <1>2, <1>3, FirstSlot, SizeOfTable, WayHome
  <2>3. Masked(Index(t)).h = Index(t) + 1 /\ Masked(Index(t)).f = 1
    BY DEF Masked, Entry
  <2> QED
    BY <1>1, <1>2, <1>3, <2>1, <2>2, <2>3 DEF HandOK, Used
<1>4. CASE probe[t] # 0
  <2>1. hf[t].h \in Nat
    BY DEF Typed, Entries
  <2> QED
    BY <1>1, <1>4, <2>1 DEF HandOK, Hand
<1> QED
  BY <1>3, <1>4

LEMMA HashScatterTable ==
  ASSUME LInv, TInv, NEW t \in Team, HashScatter(t)
  PROVE  TInv'
<1> DEFINE s == Slot(t)
           seen == Hf[s]
           i_mine == IF probe[t] = 0 THEN Masked(Index(t)) ELSE hf[t]
<1>1. /\ Typed /\ phase = "scatter" /\ Running(t) /\ ~UseGustavson
      /\ UNCHANGED <<job, hsize, phase>> /\ ScatterOK /\ TableOK
  BY DEF HashScatter, LInv, TInv
<1>2. /\ SetFlag(t, i_mine)
      /\ \/ Advance(t) /\ UNCHANGED hf
         \/ seen # Empty /\ Rehash(t) /\ hf' = [hf EXCEPT ![t] = seen]
  BY DEF HashScatter
<1>3. Steps(t)
  BY <1>1, <1>2 DEF Steps, Moves
<1>4. i_mine.h = Hand(t) /\ i_mine.f = 1
  BY <1>1, HandFits
<1> HIDE DEF i_mine
<1>5. /\ s \in SlotIndices /\ SlotIndices = 0 .. hsize - 1 /\ hsize \in Nat \ {0}
      /\ Hf \in [0 .. hsize - 1 -> Entries]
  BY <1>1, SlotInTable, SizeOfTable DEF Typed, SlotIndices
<1>6. /\ Hand(t) - 1 \in Nat /\ Hand(t) - 1 + 1 = Hand(t) /\ Hand(t) # 0
      /\ Used(Hf, hsize, Hand(t) - 1, s)
      /\ \A r \in SlotIndices : Hf[r].h # Hand(t)
  BY <1>1, HandFits
<1>7. Hf'[s] = i_mine /\ \A r \in SlotIndices : r # s => Hf'[r] = Hf[r]
  BY <1>2, <1>5 DEF SetFlag
<1>8. \A r \in 0 .. hsize - 1 : Hf'[r].h = IF r = s THEN Hand(t) - 1 + 1 ELSE Hf[r].h
  BY <1>4, <1>5, <1>6, <1>7
<1>9. Found(Hf', hsize)
  BY <1>1, <1>5, <1>6, <1>8, FoundPlaced DEF TableOK
<1>10. PutsHand(t)
  BY <1>5, <1>6, <1>8 DEF PutsHand
<1>11. \A r \in SlotIndices : InMask(r)'
  <2>1. Scattered' /\ Scattered
    BY <1>1, RunningScatters DEF Scattered, InTable
  <2> QED
    BY <1>1, <1>4, <1>6, <1>7, <2>1 DEF ScatterOK, InMask
<1>12. CASE Advance(t) /\ UNCHANGED hf
  <2>1. TakesHand(t) /\ IF Running(t)' THEN HandOK(t)' ELSE probe'[t] = 0
    BY <1>1, <1>10, <1>12, AdvanceHandOK
  <2> QED
    BY <1>1, <1>3, <1>9, <1>10, <1>11, <1>12, <2>1, ScatterMove
<1>13. CASE seen # Empty /\ Rehash(t) /\ hf' = [hf EXCEPT ![t] = seen]
  <2>1. /\ Running(t)' /\ ToScatter(t)' = ToScatter(t) /\ probe'[t] # 0
        /\ Slot(t)' = After(hsize, s)
    BY <1>1, <1>13, NextSlot
  <2>2. pos' = pos /\ hf'[t] = seen /\ \A u \in Team : u # t => hf'[u] = hf[u]
    BY <1>1, <1>13 DEF Rehash, Typed
  <2>3. seen.h # 0 /\ seen.f = 1 /\ seen.h \in Nat
    BY <1>1, <1>5, <1>13 DEF ScatterOK, InMask, Entries
  <2>4. Hand(t)' = seen.h
    BY <2>1, <2>2 DEF Hand
  <2>5. \A u \in Team : Rest(u)' = Rest(u)
    BY <1>1, <2>2 DEF Rest, ToScatter, UseGustavson
  <2>6. TakesHand(t)
    BY <1>5, <2>4, <2>5 DEF TakesHand
  <2>7. Used(Hf', hsize, seen.h - 1, After(hsize, s))
    <3>1. Used(Hf, hsize, seen.h - 1, s) /\ seen.h - 1 \in Nat
      BY <1>1, <1>5, <2>3 DEF TableOK, Found
    <3>2. Used(Hf', hsize, seen.h - 1, s)
      BY <1>5, <1>10, <3>1, UsedKept DEF PutsHand
    <3>3. Hf'[s].h # 0
      BY <1>4, <1>6, <1>7
    <3> QED
      BY <1>5, <3>1, <3>2, <3>3, UsedAfter
  <2>8. \A r \in SlotIndices : Hf'[r].h # seen.h
    <3>1. \A r \in 0 .. hsize - 1 : Hf[r].h = seen.h => r = s
      BY <1>1, <1>5, <2>3 DEF TableOK, Found
    <3> QED
      BY <1>5, <1>6, <1>8, <3>1
  <2>9. ASSUME NEW u \in Team, u # t, Running(u)'
        PROVE  Hand(u)' # seen.h
    <3>1. Running(u) /\ Hand(u)' = Hand(u)
      BY <1>1, <1>3, <2>2, <2>9, OthersInScatter
    <3> QED
      BY <1>1, <1>5, <2>9, <3>1 DEF ScatterOK, HandOK
  <2>10. \A u \in Team : seen.h \notin Rest(u)'
    BY <1>1, <1>5, <2>5 DEF ScatterOK
  <2>11. HandOK(t)'
    <3>1. SlotIndices' = SlotIndices
      BY <1>1, <1>3, StepTyped
    <3> HIDE DEF s, seen
    <3> QED
      BY <1>1, <2>1, <2>2, <2>3, <2>4, <2>7, <2>8, <2>9, <2>10, <3>1 DEF HandOK
  <2> QED
    BY <1>1, <1>3, <1>9, <1>10, <1>11, <2>1, <2>2, <2>6, <2>11, ScatterMove
<1> QED
  BY <1>2, <1>12, <1>13

-----------------------------------------------------------------------------
(* Phase 2: terms are added *)

Hashing == phase = "numeric" /\ ~UseGustavson

\* What a step of task t does to its slot: it keeps the index there, or it puts
\* its own into an empty slot whose lock it has
PutsIndex(t) ==
  /\ \A r \in SlotIndices : r # Slot(t) => Hf'[r] = Hf[r]
  /\ \/ Hf'[Slot(t)].h = Hf[Slot(t)].h
     \/ /\ Hf[Slot(t)].h = 0 /\ Hf'[Slot(t)].h = Index(t) + 1
        /\ Owns(t) /\ Probed(t) /\ ~InTable("M")
  /\ Hf'[Slot(t)].f = 1 => Hf[Slot(t)].f = 1

LEMMA NumericTable ==
  ASSUME LInv, Hashing, TableOK, NEW t \in Team, InNumeric(t), PutsIndex(t)
  PROVE  Found(Hf', hsize)
<1>1. /\ Slot(t) \in SlotIndices /\ SlotIndices = 0 .. hsize - 1 /\ hsize \in Nat \ {0}
      /\ Hf \in [0 .. hsize - 1 -> Entries] /\ Index(t) \in Nat
  BY SlotInTable, SizeOfTable, IndexInRows DEF LInv, Typed, SlotIndices, InNumeric, Rows
<1>2. CASE Hf'[Slot(t)].h = Hf[Slot(t)].h
  <2>1. \A r \in 0 .. hsize - 1 : Hf'[r].h = Hf[r].h
    BY <1>1, <1>2 DEF PutsIndex
  <2> QED
    BY <1>1, <2>1, FoundSame DEF TableOK
<1>3. CASE Hf[Slot(t)].h = 0 /\ Hf'[Slot(t)].h = Index(t) + 1 /\ Probed(t)
  <2>1. Used(Hf, hsize, Index(t), Slot(t))
    BY <1>3 DEF Probed, Used
  <2>2. \A r \in 0 .. hsize - 1 : Hf[r].h # Index(t) + 1
    BY <1>1, <1>3, NotFound DEF Probed, TableOK
  <2>3. \A r \in 0 .. hsize - 1 : Hf'[r].h = IF r = Slot(t) THEN Index(t) + 1 ELSE Hf[r].h
    BY <1>1, <1>3 DEF PutsIndex
  <2> QED
    BY <1>1, <2>1, <2>2, <2>3, FoundPlaced DEF TableOK
<1> QED
  BY <1>2, <1>3 DEF PutsIndex

\* The others are still on their way, and may still take or have their lock
LEMMA NumericOthers ==
  ASSUME LInv, Hashing, NumericOK, NEW t \in Team, InNumeric(t), Steps(t),
         PutsIndex(t), NEW u \in Team, u # t, hf'[u] = hf[u], Running(u)
  PROVE  Probed(u)' /\ MayTake(u)'
<1>1. Typed /\ phase = "numeric" /\ ~UseGustavson
  BY DEF LInv, Hashing
<1>2. /\ Index(u)' = Index(u) /\ Slot(u)' = Slot(u) /\ pc'[u] = pc[u]
      /\ hsize' = hsize /\ job' = job
  BY <1>1, OthersInScatter, StepFrame DEF Steps
<1>3. /\ Slot(u) \in SlotIndices /\ Slot(t) \in SlotIndices
      /\ SlotIndices = 0 .. hsize - 1 /\ hsize \in Nat \ {0} /\ Index(u) \in Nat
  BY <1>1, SlotInTable, SizeOfTable, IndexInRows DEF SlotIndices, InNumeric, Rows
<1>4. Probed(u) /\ MayTake(u)
  BY DEF NumericOK
<1>5. \A r \in SlotIndices : Hf[r].h # 0 => Hf'[r].h = Hf[r].h
  BY DEF PutsIndex
<1>6. Probed(u)'
  <2>1. Way(hsize, Index(u), Slot(u)) \subseteq SlotIndices
    BY <1>3, WayInTable
  <2>2. \A r \in Way(hsize, Index(u), Slot(u)) :
          r # Slot(u) => Hf'[r].h # 0 /\ Hf'[r].h # Index(u) + 1
    BY <1>4, <1>5, <2>1 DEF Probed
  <2> QED
    BY <1>2, <2>2 DEF Probed
<1>7. InTable("M") => Hf'[Slot(u)].h = Hf[Slot(u)].h
  BY <1>3 DEF PutsIndex
<1>8. pc[u] \in Critical => Hf'[Slot(u)].h = Hf[Slot(u)].h
  <2>1. pc[u] \in Critical => Owns(u)
    BY <1>1 DEF Critical, Owns, InNumeric
  <2>2. Owns(t) /\ Owns(u) => Slot(t) # Slot(u)
    BY DEF LInv, LockSound
  <2> QED
    BY <1>3, <2>1, <2>2 DEF PutsIndex
<1>9. Hf'[Slot(u)].f = 1 => Hf[Slot(u)].f = 1
  BY <1>3 DEF PutsIndex
<1>10. MayTake(u)'
  <2>1. InTable("M")' = InTable("M")
    BY <1>2 DEF InTable
  <2> QED
    BY <1>2, <1>4, <1>7, <1>8, <1>9, <2>1 DEF MayTake
<1> QED
  BY <1>6, <1>10

LEMMA NumericMove ==
  ASSUME LInv, Hashing, TableOK, NumericOK, NEW t \in Team, InNumeric(t), Steps(t),
         PutsIndex(t), \A u \in Team : u # t => hf'[u] = hf[u],
         EntryOK(Hf'[Slot(t)]), Running(t)' => Probed(t)' /\ MayTake(t)'
  PROVE  TInv'
<1>1. Typed /\ phase = "numeric" /\ ~UseGustavson
  BY DEF LInv, Hashing
<1>2. SlotIndices' = SlotIndices /\ hsize' = hsize /\ phase' = phase /\ job' = job
  BY <1>1, StepTyped DEF Steps
<1>3. ASSUME NEW u \in Team, Running(u)'
      PROVE  Probed(u)' /\ MayTake(u)'
  <2>1. u # t => Running(u)
    BY <1>1, <1>3, OthersInScatter
  <2> QED
    BY <1>3, <2>1, NumericOthers
<1>4. ASSUME NEW s \in SlotIndices
      PROVE  EntryOK(Hf[s])'
  <2>1. EntryOK(Hf'[s])
    BY DEF PutsIndex, NumericOK
  <2> QED
    BY <1>2, <2>1 DEF EntryOK, Scattered, InTable
<1>5. NumericOK'
  BY <1>2, <1>3, <1>4 DEF NumericOK
<1>6. Found(Hf', hsize)
  BY NumericTable
<1> QED
  BY <1>1, <1>2, <1>5, <1>6 DEF TInv, TableOK

\* The next iteration starts at the first slot of its index
LEMMA FreshProbe ==
  ASSUME LInv, Hashing, NEW t \in Team, Advance(t), UNCHANGED <<job, hsize, phase>>,
         Running(t)'
  PROVE  Probed(t)' /\ MayTake(t)'
<1>1. pc'[t] = "find" /\ probe'[t] = 0 /\ pos'[t] = pos[t] + 1 /\ pos[t] \in Nat \ {0}
  BY DEF LInv, Typed, Advance
<1>2. ~UseGustavson' /\ hsize \in Nat \ {0} /\ phase' = "numeric"
  BY SizeOfTable DEF LInv, Hashing, UseGustavson
<1>3. job.work[t] \in Seq(Rows) /\ job' = job
  BY JobFields DEF LInv, Typed
<1>4. Index(t)' \in Nat
  <2>1. pos[t] + 1 \in 1 .. Len(job.work[t])
    BY <1>1, <1>2, <1>3, LenProperties DEF Running, Trips
  <2>2. job.work[t][pos[t] + 1] \in Rows
    BY <1>3, <2>1, ElementOfSeq
  <2> QED
    BY <1>1, <1>2, <1>3, <2>2 DEF Index, Rows
<1>5. Slot(t)' = (257 * Index(t)') % hsize
  <2>1. 257 * Index(t)' + 0 = 257 * Index(t)'
    BY <1>4
  <2> QED
    BY <1>1, <1>2, <2>1 DEF Slot
<1>6. \A r \in Way(hsize, Index(t)', Slot(t)') : r = Slot(t)'
  BY <1>2, <1>4, <1>5, WayHome
<1>7. Probed(t)'
  BY <1>6 DEF Probed
<1> QED
  BY <1>1, <1>7 DEF MayTake, Critical

\* A task that rehashes has seen another index in its slot
LEMMA NextProbe ==
  ASSUME LInv, Hashing, NumericOK, NEW t \in Team, InNumeric(t), Rehash(t),
         UNCHANGED <<job, hsize, phase>>,
         \A r \in SlotIndices : Hf'[r].h = Hf[r].h,
         Hf[Slot(t)].h # 0, Hf[Slot(t)].h # Index(t) + 1
  PROVE  Probed(t)' /\ MayTake(t)'
<1>1. Typed /\ phase = "numeric" /\ ~UseGustavson /\ Running(t)
  BY DEF LInv, Hashing, InNumeric
<1>2. Index(t)' = Index(t) /\ Slot(t)' = After(hsize, Slot(t)) /\ pc'[t] = "find"
  BY <1>1, NextSlot, RoundOrOut
<1>3. /\ Slot(t) \in 0 .. hsize - 1 /\ hsize \in Nat \ {0} /\ Index(t) \in Nat
      /\ SlotIndices = 0 .. hsize - 1
  BY <1>1, SlotInTable, SizeOfTable, IndexInRows DEF SlotIndices, Rows
<1>4. Probed(t)
  BY <1>1 DEF NumericOK
<1>5. ASSUME NEW r \in Way(hsize, Index(t), After(hsize, Slot(t))), r # After(hsize, Slot(t))
      PROVE  Hf'[r].h # 0 /\ Hf'[r].h # Index(t) + 1
  <2>1. r \in Way(hsize, Index(t), Slot(t))
    BY <1>3, <1>5, WayAfter
  <2>2. r \in SlotIndices
    BY <1>3, <2>1, WayInTable
  <2> QED
    BY <1>4, <2>1, <2>2 DEF Probed
<1>6. Probed(t)'
  BY <1>2, <1>5 DEF Probed
<1> QED
  BY <1>2, <1>6 DEF MayTake, Critical

\* A task that goes on in its iteration is as far on its way
LEMMA SameProbe ==
  ASSUME LInv, Hashing, NumericOK, NEW t \in Team, InNumeric(t), NEW label \in Labels,
         Goto(t, label), UNCHANGED <<job, hsize, phase>>,
         \A r \in SlotIndices : Hf'[r].h = Hf[r].h
  PROVE  /\ Probed(t)' /\ pc'[t] = label
         /\ Index(t)' = Index(t) /\ Slot(t)' = Slot(t)
<1>1. Typed /\ phase = "numeric" /\ ~UseGustavson /\ Running(t)
  BY DEF LInv, Hashing, InNumeric
<1>2. pc'[t] = label /\ Slot(t)' = Slot(t) /\ pos' = pos
  BY <1>1, GotoFrame DEF Goto
<1>3. Index(t)' = Index(t)
  BY <1>1, <1>2 DEF Index
<1>4. /\ Slot(t) \in 0 .. hsize - 1 /\ hsize \in Nat \ {0} /\ Index(t) \in Nat
      /\ SlotIndices = 0 .. hsize - 1
  BY <1>1, SlotInTable, SizeOfTable, IndexInRows DEF SlotIndices, Rows
<1>5. Probed(t)
  BY <1>1 DEF NumericOK
<1>6. Way(hsize, Index(t), Slot(t)) \subseteq SlotIndices
  BY <1>4, WayInTable
<1>7. Probed(t)'
  BY <1>2, <1>3, <1>5, <1>6 DEF Probed
<1> QED
  BY <1>2, <1>3, <1>7

\* A step that leaves the table and the entries the tasks have put aside
LEMMA QuietTable ==
  ASSUME LInv, Hashing, TInv, NEW t \in Team, InNumeric(t), Steps(t),
         UNCHANGED <<hf, Hf>>, Running(t)' => Probed(t)' /\ MayTake(t)'
  PROVE  TInv'
<1>1. TableOK /\ NumericOK
  BY DEF Hashing, TInv
<1>2. Slot(t) \in SlotIndices
  BY SlotInTable DEF LInv, InNumeric
<1>3. PutsIndex(t) /\ EntryOK(Hf'[Slot(t)])
  BY <1>1, <1>2 DEF PutsIndex, NumericOK
<1> QED
  BY <1>1, <1>3, NumericMove

LEMMA HashSkipTable ==
  ASSUME LInv, Hashing, TInv, NEW t \in Team, HashSkip(t)
  PROVE  TInv'
<1>1. InNumeric(t) /\ Advance(t) /\ UNCHANGED <<job, hsize, phase, hf, Hf>>
  BY DEF HashSkip, At
<1>2. Steps(t)
  BY <1>1 DEF Steps, Moves
<1> QED
  BY <1>1, <1>2, FreshProbe, QuietTable

LEMMA HashFindTable ==
  ASSUME LInv, Hashing, TInv, NEW t \in Team, HashFind(t)
  PROVE  TInv'
<1> DEFINE seen == Hf[Slot(t)]
           i    == Index(t)
<1>1. /\ InNumeric(t) /\ UNCHANGED <<job, hsize, phase, hf, Hf>>
      /\ NumericOK /\ Running(t)
  BY DEF HashFind, At, Hashing, TInv, InNumeric
<1>2. /\ Slot(t) \in SlotIndices /\ seen \in Entries /\ EntryOK(seen) /\ i \in Nat
      /\ job.inPlace \in BOOLEAN
  BY <1>1, SlotInTable, IndexInRows, JobFields DEF LInv, Typed, NumericOK, InNumeric, Rows
<1>3. CASE Advance(t)
  <2>1. Steps(t)
    BY <1>1, <1>3 DEF Steps, Moves
  <2> QED
    BY <1>1, <1>3, <2>1, FreshProbe, QuietTable
<1>4. CASE Goto(t, "fast")
  <2>1. Steps(t) /\ "fast" \in Labels
    BY <1>1, <1>4 DEF Steps, Moves, Labels
  <2>2. Probed(t)' /\ pc'[t] = "fast"
    BY <1>1, <1>4, <2>1, SameProbe
  <2>3. MayTake(t)'
    BY <2>2 DEF MayTake, Critical
  <2> QED
    BY <1>1, <2>1, <2>2, <2>3, QuietTable
<1>5. CASE Candidate(seen, i) /\ ~Ignored(seen, i) /\ Goto(t, "lock")
  <2>1. Steps(t) /\ "lock" \in Labels
    BY <1>1, <1>5 DEF Steps, Moves, Labels
  <2>2. Probed(t)' /\ pc'[t] = "lock" /\ Index(t)' = i /\ Slot(t)' = Slot(t)
    BY <1>1, <1>5, <2>1, SameProbe
  <2>3. InTable("M") => seen.h = i + 1
    BY <1>5 DEF Candidate
  <2>4. seen.f # 1 \/ InTable("M")
    <3>1. SUFFICES ASSUME seen.f = 1, ~InTable("M")
                   PROVE  FALSE
      OBVIOUS
    <3>2. InTable("notM") /\ seen.h = i + 1
      BY <1>2, <1>5, <3>1 DEF EntryOK, Scattered, Candidate
    <3>3. seen = Masked(i)
      BY <1>2, <3>1, <3>2 DEF Masked, Entry, Entries
    <3> QED
      BY <1>5, <3>2, <3>3 DEF Ignored
  <2>5. MayTake(t)'
    <3>1. InTable("M")' = InTable("M")
      BY <1>1 DEF InTable
    <3> QED
      BY <1>1, <2>2, <2>3, <2>4, <3>1 DEF MayTake, Critical
  <2> QED
    BY <1>1, <2>1, <2>2, <2>5, QuietTable
<1>6. CASE ~Candidate(seen, i) /\ ~Ignored(seen, i) /\ Rehash(t)
  <2>1. Steps(t)
    BY <1>1, <1>6 DEF Steps, Moves
  <2>2. seen.h # i + 1
    BY <1>6 DEF Candidate
  <2>3. seen.h # 0
    <3>1. SUFFICES ASSUME seen.h = 0
                   PROVE  FALSE
      OBVIOUS
    <3>2. InTable("M") /\ seen.f = 0
      BY <1>2, <1>6, <3>1 DEF Candidate, EntryOK
    <3>3. seen = Empty
      BY <1>2, <3>1, <3>2 DEF Empty, Entry, Entries
    <3> QED
      BY <1>6, <3>2, <3>3 DEF Ignored
  <2>4. Probed(t)' /\ MayTake(t)'
    BY <1>1, <1>6, <2>2, <2>3, NextProbe
  <2> QED
    BY <1>1, <2>1, <2>4, QuietTable
<1> QED
  BY <1>3, <1>4, <1>5, <1>6 DEF HashFind

LEMMA AccessTable ==
  ASSUME LInv, Hashing, TInv, NEW t \in Team, AccessHx(t)
  PROVE  TInv'
<1>1. /\ InNumeric(t) /\ UNCHANGED <<job, hsize, phase, hf, Hf>> /\ NumericOK /\ Running(t)
  BY DEF AccessHx, WriteHx, UpdateHx, StoreHx, FastUpdateHx, At, Hashing, TInv, InNumeric
<1>2. CASE FastUpdateHx(t)
  <2>1. Steps(t) /\ Advance(t)
    BY <1>1, <1>2 DEF FastUpdateHx, Steps, Moves
  <2> QED
    BY <1>1, <2>1, FreshProbe, QuietTable
<1>3. CASE WriteHx(t) \/ UpdateHx(t) \/ StoreHx(t)
  <2>1. pc[t] \in {"write", "update", "store"}
    BY <1>3 DEF WriteHx, UpdateHx, StoreHx, At
  <2>2. PICK label \in {"store", "unlock"} : Goto(t, label)
    BY <1>3 DEF WriteHx, UpdateHx, StoreHx
  <2>3. Steps(t) /\ label \in Labels
    BY <1>1, <2>2 DEF Steps, Moves, Labels
  <2>4. Probed(t)' /\ pc'[t] = label /\ Index(t)' = Index(t) /\ Slot(t)' = Slot(t)
    BY <1>1, <2>2, <2>3, SameProbe
  <2>5. MayTake(t) /\ InTable("M")' = InTable("M")
    BY <1>1 DEF NumericOK, InTable
  <2>6. MayTake(t)'
    BY <1>1, <2>1, <2>2, <2>4, <2>5 DEF MayTake, Critical
  <2> QED
    BY <1>1, <2>3, <2>4, <2>6, QuietTable
<1> QED
  BY <1>2, <1>3 DEF AccessHx

LEMMA HashLockTable ==
  ASSUME LInv, Hashing, TInv, NEW t \in Team, HashLock(t)
  PROVE  TInv'
<1> DEFINE seen == Hf[Slot(t)]
           i    == Index(t)
<1>1. /\ InNumeric(t) /\ Running(t) /\ pc[t] = "lock" /\ UNCHANGED <<job, hsize, phase>>
      /\ MayLock(seen) /\ SetFlag(t, Locked(seen)) /\ hf' = [hf EXCEPT ![t] = seen]
      /\ NumericOK /\ TableOK
  BY DEF HashLock, At, Hashing, TInv, InNumeric
<1>2. PICK label \in {"write", "update", "unlock", "restore"} :
        /\ Goto(t, label)
        /\ label # "restore" => IsNew(seen) \/ IsMine(seen, i)
        /\ label = "restore" => ~IsNew(seen) /\ ~IsMine(seen, i)
  BY DEF HashLock
<1>3. /\ Slot(t) \in SlotIndices /\ seen \in Entries /\ EntryOK(seen) /\ MayTake(t)
      /\ i \in Nat
  BY <1>1, SlotInTable, IndexInRows DEF LInv, Typed, NumericOK, InNumeric, Rows
<1>4. /\ Hf'[Slot(t)].h = seen.h /\ Hf'[Slot(t)].f = 3
      /\ \A r \in SlotIndices : r # Slot(t) => Hf'[r] = Hf[r]
  BY <1>1, <1>3 DEF LInv, Typed, SetFlag, Locked, Entry
<1>5. Steps(t) /\ label \in Labels
  BY <1>1, <1>2 DEF Steps, Moves, Labels
<1>6. PutsIndex(t)
  BY <1>4 DEF PutsIndex
<1>7. InTable("M") => seen.h = i + 1
  BY <1>1, <1>3 DEF MayTake
<1>8. EntryOK(Hf'[Slot(t)])
  BY <1>3, <1>4, <1>7 DEF EntryOK
<1>9. /\ Probed(t)' /\ pc'[t] = label /\ Index(t)' = i /\ Slot(t)' = Slot(t)
  <2>1. \A r \in SlotIndices : Hf'[r].h = Hf[r].h
    BY <1>4
  <2> QED
    BY <1>1, <1>2, <1>5, <2>1, SameProbe
<1>10. hf'[t] = seen /\ \A u \in Team : u # t => hf'[u] = hf[u]
  BY <1>1 DEF LInv, Typed
<1>11. IsNew(seen) \/ IsMine(seen, i) => seen.h = 0 \/ seen.h = i + 1
  BY <1>7 DEF IsNew, IsMine, Empty, Unlocked, Entry
<1>12. ASSUME ~IsNew(seen), ~IsMine(seen, i)
       PROVE  seen.h # 0 /\ seen.h # i + 1 /\ seen.f = 2
  <2>1. ~InTable("M") /\ seen # Empty /\ seen # Unlocked(i)
    BY <1>12 DEF IsNew, IsMine
  <2>2. seen.f # 1 /\ seen.f # 3 /\ seen.f \in 0 .. 3
    BY <1>1, <1>3, <2>1 DEF MayTake, MayLock, Entries
  <2>3. seen.h # 0
    <3>1. seen.h = 0 => seen.f = 0
      BY <1>3, <2>2 DEF EntryOK
    <3> QED
      BY <1>3, <2>1, <3>1 DEF Empty, Entry, Entries
  <2>4. seen.f = 2
    BY <1>3, <2>2, <2>3 DEF EntryOK
  <2> QED
    BY <1>3, <2>1, <2>3, <2>4 DEF Unlocked, Entry, Entries
<1>13. MayTake(t)'
  <2>1. InTable("M")' = InTable("M")
    BY <1>1 DEF InTable
  <2> HIDE DEF seen, i
  <2>2. Hf'[Slot(t)'].h = seen.h
    BY <1>4, <1>9
  <2>3. label # "lock"
    OBVIOUS
  <2> QED
    BY <1>2, <1>7, <1>9, <1>10, <1>11, <1>12, <2>1, <2>2, <2>3 DEF MayTake
<1> QED
  BY <1>1, <1>5, <1>6, <1>8, <1>9, <1>10, <1>13, NumericMove

LEMMA HashUnlockTable ==
  ASSUME LInv, Hashing, TInv, NEW t \in Team, HashUnlock(t)
  PROVE  TInv'
<1>1. /\ InNumeric(t) /\ Running(t) /\ pc[t] = "unlock" /\ UNCHANGED <<job, hsize, phase, hf>>
      /\ SetFlag(t, Unlocked(Index(t))) /\ Advance(t) /\ NumericOK /\ TableOK
  BY DEF HashUnlock, At, Hashing, TInv, InNumeric
<1>2. /\ Slot(t) \in SlotIndices /\ MayTake(t) /\ Probed(t) /\ Index(t) \in Nat
  BY <1>1, SlotInTable, IndexInRows DEF LInv, Typed, NumericOK, InNumeric, Rows
<1>3. /\ Hf'[Slot(t)].h = Index(t) + 1 /\ Hf'[Slot(t)].f = 2
      /\ \A r \in SlotIndices : r # Slot(t) => Hf'[r] = Hf[r]
  BY <1>1, <1>2 DEF LInv, Typed, SetFlag, Unlocked, Entry
<1>4. Hf[Slot(t)].h = 0 \/ Hf[Slot(t)].h = Index(t) + 1
  BY <1>1, <1>2 DEF MayTake, Critical
<1>5. Hf[Slot(t)].h = 0 => ~InTable("M")
  BY <1>1, <1>2 DEF MayTake, Critical
<1>6. Owns(t)
  BY <1>1 DEF Owns, Hashing
<1>7. PutsIndex(t)
  BY <1>2, <1>3, <1>4, <1>5, <1>6 DEF PutsIndex
<1>8. EntryOK(Hf'[Slot(t)])
  BY <1>2, <1>3 DEF EntryOK
<1>9. Steps(t)
  BY <1>1 DEF Steps, Moves
<1>10. Running(t)' => Probed(t)' /\ MayTake(t)'
  BY <1>1, FreshProbe
<1> QED
  BY <1>1, <1>7, <1>8, <1>9, <1>10, NumericMove

LEMMA HashRestoreTable ==
  ASSUME LInv, Hashing, TInv, NEW t \in Team, HashRestore(t)
  PROVE  TInv'
<1>1. /\ InNumeric(t) /\ Running(t) /\ pc[t] = "restore" /\ UNCHANGED <<job, hsize, phase, hf>>
      /\ SetFlag(t, hf[t]) /\ Rehash(t) /\ NumericOK /\ TableOK
  BY DEF HashRestore, At, Hashing, TInv, InNumeric
<1>2. /\ Slot(t) \in SlotIndices /\ MayTake(t) /\ Index(t) \in Nat
  BY <1>1, SlotInTable, IndexInRows DEF LInv, Typed, NumericOK, InNumeric, Rows
<1>3. Hf'[Slot(t)] = hf[t] /\ \A r \in SlotIndices : r # Slot(t) => Hf'[r] = Hf[r]
  BY <1>1, <1>2 DEF LInv, Typed, SetFlag
<1>4. /\ Hf[Slot(t)].h = hf[t].h /\ hf[t].h # 0 /\ hf[t].h # Index(t) + 1
      /\ hf[t].f = 2
  BY <1>1, <1>2 DEF MayTake, Critical
<1>5. PutsIndex(t) /\ EntryOK(Hf'[Slot(t)])
  BY <1>3, <1>4 DEF PutsIndex, EntryOK
<1>6. Steps(t)
  BY <1>1 DEF Steps, Moves
<1>7. \A r \in SlotIndices : Hf'[r].h = Hf[r].h
  BY <1>3, <1>4
<1>8. Probed(t)' /\ MayTake(t)'
  BY <1>1, <1>4, <1>7, NextProbe
<1> QED
  BY <1>1, <1>5, <1>6, <1>8, NumericMove

-----------------------------------------------------------------------------
(* The phases *)

\* Phase 2 starts with the mask in the table, and every task at its loop
LEMMA EndScatterTable ==
  ASSUME LInv, TInv, EndScatter, ~UseGustavson
  PROVE  TInv'
<1>1. /\ phase = "scatter" /\ phase' = "numeric" /\ pos' = [t \in Team |-> 1]
      /\ UNCHANGED <<job, hsize, pc, probe, hf, Hf>>
      /\ \A t \in Team : ~Running(t)
  BY DEF EndScatter, Barrier, locals
<1>2. Typed /\ TableOK /\ ScatterOK /\ hsize \in Nat \ {0}
  BY <1>1, SizeOfTable DEF LInv, TInv
<1>3. ASSUME NEW t \in Team, Running(t)'
      PROVE  Probed(t)' /\ MayTake(t)'
  <2>1. probe'[t] = 0 /\ pc'[t] = "find" /\ pos'[t] = 1
    BY <1>1, <1>2, Outside DEF ScatterOK
  <2>2. job.work[t] \in Seq(Rows)
    BY <1>2, JobFields DEF Typed
  <2>3. Index(t)' \in Nat
    <3>1. 1 \in 1 .. Len(job.work[t])
      BY <1>1, <1>3, <2>1, <2>2, LenProperties DEF Running, Trips
    <3>2. job.work[t][1] \in Rows
      BY <2>2, <3>1, ElementOfSeq
    <3> QED
      BY <1>1, <2>1, <3>2 DEF Index, Rows
  <2>4. Slot(t)' = (257 * Index(t)') % hsize
    <3>1. 257 * Index(t)' + 0 = 257 * Index(t)'
      BY <2>3
    <3> QED
      BY <1>1, <2>1, <3>1 DEF Slot, UseGustavson
  <2>5. \A r \in Way(hsize, Index(t)', Slot(t)') : r = Slot(t)'
    BY <1>2, <2>3, <2>4, WayHome
  <2>6. Probed(t)'
    BY <1>1, <2>5 DEF Probed
  <2> QED
    BY <2>1, <2>6 DEF MayTake, Critical
<1>4. ASSUME NEW s \in SlotIndices
      PROVE  EntryOK(Hf[s])'
  <2>1. EntryOK(Hf[s])
    BY <1>2 DEF ScatterOK, InMask, EntryOK, Empty, Entry
  <2> QED
    BY <1>1, <2>1 DEF EntryOK, Scattered, InTable
<1>5. NumericOK'
  BY <1>1, <1>3, <1>4 DEF NumericOK, SlotIndices
<1> QED
  BY <1>1, <1>2, <1>5 DEF TInv, TableOK

\* Later the table does not change
LEMMA LaterTable ==
  ASSUME LInv, TInv, UNCHANGED <<hsize, Hf>>, phase' \notin {"scatter", "numeric"}
  PROVE  TInv'
BY DEF TInv, TableOK, UseGustavson

LEMMA StutterTable ==
  ASSUME TInv, UNCHANGED vars
  PROVE  TInv'
<1>1. UNCHANGED <<job, hsize, phase, pos, pc, probe, hf, zold, Hf, Hx, my_cjnz, C>>
  BY DEF vars, locals
<1>2. /\ UseGustavson' = UseGustavson /\ Scattered' = Scattered /\ TableOK' = TableOK
      /\ InTable("M")' = InTable("M")
      /\ \A t \in Team : /\ ToScatter(t)' = ToScatter(t)
                         /\ Index(t)' = Index(t) /\ Slot(t)' = Slot(t)
  BY <1>1 DEF UseGustavson, Scattered, InTable, TableOK, ToScatter, Index, Slot
<1>3. /\ \A t \in Team : /\ Running(t)' = Running(t) /\ Hand(t)' = Hand(t)
                         /\ Rest(t)' = Rest(t)
                         /\ Probed(t)' = Probed(t) /\ MayTake(t)' = MayTake(t)
      /\ \A s \in SlotIndices : InMask(s)' = InMask(s) /\ EntryOK(Hf[s])' = EntryOK(Hf[s])
  BY <1>1, <1>2 DEF Running, Trips, Hand, Rest, Probed, MayTake, InMask, EntryOK
<1>4. SlotIndices' = SlotIndices /\ \A t \in Team : HandOK(t)' = HandOK(t)
  BY <1>1, <1>2, <1>3 DEF SlotIndices, HandOK
<1>5. ScatterOK' = ScatterOK /\ NumericOK' = NumericOK
  BY <1>1, <1>2, <1>3, <1>4 DEF ScatterOK, NumericOK
<1> QED
  BY <1>1, <1>2, <1>5 DEF TInv

LEMMA InitTable == Init => TInv
<1> SUFFICES ASSUME Init
             PROVE  TInv
  OBVIOUS
<1>1. \A s \in SlotIndices : Hf[s] = Empty
  BY DEF Init
<1>2. TableOK
  BY <1>1 DEF TableOK, Found, SlotIndices, Empty, Entry
<1>3. LInv
  BY InitInv
<1>4. ASSUME NEW t \in Team, Running(t), ~UseGustavson
      PROVE  HandOK(t)
  <2>1. /\ probe[t] = 0 /\ phase = "scatter" /\ Typed /\ pos[t] = 1
    BY <1>3 DEF Init, LInv
  <2>2. /\ 1 \in DOMAIN ToScatter(t) /\ Hand(t) = ToScatter(t)[1] + 1
        /\ ToScatter(t)[1] \in Nat
    BY <1>4, <2>1, RunningScatters, ScatterIndex DEF Hand
  <2>3. \A s \in SlotIndices : Hf[s].h # Hand(t)
    BY <1>1, <2>2 DEF Empty, Entry
  <2>4. ASSUME NEW u \in Team, u # t, Running(u)
        PROVE  Hand(u) # Hand(t)
    <3>1. /\ 1 \in DOMAIN ToScatter(u) /\ Hand(u) = ToScatter(u)[1] + 1
          /\ ToScatter(u)[1] \in Nat
      BY <1>3, <1>4, <2>1, <2>4, RunningScatters, ScatterIndex DEF Init, Hand
    <3>2. ToScatter(u)[1] # ToScatter(t)[1]
      BY <2>1, <2>2, <2>4, <3>1, ScatterOnce
    <3> QED
      BY <2>2, <3>1, <3>2
  <2>5. ASSUME NEW u \in Team, Hand(t) \in Rest(u)
        PROVE  FALSE
    <3>1. PICK p \in DOMAIN ToScatter(u) : p > pos[u] /\ Hand(t) = ToScatter(u)[p] + 1
      BY <2>5 DEF Rest
    <3>2. ToScatter(u)[p] = ToScatter(t)[1]
      BY <2>1, <2>2, <3>1, ScatterIndex
    <3>3. t = u /\ p = 1
      BY <2>1, <2>2, <3>1, <3>2, ScatterOnce
    <3> QED
      BY <2>1, <3>1, <3>3
  <2> QED
    BY <2>1, <2>3, <2>4, <2>5 DEF HandOK
<1>5. ASSUME NEW t \in Team, NEW s \in SlotIndices, Hf[s].h \in Rest(t)
      PROVE  FALSE
  <2>1. PICK p \in DOMAIN ToScatter(t) : Hf[s].h = ToScatter(t)[p] + 1
    BY <1>5 DEF Rest
  <2>2. ToScatter(t)[p] \in Nat
    BY <1>3, <2>1, ScatterIndex DEF LInv
  <2> QED
    BY <1>1, <2>1, <2>2 DEF Empty, Entry
<1>6. ~UseGustavson => ScatterOK
  BY <1>1, <1>4, <1>5 DEF ScatterOK, InMask, Init
<1> QED
  BY <1>2, <1>6 DEF TInv, Init

LEMMA NextTable == LInv /\ TInv /\ [Next]_vars => TInv'
<1> SUFFICES ASSUME LInv, TInv, [Next]_vars
             PROVE  TInv'
  OBVIOUS
<1>1. CASE \E t \in Team : Task(t)
  <2>1. PICK t \in Team : Task(t)
    BY <1>1
  <2>2. UNCHANGED <<job, hsize, phase>>
    BY <2>1 DEF Task, SkipFalse, HashTask, HashScatter, HashSkip, HashFind, HashLock,
       HashUnlock, HashRestore, GusTask, GusScatter, GusFindAny, GusFlagAny, GusPutAny,
       GusFind, GusLock, GusUnlock, AccessHx, WriteHx, UpdateHx, StoreHx, FastUpdateHx,
       Count, Gather
  <2>3. CASE UseGustavson
    BY <2>2, <2>3 DEF TInv, UseGustavson
  <2>4. CASE ~UseGustavson
    <3>1. CASE SkipFalse(t)
      BY <2>4, <3>1, SkipFalseTable
    <3>2. CASE HashScatter(t)
      BY <3>2, HashScatterTable
    <3>3. CASE Count(t) \/ Gather(t)
      BY <3>3, LaterTable DEF Count, Gather
    <3>4. CASE /\ HashSkip(t) \/ HashFind(t) \/ HashLock(t) \/ HashUnlock(t)
                    \/ HashRestore(t) \/ AccessHx(t)
      <4>1. Hashing
        BY <2>4, <3>4 DEF Hashing, HashSkip, HashFind, HashLock, HashUnlock, HashRestore,
           AccessHx, WriteHx, UpdateHx, StoreHx, FastUpdateHx, At, InNumeric
      <4> QED
        BY <3>4, <4>1, HashSkipTable, HashFindTable, HashLockTable, HashUnlockTable,
           HashRestoreTable, AccessTable
    <3>5. ~GusTask(t)
      BY <2>4 DEF GusTask, GusScatter, GusFindAny, GusFlagAny, GusPutAny, GusFind, GusLock,
         GusUnlock, At, LInv, Labelled, NoLocks
    <3> QED
      BY <2>1, <3>1, <3>2, <3>3, <3>4, <3>5 DEF Task, HashTask
  <2> QED
    BY <2>3, <2>4
<1>2. CASE EndScatter
  <2>1. CASE UseGustavson
    BY <1>2, <2>1 DEF EndScatter, Barrier, TInv, UseGustavson
  <2> QED
    BY <1>2, <2>1, EndScatterTable
<1>3. CASE EndNumeric \/ Cumsum \/ EndGather
  BY <1>3, LaterTable DEF EndNumeric, Cumsum, EndGather, Barrier
<1>4. CASE UNCHANGED vars
  BY <1>4, StutterTable
<1> QED
  BY <1>1, <1>2, <1>3, <1>4 DEF Next, Master, Finished

\* In every reachable state of every team, product and table size, an index of
\* the mask is in one place, and a task is on the way of the index it looks for.
THEOREM TableInvariant == Spec => []TInv
BY LockInvariant, InitTable, NextTable, PTL DEF Spec

\* Linear probing of GB_AxB_saxpy3_fineHash* works: once the mask is in the table
\* no index is in it twice, and no empty entry is on the way to one, whichever
\* tasks claim entries at once.
THEOREM TableIsSound == Spec => []TableSound
<1>1. LInv /\ TInv => TableSound
  <2> SUFFICES ASSUME LInv, TInv, ~UseGustavson, NEW s \in SlotIndices, Hf[s].h # 0
               PROVE  /\ \A r \in SlotIndices : Hf[r].h = Hf[s].h => r = s
                      /\ \A r \in Path(Hf[s].h - 1, s) : Hf[r] # Empty
    BY DEF TableSound
  <2>1. /\ \A r \in SlotIndices : Hf[r].h = Hf[s].h => r = s
        /\ Used(Hf, hsize, Hf[s].h - 1, s)
    BY DEF TInv, TableOK, Found, SlotIndices
  <2>2. Path(Hf[s].h - 1, s) = Way(hsize, Hf[s].h - 1, s)
    BY DEF Path, Way, Stretch
  <2> QED
    BY <2>1, <2>2 DEF Used, Empty, Entry
<1> QED
  BY LockInvariant, TableInvariant, <1>1, PTL

-----------------------------------------------------------------------------
(* Partitions of a range *)

\* Where the share of task t of the range 0 .. n - 1 starts (GB_PARTITION)
Cut(n, t) == (t * n) \div TeamSize

LEMMA CutsInOrder ==
  ASSUME NEW n \in Nat, NEW t \in 0 .. TeamSize, NEW u \in 0 .. TeamSize, t <= u
  PROVE  Cut(n, t) \in 0 .. n /\ Cut(n, t) <= Cut(n, u)
<1>1. TeamSize \in Nat /\ TeamSize > 0 /\ t \in Nat /\ u \in Nat /\ u <= TeamSize
  BY TeamIsFinite
<1>2. \A a \in Nat, b \in Nat, c \in Nat : a <= b => a * c \in Nat /\ b * c \in Nat /\ a * c <= b * c
  OBVIOUS
<1>3. t * n \in Nat /\ u * n \in Nat /\ t * n <= u * n /\ t * n <= TeamSize * n
  BY <1>1, <1>2
<1>4. \A a \in Nat, b \in Nat : a <= b => a \div TeamSize <= b \div TeamSize
  BY <1>1
<1>5. \A a \in Nat : a \div TeamSize \in Nat /\ (a <= TeamSize * n => a \div TeamSize <= n)
  BY <1>1
<1> QED
  BY <1>3, <1>4, <1>5 DEF Cut

LEMMA CutEnds ==
  ASSUME NEW n \in Nat
  PROVE  Cut(n, 0) = 0 /\ Cut(n, TeamSize) = n
<1>1. TeamSize \in Nat /\ TeamSize > 0 /\ 0 * n = 0
  BY TeamIsFinite
<1>2. (TeamSize * n) \div TeamSize = n
  BY <1>1
<1>3. 0 \div TeamSize = 0
  BY <1>1
<1> QED
  BY <1>1, <1>2, <1>3 DEF Cut

\* The shares of a team cover the range.
LEMMA SharesCover ==
  ASSUME NEW n \in Nat, NEW k \in 0 .. TeamSize, NEW s \in 0 .. Cut(n, k) - 1
  PROVE  \E t \in Team : t < k /\ Cut(n, t) <= s /\ s < Cut(n, t + 1)
<1> DEFINE X == (s + 1) * TeamSize - 1
           t == X \div n
<1>1. /\ TeamSize \in Nat /\ TeamSize > 0 /\ k \in Nat /\ k <= TeamSize /\ s \in Nat
      /\ Cut(n, k) \in 0 .. n /\ s < Cut(n, k)
  BY TeamIsFinite, CutsInOrder
<1>2. n \in Nat /\ n > 0
  BY <1>1
<1>3. \A a \in Nat, b \in Nat : a * b \in Nat
  OBVIOUS
<1>4. X \in Nat
  <2>1. \A a \in Nat : (a + 1) * TeamSize = a * TeamSize + TeamSize
    BY <1>1
  <2> QED
    BY <1>1, <1>3, <2>1
<1>5. t \in Nat /\ t * n <= X /\ X < (t + 1) * n /\ (t + 1) * n \in Nat /\ t * n \in Nat
  <2>1. \A a \in Nat : /\ a \div n \in Nat
                       /\ (a \div n) * n <= a /\ a < (a \div n + 1) * n
    BY <1>2
  <2> QED
    BY <1>2, <1>3, <1>4, <2>1
<1> HIDE DEF t
<1>6. \A a \in Nat, b \in Nat : /\ a <= b * TeamSize + TeamSize - 1 => a \div TeamSize <= b
                                /\ b * TeamSize + TeamSize <= a => b < a \div TeamSize
                                /\ b < a \div TeamSize => b * TeamSize + TeamSize <= a
  BY <1>1
<1>7. X = s * TeamSize + TeamSize - 1 /\ s * TeamSize \in Nat
  BY <1>1, <1>3
<1> HIDE DEF X
<1>8. Cut(n, t) <= s /\ s < Cut(n, t + 1)
  BY <1>1, <1>5, <1>6, <1>7 DEF Cut
<1>9. s * TeamSize + TeamSize <= k * n
  BY <1>1, <1>3, <1>6 DEF Cut
<1>10. t < k
  <2>1. SUFFICES ASSUME k <= t PROVE FALSE
    BY <1>1, <1>5
  <2>2. \A a \in Nat, b \in Nat : a <= b => a * n <= b * n
    BY <1>2
  <2>3. k * n <= t * n /\ k * n \in Nat
    BY <1>1, <1>3, <1>5, <2>1, <2>2
  <2> QED
    BY <1>1, <1>5, <1>7, <1>9, <2>3
<1> QED
  BY <1>1, <1>5, <1>8, <1>10 DEF Team

\* The shares of two tasks do not overlap.
LEMMA SharesDisjoint ==
  ASSUME NEW n \in Nat, NEW t \in Team, NEW u \in Team, NEW s \in Nat,
         s < Cut(n, t + 1), Cut(n, u) <= s
  PROVE  u <= t
<1>1. SUFFICES ASSUME u > t PROVE FALSE
  BY TeamIsFinite
<1>2. t + 1 \in 0 .. TeamSize /\ u \in 0 .. TeamSize /\ t + 1 <= u
  BY <1>1, TeamIsFinite DEF Team
<1>3. Cut(n, t + 1) <= Cut(n, u) /\ Cut(n, t + 1) \in Nat /\ Cut(n, u) \in Nat
  BY <1>2, CutsInOrder
<1> QED
  BY <1>3

-----------------------------------------------------------------------------
(* Counting the entries *)

\* The entries of C(:,j) in the first k slots
Below(k) == {s \in SlotIndices : Hf[s].f = 2 /\ s < k}

\* Where the entry of slot s will be in C(:,j)
Rank(s) == Cardinality(Below(s))

LEMMA BelowFinite ==
  ASSUME Typed, NEW k
  PROVE  /\ Below(k) \subseteq Nat /\ IsFiniteSet(Below(k)) /\ Cardinality(Below(k)) \in Nat
         /\ \A S \in SUBSET Below(k) : /\ IsFiniteSet(S) /\ Cardinality(S) \in Nat
                                        /\ Cardinality(S) <= Cardinality(Below(k))
<1>1. hsize \in Nat /\ hsize - 1 \in Int
  BY SizeOfTable
<1>2. IsFiniteSet(SlotIndices) /\ SlotIndices \subseteq Nat
  BY <1>1, FS_Interval DEF SlotIndices
<1>3. Below(k) \in SUBSET SlotIndices
  BY DEF Below
<1>4. IsFiniteSet(Below(k))
  BY <1>2, <1>3, FS_Subset
<1> QED
  BY <1>2, <1>3, <1>4, FS_Subset, FS_CardinalityType

LEMMA MyEntriesAre ==
  ASSUME Typed, NEW t \in Team
  PROVE  /\ MyEntries(t) = Below(Cut(hsize, t + 1)) \ Below(Cut(hsize, t))
         /\ MyEntries(t) = {s \in SlotIndices : /\ Hf[s].f = 2
                                                 /\ Cut(hsize, t) <= s /\ s < Cut(hsize, t + 1)}
         /\ Below(Cut(hsize, t)) \subseteq Below(Cut(hsize, t + 1))
<1>1. hsize \in Nat /\ t \in 0 .. TeamSize /\ t + 1 \in 0 .. TeamSize
  BY SizeOfTable, TeamIsFinite DEF Team
<1>2. /\ Cut(hsize, t) \in 0 .. hsize /\ Cut(hsize, t + 1) \in 0 .. hsize
      /\ Cut(hsize, t) <= Cut(hsize, t + 1)
  BY <1>1, CutsInOrder, TeamIsFinite
<1>3. Share(hsize, t) = Cut(hsize, t) .. Cut(hsize, t + 1) - 1
  BY DEF Share, Cut
<1>4. SlotIndices = 0 .. hsize - 1
  BY DEF SlotIndices
<1>5. \A s : s \in Share(hsize, t) <=>
             s \in SlotIndices /\ Cut(hsize, t) <= s /\ s < Cut(hsize, t + 1)
  BY <1>1, <1>2, <1>3, <1>4
<1>6. MyEntries(t) = {s \in SlotIndices : /\ Hf[s].f = 2
                                          /\ Cut(hsize, t) <= s /\ s < Cut(hsize, t + 1)}
  BY <1>5 DEF MyEntries
<1>7. \A s \in SlotIndices : s \in Int
  BY <1>1, <1>4
<1> QED
  BY <1>2, <1>6, <1>7 DEF Below

\* Before adds up what the tasks before t have counted.
LEMMA BeforeCounts ==
  ASSUME Typed, \A u \in Team : my_cjnz[u] = Cardinality(MyEntries(u)), NEW t \in Team
  PROVE  Before(t) = Cardinality(Below(Cut(hsize, t)))
<1> DEFINE U == 0 .. t - 1
           E(A) == UNION {MyEntries(u) : u \in A}
           pick(A) == CHOOSE x \in A : TRUE
           IsTotal(G) == G = [A \in SUBSET U |->
                             IF A = {} THEN 0
                             ELSE my_cjnz[CHOOSE x \in A : TRUE] + G[A \ {CHOOSE x \in A : TRUE}]]
           F == [A \in SUBSET U |-> Cardinality(E(A))]
<1>1. Before(t) = (CHOOSE G : IsTotal(G))[U]
  BY DEF Before, MapThenSumSet, MapThenFoldSet
<1>2. t \in Nat /\ U \subseteq Team /\ U \subseteq Nat /\ IsFiniteSet(U) /\ hsize \in Nat
  BY TeamIsFinite, FS_Interval, SizeOfTable DEF Team
<1>3. \A u \in Team : MyEntries(u) \subseteq Below(hsize)
  <2> SUFFICES ASSUME NEW u \in Team PROVE MyEntries(u) \subseteq Below(hsize)
    OBVIOUS
  <2>1. \A s \in SlotIndices : s < hsize
    BY <1>2 DEF SlotIndices
  <2> QED
    BY <2>1, MyEntriesAre DEF Below
<1>4. \A A \in SUBSET U : E(A) \subseteq Below(hsize) /\ IsFiniteSet(E(A)) /\ Cardinality(E(A)) \in Nat
  <2> SUFFICES ASSUME NEW A \in SUBSET U
               PROVE E(A) \subseteq Below(hsize) /\ IsFiniteSet(E(A)) /\ Cardinality(E(A)) \in Nat
    OBVIOUS
  <2>1. E(A) \subseteq Below(hsize)
    BY <1>2, <1>3
  <2> QED
    BY <2>1, BelowFinite
<1>5. \A u \in U, v \in U : u # v => MyEntries(u) \cap MyEntries(v) = {}
  <2> SUFFICES ASSUME NEW u \in U, NEW v \in U, u # v,
                      NEW s \in MyEntries(u), s \in MyEntries(v)
               PROVE  FALSE
    OBVIOUS
  <2>1. /\ u \in Team /\ v \in Team /\ s \in Nat
        /\ Cut(hsize, u) <= s /\ s < Cut(hsize, u + 1)
        /\ Cut(hsize, v) <= s /\ s < Cut(hsize, v + 1)
    BY <1>2, MyEntriesAre DEF SlotIndices
  <2>2. u <= v /\ v <= u
    BY <1>2, <2>1, SharesDisjoint
  <2> QED
    BY <1>2, <2>2
<1>6. ASSUME NEW A \in SUBSET U, A # {}, NEW x \in A
      PROVE  Cardinality(E(A)) = my_cjnz[x] + Cardinality(E(A \ {x}))
  <2> DEFINE B == E(A \ {x})
             M == MyEntries(x)
  <2>1. E(A) = M \cup B
    BY <1>6
  <2>2. M \cap B = {}
    BY <1>5, <1>6
  <2>3. A \ {x} \in SUBSET U /\ x \in U
    BY <1>6
  <2>4. IsFiniteSet(B) /\ Cardinality(B) \in Nat
    BY <1>4, <2>3
  <2>5. IsFiniteSet(M) /\ Cardinality(M) \in Nat /\ my_cjnz[x] = Cardinality(M)
    BY <1>2, <1>3, <2>3, BelowFinite
  <2> HIDE DEF B, M, E
  <2>6. Cardinality(M \cup B) = Cardinality(M) + Cardinality(B) - Cardinality({})
    BY <2>2, <2>4, <2>5, FS_Union
  <2>7. Cardinality({}) = 0
    BY FS_EmptySet
  <2> QED
    BY <2>1, <2>4, <2>5, <2>6, <2>7 DEF B
<1>7. Cardinality(E({})) = 0
  <2>1. E({}) = {}
    OBVIOUS
  <2> QED
    BY <2>1, FS_EmptySet
<1> HIDE DEF E
<1>8. IsTotal(F)
  <2>1. ASSUME NEW A \in SUBSET U
        PROVE  F[A] = IF A = {} THEN 0
                      ELSE my_cjnz[CHOOSE x \in A : TRUE] + F[A \ {CHOOSE x \in A : TRUE}]
    <3>1. CASE A = {}
      BY <1>7, <3>1
    <3>2. CASE A # {}
      <4> DEFINE x == CHOOSE x \in A : TRUE
      <4>1. x \in A
        BY <3>2
      <4> HIDE DEF x
      <4>2. A \ {x} \in SUBSET U
        OBVIOUS
      <4>3. F[A] = my_cjnz[x] + F[A \ {x}]
        BY <1>6, <3>2, <4>1, <4>2
      <4> QED
        BY <3>2, <4>3 DEF x
    <3> QED
      BY <3>1, <3>2
  <2>2. F = [A \in SUBSET U |-> F[A]]
    OBVIOUS
  <2> HIDE DEF F
  <2>3. [A \in SUBSET U |-> F[A]] =
          [A \in SUBSET U |-> IF A = {} THEN 0
             ELSE my_cjnz[CHOOSE x \in A : TRUE] + F[A \ {CHOOSE x \in A : TRUE}]]
    BY <2>1
  <2> QED
    BY <2>2, <2>3
<1>9. \A G : IsTotal(G) => G[U] = F[U]
  <2> SUFFICES ASSUME NEW G, IsTotal(G), G[U] # F[U] PROVE FALSE
    OBVIOUS
  <2> DEFINE R == StrictSubsetOrdering(U)
             bad == {A \in SUBSET U : G[A] # F[A]}
  <2>1. bad \subseteq FiniteSubsetsOf(U) /\ bad # {}
    BY <1>2, FS_Subset DEF FiniteSubsetsOf
  <2>2. PICK A \in bad : \A B \in bad : <<B, A>> \notin R
    <3>1. IsWellFoundedOn(R, FiniteSubsetsOf(U))
      BY FS_StrictSubsetOrderingWellFounded
    <3> HIDE DEF R, bad, IsTotal
    <3>2. \E A \in bad : \A B \in bad : <<B, A>> \notin R
      BY <2>1, <3>1, WFMin
    <3> QED
      BY <3>2
  <2>3. A \in SUBSET U /\ G[A] # F[A]
    BY <2>2
  <2> DEFINE x == CHOOSE x \in A : TRUE
  <2>4. \A H : IsTotal(H) => H[A] = IF A = {} THEN 0 ELSE my_cjnz[x] + H[A \ {x}]
    <3> SUFFICES ASSUME NEW H, IsTotal(H)
                 PROVE  H[A] = IF A = {} THEN 0 ELSE my_cjnz[x] + H[A \ {x}]
      OBVIOUS
    <3> DEFINE K == [D \in SUBSET U |->
                       IF D = {} THEN 0
                       ELSE my_cjnz[CHOOSE z \in D : TRUE] + H[D \ {CHOOSE z \in D : TRUE}]]
    <3>1. H = K
      OBVIOUS
    <3>2. K[A] = IF A = {} THEN 0 ELSE my_cjnz[x] + H[A \ {x}]
      BY <2>3
    <3> HIDE DEF K
    <3> QED
      BY <3>1, <3>2
  <2> HIDE DEF IsTotal
  <2>5. A # {} /\ G[A \ {x}] # F[A \ {x}]
    BY <1>8, <2>3, <2>4
  <2>6. A \ {x} \in bad /\ x \in A
    BY <2>3, <2>5
  <2>7. <<A \ {x}, A>> \in R
    <3> DEFINE D == A \ {x}
    <3>1. D \subseteq A /\ D # A /\ D \in SUBSET U
      BY <2>3, <2>6
    <3> HIDE DEF D
    <3>2. <<D, A>> \in R
      BY <2>3, <3>1 DEF StrictSubsetOrdering
    <3> QED
      BY <3>2 DEF D
  <2> QED
    BY <2>2, <2>6, <2>7
<1>10. Before(t) = Cardinality(E(U))
  <2> HIDE DEF IsTotal
  <2>1. IsTotal(CHOOSE G : IsTotal(G))
    BY <1>8
  <2> QED
    BY <1>1, <1>9, <2>1 DEF F
<1>11. E(U) = Below(Cut(hsize, t))
  <2>1. ASSUME NEW s \in E(U) PROVE s \in Below(Cut(hsize, t))
    <3>1. PICK u \in U : s \in MyEntries(u)
      BY <2>1 DEF E
    <3>2. s \in SlotIndices /\ Hf[s].f = 2 /\ s < Cut(hsize, u + 1) /\ s \in Nat
      BY <1>2, <3>1, MyEntriesAre DEF SlotIndices
    <3>3. u + 1 \in 0 .. TeamSize /\ t \in 0 .. TeamSize /\ u + 1 <= t
      BY <1>2, TeamIsFinite DEF Team
    <3>4. Cut(hsize, u + 1) <= Cut(hsize, t) /\ Cut(hsize, u + 1) \in Nat /\ Cut(hsize, t) \in Nat
      BY <1>2, <3>3, CutsInOrder
    <3> QED
      BY <3>2, <3>4 DEF Below
  <2>2. ASSUME NEW s \in Below(Cut(hsize, t)) PROVE s \in E(U)
    <3>1. s \in SlotIndices /\ Hf[s].f = 2 /\ s \in Nat /\ s < Cut(hsize, t)
      BY <1>2 DEF Below, SlotIndices
    <3>2. t \in 0 .. TeamSize /\ Cut(hsize, t) \in Nat
      BY <1>2, TeamIsFinite, CutsInOrder DEF Team
    <3>3. PICK u \in Team : u < t /\ Cut(hsize, u) <= s /\ s < Cut(hsize, u + 1)
      BY <1>2, <3>1, <3>2, SharesCover
    <3>4. s \in MyEntries(u)
      BY <3>1, <3>3, MyEntriesAre
    <3>5. u \in U
      BY <1>2, <3>3, TeamIsFinite
    <3> QED
      BY <3>4, <3>5 DEF E
  <2> QED
    BY <2>1, <2>2
<1> QED
  BY <1>10, <1>11

\* A later entry has a higher rank.
LEMMA RankLess ==
  ASSUME Typed, NEW k, NEW s \in Below(k), NEW r \in Below(k), s < r
  PROVE  Rank(s) < Rank(r)
<1>1. s \in Nat /\ r \in Nat /\ s \in SlotIndices /\ Hf[s].f = 2
  BY BelowFinite DEF Below
<1>2. Below(s) \subseteq Below(r) /\ s \in Below(r) /\ s \notin Below(s)
  <2>1. \A x \in SlotIndices : x \in Nat
    BY SizeOfTable DEF SlotIndices
  <2>2. \A x \in Below(s) : x \in Below(r)
    BY <1>1, <2>1 DEF Below
  <2>3. s \in Below(r) /\ s \notin Below(s)
    BY <1>1 DEF Below
  <2> QED
    BY <2>2, <2>3
<1>3. /\ IsFiniteSet(Below(r)) /\ Cardinality(Below(r)) \in Nat
      /\ Cardinality(Below(s)) \in Nat
  BY BelowFinite
<1>4. /\ Cardinality(Below(s)) <= Cardinality(Below(r))
      /\ Cardinality(Below(r)) = Cardinality(Below(s)) => Below(r) = Below(s)
  BY <1>2, <1>3, FS_Subset
<1> QED
  BY <1>2, <1>3, <1>4 DEF Rank

\* The ranks are the numbers below the size, each once.
LEMMA RanksFill ==
  ASSUME Typed, NEW k \in Nat
  PROVE  /\ {Rank(s) : s \in Below(k)} = 0 .. Cardinality(Below(k)) - 1
         /\ \A s \in Below(k), r \in Below(k) : Rank(s) = Rank(r) => s = r
<1> DEFINE S == Below(k)
           n == Cardinality(S)
           f == [s \in S |-> Rank(s)]
<1>1. IsFiniteSet(S) /\ n \in Nat /\ S \subseteq Nat
  BY BelowFinite
<1>2. ASSUME NEW s \in S
      PROVE  Rank(s) \in 0 .. n - 1
  <2>1. Below(s) \subseteq S \ {s}
    <3>1. \A x \in SlotIndices : x \in Nat
      BY SizeOfTable DEF SlotIndices
    <3>2. s < k /\ s \in Nat
      BY <1>1 DEF Below
    <3>3. ASSUME NEW x \in Below(s) PROVE x \in S \ {s}
      BY <3>1, <3>2, <3>3 DEF Below
    <3> QED
      BY <3>3
  <2>2. IsFiniteSet(S \ {s}) /\ Cardinality(S \ {s}) = n - 1
    BY <1>1, FS_RemoveElement
  <2>3. Cardinality(Below(s)) <= n - 1 /\ Cardinality(Below(s)) \in Nat
    BY <2>1, <2>2, FS_Subset, BelowFinite
  <2> QED
    BY <1>1, <2>3 DEF Rank
<1>3. ASSUME NEW s \in S, NEW r \in S, Rank(s) = Rank(r)
      PROVE  s = r
  <2>1. Rank(s) \in Int /\ s \in Nat /\ r \in Nat
    BY <1>1, <1>2
  <2> QED
    BY <1>3, <2>1, RankLess
<1>4. f \in Injection(S, 0 .. n - 1)
  <2>1. f \in [S -> 0 .. n - 1]
    BY <1>2
  <2> QED
    BY <1>3, <2>1 DEF Injection, IsInjective
<1>5. IsFiniteSet(0 .. n - 1) /\ Cardinality(0 .. n - 1) = n
  <2>1. n - 1 \in Int /\ 0 \in Int
    BY <1>1
  <2> HIDE DEF n
  <2>2. IsFiniteSet(0 .. n - 1)
        /\ Cardinality(0 .. n - 1) = IF 0 > n - 1 THEN 0 ELSE (n - 1) - 0 + 1
    BY <2>1, FS_Interval
  <2> QED
    BY <1>1, <2>2
<1>6. f \in Surjection(S, 0 .. n - 1)
  BY <1>4, <1>5, FS_Injection
<1>7. \A p \in 0 .. n - 1 : \E s \in S : Rank(s) = p
  BY <1>6 DEF Surjection
<1> QED
  BY <1>2, <1>3, <1>7

\* A task knows the rank of each of its entries.
LEMMA PlaceIsRank ==
  ASSUME Typed, NEW t \in Team, NEW n, n = Cardinality(Below(Cut(hsize, t))),
         NEW s \in MyEntries(t)
  PROVE  n + Cardinality({r \in MyEntries(t) : r < s}) = Rank(s)
<1> DEFINE A == Below(Cut(hsize, t))
           B == {r \in MyEntries(t) : r < s}
<1>1. /\ hsize \in Nat /\ t \in 0 .. TeamSize /\ t + 1 \in 0 .. TeamSize
      /\ Cut(hsize, t) \in Nat /\ Cut(hsize, t + 1) \in Nat
  BY SizeOfTable, TeamIsFinite, CutsInOrder DEF Team
<1>2. \A x \in SlotIndices : x \in Nat
  BY <1>1 DEF SlotIndices
<1>3. s \in SlotIndices /\ Cut(hsize, t) <= s /\ s < Cut(hsize, t + 1)
  BY MyEntriesAre
<1>4. \A x : x \in B <=> /\ x \in SlotIndices /\ Hf[x].f = 2
                         /\ Cut(hsize, t) <= x /\ x < Cut(hsize, t + 1) /\ x < s
  BY MyEntriesAre
<1>5. Below(s) = A \cup B
  BY <1>1, <1>2, <1>3, <1>4 DEF Below
<1>6. A \cap B = {}
  BY <1>1, <1>2, <1>4 DEF Below
<1>7. /\ IsFiniteSet(A) /\ Cardinality(A) \in Nat
  BY BelowFinite
<1>8. IsFiniteSet(B) /\ Cardinality(B) \in Nat
  <2>1. B \in SUBSET Below(s)
    BY <1>5
  <2> QED
    BY <2>1, BelowFinite
<1> HIDE DEF A, B
<1>9. Cardinality(A \cup B) = Cardinality(A) + Cardinality(B) - Cardinality({})
  BY <1>6, <1>7, <1>8, FS_Union
<1>10. Cardinality({}) = 0
  BY FS_EmptySet
<1> QED
  BY <1>5, <1>7, <1>8, <1>9, <1>10 DEF Rank, A, B

-----------------------------------------------------------------------------
(* Counting and gathering *)

\* The entries that have been copied to C(:,j)
Gathered ==
  IF phase = "done" THEN Below(hsize)
  ELSE UNION {MyEntries(t) : t \in {t \in Team : ~Running(t)}}

CountOK == \A t \in Team : ~Running(t) => my_cjnz[t] = Cardinality(MyEntries(t))

GatherOK ==
  /\ \A t \in Team : my_cjnz[t] = Cardinality(Below(Cut(hsize, t)))
  /\ DOMAIN C = {Rank(s) : s \in Gathered}
  /\ \A s \in Gathered : C[Rank(s)] = [i |-> RowAt(s), x |-> Hx[s]]

CInv ==
  /\ my_cjnz \in [Team -> Nat]
  /\ phase \in {"scatter", "numeric", "count"} => C = << >>
  /\ phase = "count" => CountOK
  /\ phase \in {"gather", "done"} => GatherOK

\* What is counted and copied does not change.
LEMMA LaterSame ==
  ASSUME UNCHANGED <<job, hsize, Hf, Hx>>
  PROVE  /\ \A k : Below(k)' = Below(k)
         /\ \A s : Rank(s)' = Rank(s) /\ RowAt(s)' = RowAt(s)
         /\ \A t : MyEntries(t)' = MyEntries(t)
         /\ \A t : Cut(hsize, t)' = Cut(hsize, t)
  BY DEF Below, Rank, RowAt, MyEntries, SlotIndices, Share, UseGustavson, Cut

\* The entries of all tasks.
LEMMA AllEntries ==
  ASSUME Typed
  PROVE  UNION {MyEntries(t) : t \in Team} = Below(hsize)
<1>1. hsize \in Nat /\ TeamSize \in 0 .. TeamSize /\ Cut(hsize, TeamSize) = hsize
  BY SizeOfTable, TeamIsFinite, CutEnds
<1>2. ASSUME NEW s \in Below(hsize)
      PROVE  \E t \in Team : s \in MyEntries(t)
  <2>1. s \in SlotIndices /\ Hf[s].f = 2 /\ s \in 0 .. hsize - 1
    BY DEF Below, SlotIndices
  <2>2. PICK t \in Team : Cut(hsize, t) <= s /\ s < Cut(hsize, t + 1)
    BY <1>1, <2>1, SharesCover
  <2> QED
    BY <2>1, <2>2, MyEntriesAre
<1>3. ASSUME NEW t \in Team, NEW s \in MyEntries(t)
      PROVE  s \in Below(hsize)
  BY <1>1, MyEntriesAre DEF Below, SlotIndices
<1> QED
  BY <1>2, <1>3

LEMMA CountStep ==
  ASSUME Typed, CInv, NEW t \in Team, Count(t)
  PROVE  CInv'
<1>1. /\ phase = "count" /\ phase' = "count" /\ C' = C /\ UNCHANGED <<job, hsize, Hf, Hx>>
      /\ my_cjnz' = [my_cjnz EXCEPT ![t] = Cardinality(MyEntries(t))]
      /\ pos' = [pos EXCEPT ![t] = @ + 1]
  BY DEF Count, Advance
<1>2. Cardinality(MyEntries(t)) \in Nat
  BY MyEntriesAre, BelowFinite
<1>3. \A u \in Team : u # t => (Running(u)' <=> Running(u))
  BY <1>1 DEF Typed, Running, Trips
<1>4. \A u \in Team : MyEntries(u)' = MyEntries(u)
  BY <1>1, LaterSame
<1>5. CountOK'
  BY <1>1, <1>3, <1>4 DEF CInv, CountOK
<1> QED
  BY <1>1, <1>2, <1>5 DEF CInv

LEMMA CumsumStep ==
  ASSUME Typed, CInv, Cumsum
  PROVE  CInv'
<1>1. /\ phase = "count" /\ phase' = "gather" /\ C' = C /\ UNCHANGED <<job, hsize, Hf, Hx>>
      /\ my_cjnz' = [t \in Team |-> Before(t)] /\ pos' = [t \in Team |-> 1]
      /\ \A t \in Team : ~Running(t)
  BY DEF Cumsum, Barrier
<1>2. \A t \in Team : Before(t) = Cardinality(Below(Cut(hsize, t))) /\ Before(t) \in Nat
  BY <1>1, BeforeCounts, BelowFinite DEF CInv, CountOK
<1>3. \A t \in Team : my_cjnz'[t] = Cardinality(Below(Cut(hsize, t)))'
  BY <1>1, <1>2, LaterSame
<1>4. Gathered' = {}
  BY <1>1 DEF Gathered, Running, Trips
<1>5. DOMAIN C' = {}
  BY <1>1 DEF CInv
<1> QED
  BY <1>1, <1>2, <1>3, <1>4, <1>5 DEF CInv, GatherOK

LEMMA GatherStep ==
  ASSUME Typed, CInv, NEW t \in Team, Gather(t)
  PROVE  CInv'
<1> DEFINE mine == MyEntries(t)
           Place(s) == my_cjnz[t] + Cardinality({r \in mine : r < s})
           places == {Place(s) : s \in mine}
           entry(p) == LET s == CHOOSE s \in mine : Place(s) = p
                       IN  [i |-> RowAt(s), x |-> Hx[s]]
           value(s) == [i |-> RowAt(s), x |-> Hx[s]]
<1>1. /\ phase = "gather" /\ phase' = "gather" /\ UNCHANGED <<job, hsize, Hf, Hx, my_cjnz>>
      /\ pos' = [pos EXCEPT ![t] = @ + 1]
      /\ C' = [p \in DOMAIN C \cup places |-> IF p \in places THEN entry(p) ELSE C[p]]
      /\ Running(t)
  BY DEF Gather, Advance
<1>2. /\ my_cjnz \in [Team -> Nat]
      /\ \A u \in Team : my_cjnz[u] = Cardinality(Below(Cut(hsize, u)))
      /\ DOMAIN C = {Rank(s) : s \in Gathered}
      /\ \A s \in Gathered : C[Rank(s)] = value(s)
  BY <1>1 DEF CInv, GatherOK
<1>3. \A s \in mine : Place(s) = Rank(s)
  BY <1>2, PlaceIsRank
<1>4. mine \subseteq Below(hsize) /\ Gathered \subseteq Below(hsize)
  BY <1>1, AllEntries DEF Gathered
<1>5. \A s \in Below(hsize), r \in Below(hsize) : Rank(s) = Rank(r) => s = r
  BY RanksFill, SizeOfTable
<1>6. places = {Rank(s) : s \in mine}
  BY <1>3
<1>7. ASSUME NEW s \in mine
      PROVE  entry(Rank(s)) = value(s)
  <2> DEFINE r == CHOOSE r \in mine : Place(r) = Rank(s)
  <2>1. r \in mine /\ Place(r) = Rank(s)
    BY <1>3, <1>7
  <2>2. r = s
    BY <1>3, <1>4, <1>5, <2>1
  <2> QED
    BY <2>2
<1> HIDE DEF mine, Place, places, entry, value
<1>8. Gathered' = Gathered \cup mine
  <2>1. \A u \in Team : u # t => (Running(u)' <=> Running(u))
    BY <1>1 DEF Typed, Running, Trips
  <2>2. ~Running(t)'
    <3>1. pos'[t] = pos[t] + 1 /\ pos[t] \in Nat \ {0}
      BY <1>1 DEF Typed
    <3> QED
      BY <1>1, <3>1 DEF Running, Trips
  <2>3. \A u \in Team : MyEntries(u)' = MyEntries(u)
    BY <1>1, LaterSame
  <2> QED
    BY <1>1, <2>1, <2>2, <2>3 DEF Gathered, mine
<1>9. \A s : Rank(s)' = Rank(s) /\ RowAt(s)' = RowAt(s) /\ Hx'[s] = Hx[s]
  BY <1>1, LaterSame
<1>10. DOMAIN C' = {Rank(s) : s \in Gathered \cup mine}
  BY <1>1, <1>2, <1>6
<1>11. ASSUME NEW s \in Gathered \cup mine
       PROVE  C'[Rank(s)] = value(s)
  <2>1. Rank(s) \in DOMAIN C \cup places
    BY <1>2, <1>6
  <2>2. CASE s \in mine
    BY <1>1, <1>6, <1>7, <2>1, <2>2
  <2>3. CASE s \notin mine
    <3>1. Rank(s) \notin places
      BY <1>4, <1>5, <1>6, <2>3
    <3> QED
      BY <1>1, <1>2, <2>1, <2>3, <3>1
  <2> QED
    BY <2>2, <2>3
<1>12. \A u \in Team : my_cjnz'[u] = Cardinality(Below(Cut(hsize, u)))'
  BY <1>1, <1>2, LaterSame
<1>13. GatherOK'
  <2>1. DOMAIN C' = {Rank(s)' : s \in Gathered'}
    BY <1>8, <1>9, <1>10
  <2>2. \A s \in Gathered' : C'[Rank(s)'] = [i |-> RowAt(s)', x |-> Hx'[s]]
    BY <1>8, <1>9, <1>11 DEF value
  <2> QED
    BY <1>12, <2>1, <2>2 DEF GatherOK
<1> QED
  BY <1>1, <1>2, <1>13 DEF CInv

LEMMA EndGatherStep ==
  ASSUME Typed, CInv, EndGather
  PROVE  CInv'
<1>1. /\ phase = "gather" /\ phase' = "done" /\ UNCHANGED <<job, hsize, Hf, Hx, my_cjnz, C>>
      /\ \A t \in Team : ~Running(t)
  BY DEF EndGather, Barrier
<1>2. Gathered = Below(hsize)
  BY <1>1, AllEntries DEF Gathered
<1>3. Gathered' = Gathered
  BY <1>1, <1>2, LaterSame DEF Gathered
<1>4. \A s : Rank(s)' = Rank(s) /\ RowAt(s)' = RowAt(s)
  BY <1>1, LaterSame
<1>5. \A u \in Team : Cardinality(Below(Cut(hsize, u)))' = Cardinality(Below(Cut(hsize, u)))
  BY <1>1, LaterSame
<1>6. GatherOK
  BY <1>1 DEF CInv
<1>7. GatherOK'
  BY <1>1, <1>3, <1>4, <1>5, <1>6 DEF GatherOK
<1> QED
  BY <1>1, <1>7 DEF CInv

LEMMA NextCount == Typed /\ CInv /\ [Next]_vars => CInv'
<1> SUFFICES ASSUME Typed, CInv, [Next]_vars
             PROVE  CInv'
  OBVIOUS
<1>1. CASE \E t \in Team : Task(t) /\ ~Count(t) /\ ~Gather(t)
  <2>1. PICK t \in Team : Task(t) /\ ~Count(t) /\ ~Gather(t)
    BY <1>1
  <2>2. phase \in {"scatter", "numeric"} /\ UNCHANGED <<phase, my_cjnz, C>>
    BY <2>1 DEF Task, SkipFalse, HashTask, HashScatter, HashSkip, HashFind, HashLock,
       HashUnlock, HashRestore, GusTask, GusScatter, GusFindAny, GusFlagAny, GusPutAny,
       GusFind, GusLock, GusUnlock, AccessHx, WriteHx, UpdateHx, StoreHx, FastUpdateHx,
       At, InNumeric
  <2> QED
    BY <2>2 DEF CInv
<1>2. CASE \E t \in Team : Count(t) \/ Gather(t)
  BY <1>2, CountStep, GatherStep
<1>3. CASE EndScatter \/ EndNumeric
  <2>1. /\ phase \in {"scatter", "numeric"} /\ phase' \in {"numeric", "count"}
        /\ UNCHANGED <<my_cjnz, C>> /\ pos' = [t \in Team |-> 1]
    BY <1>3 DEF EndScatter, EndNumeric, Barrier
  <2>2. phase' = "count" => CountOK'
    BY <2>1 DEF CountOK, Running, Trips
  <2> QED
    BY <2>1, <2>2 DEF CInv
<1>4. CASE UNCHANGED vars
  <2>1. /\ UNCHANGED <<job, hsize, phase, pos, Hf, Hx, my_cjnz, C>>
    BY <1>4 DEF vars
  <2>2. \A t \in Team : (Running(t)' <=> Running(t)) /\ MyEntries(t)' = MyEntries(t)
    BY <2>1, LaterSame DEF Running, Trips, ToScatter, UseGustavson
  <2>3. Gathered' = Gathered
    BY <2>1, <2>2, LaterSame DEF Gathered
  <2>4. \A s : Rank(s)' = Rank(s) /\ RowAt(s)' = RowAt(s)
    BY <2>1, LaterSame
  <2>5. \A u \in Team : Cardinality(Below(Cut(hsize, u)))' = Cardinality(Below(Cut(hsize, u)))
    BY <2>1, LaterSame
  <2>6. CountOK => CountOK'
    BY <2>1, <2>2 DEF CountOK
  <2>7. GatherOK => GatherOK'
    BY <2>1, <2>3, <2>4, <2>5 DEF GatherOK
  <2> QED
    BY <2>1, <2>6, <2>7 DEF CInv
<1> QED
  BY <1>1, <1>2, <1>3, <1>4, CumsumStep, EndGatherStep DEF Next, Master, Finished

LEMMA InitCount == Init => CInv
  BY DEF Init, CInv

-----------------------------------------------------------------------------
(* The place of a row in the workspace *)

\* C(i,j) is in slot s: it is marked so, or a task that has the lock knows it
Holder(t, s) ==
  InNumeric(t) /\ Slot(t) = s /\ pc[t] \in {"update", "store", "unlock", "restore"}
RowHeld(t)   == IF pc[t] = "restore" THEN hf[t].h - 1 ELSE Index(t)
Holds(s, i)  == \/ Hf[s].f = 2 /\ RowAt(s) = i
                \/ \E t \in Team : Holder(t, s) /\ RowHeld(t) = i

\* C(i,j) is in slot s, or will be
IsPlace(s, i) ==
  IF UseGustavson THEN s = i
  ELSE \/ Hf[s].h = i + 1
       \/ \E t \in Team : Owns(t) /\ pc[t] # "restore" /\ Slot(t) = s /\ Index(t) = i

\* The terms of row i that have been added, or need not be (ANY monoid)
Added(i) ==
  {c \in Terms(i) : c[2] < pos[c[1]] \/ (c[2] = pos[c[1]] /\ pc[c[1]] = "unlock")}

ValueOK(s, i) ==
  IF job.monoid.any
  THEN \/ \E c \in Terms(i) : Hx[s] = {c}
       \/ \E t \in Team : pc[t] = "put" /\ Slot(t) = s
  ELSE Hx[s] = Added(i)

TaskOK(t) ==
  /\ pc[t] # "find" => MaskAllows(Index(t))
  /\ pc[t] \in {"fast", "update", "store"} => ~job.monoid.any
  /\ pc[t] \in {"fast", "put"} => Holds(Slot(t), Index(t))

SumsOK ==
  /\ \A s \in SlotIndices, i \in Rows :
       Holds(s, i) => MaskAllows(i) /\ Terms(i) # {} /\ ValueOK(s, i)
  /\ \A i \in Rows : MaskAllows(i) /\ Added(i) # {} => \E s \in SlotIndices : Holds(s, i)
  /\ \A t \in Team : Running(t) => TaskOK(t)

\* Only the hash kernels put back an entry of another row
RestoreOK == \A t \in Team : pc[t] = "restore" => ~UseGustavson

PInv == LInv /\ UInv /\ TInv /\ RestoreOK

\* In phase 2, what is known of a running task and its slot
LEMMA TaskSlot ==
  ASSUME Typed, phase = "numeric", NEW t \in Team, Running(t)
  PROVE  /\ Slot(t) \in SlotIndices /\ Slot(t) \in Nat /\ Index(t) \in Rows /\ Index(t) \in Nat
         /\ SlotIndices = 0 .. hsize - 1 /\ hsize \in Nat \ {0}
         /\ Hf[Slot(t)] \in Entries /\ hf[t] \in Entries /\ InNumeric(t)
         /\ UseGustavson => Slot(t) = Index(t)
<1>1. Slot(t) \in SlotIndices /\ Index(t) \in Rows /\ hsize \in Nat \ {0}
  BY SlotInTable, IndexInRows, SizeOfTable
<1>2. SlotIndices = 0 .. hsize - 1
  BY DEF SlotIndices
<1> QED
  BY <1>1, <1>2 DEF Rows, Typed, InNumeric, Slot

\* The task that has the lock of an entry, in the hash kernels
LEMMA OwnerTakes ==
  ASSUME PInv, Hashing, NEW t \in Team, Owns(t)
  PROVE  /\ Hf[Slot(t)].h = hf[t].h /\ Probed(t) /\ MayTake(t)
         /\ pc[t] # "restore" => hf[t].h = 0 \/ hf[t].h = Index(t) + 1
         /\ pc[t] = "restore" => hf[t].h # 0 /\ hf[t].f = 2
<1>1. Running(t) /\ pc[t] \in Critical
  BY DEF Owns, InNumeric, Critical
<1>2. Probed(t) /\ MayTake(t)
  BY <1>1 DEF PInv, TInv, NumericOK, Hashing
<1> QED
  BY <1>1, <1>2 DEF MayTake

\* No two slots are the place of one row: two tasks that claim an empty slot for
\* it, or one that does while it is elsewhere, would have met on the way.
LEMMA OnePlace ==
  ASSUME PInv, phase = "numeric", NEW i \in Rows,
         NEW s \in SlotIndices, NEW r \in SlotIndices, IsPlace(s, i), IsPlace(r, i)
  PROVE  s = r
<1>1. CASE UseGustavson
  BY <1>1 DEF IsPlace
<1>2. CASE ~UseGustavson
  <2>1. /\ hsize \in Nat \ {0} /\ SlotIndices = 0 .. hsize - 1 /\ i \in Nat
        /\ Hf \in [0 .. hsize - 1 -> Entries] /\ Found(Hf, hsize) /\ Hashing
    BY <1>2, SizeOfTable DEF PInv, LInv, Typed, TInv, TableOK, SlotIndices, Rows, Hashing
  <2>2. ASSUME NEW x \in SlotIndices, NEW y \in SlotIndices,
               Hf[x].h = i + 1, Hf[y].h = i + 1
        PROVE  x = y
    BY <2>1, <2>2 DEF Found
  <2>3. ASSUME NEW x \in SlotIndices, IsPlace(x, i), Hf[x].h # i + 1
        PROVE  /\ \A y \in SlotIndices : Hf[y].h # i + 1
               /\ Hf[x].h = 0
               /\ \A y \in Way(hsize, i, x) : y # x => Hf[y].h # 0
    <3>1. PICK t \in Team : Owns(t) /\ pc[t] # "restore" /\ Slot(t) = x /\ Index(t) = i
      BY <1>2, <2>3 DEF IsPlace
    <3>2. Probed(t) /\ Hf[x].h = 0
      BY <2>1, <2>3, <3>1, OwnerTakes
    <3>3. \A y \in Way(hsize, i, x) : y # x => Hf[y].h # 0 /\ Hf[y].h # i + 1
      BY <3>1, <3>2 DEF Probed
    <3>4. \A y \in 0 .. hsize - 1 : Hf[y].h # i + 1
      <4>1. \A y \in Way(hsize, i, x) : y # x => Hf[y].h # i + 1
        BY <3>3
      <4>2. x \in 0 .. hsize - 1
        BY <2>1
      <4> QED
        BY <2>1, <3>2, <4>1, <4>2, NotFound
    <3> QED
      BY <2>1, <3>2, <3>3, <3>4
  <2>4. CASE Hf[s].h = i + 1 \/ Hf[r].h = i + 1
    BY <2>2, <2>3, <2>4
  <2>5. CASE Hf[s].h # i + 1 /\ Hf[r].h # i + 1
    <3>1. /\ Hf[s].h = 0 /\ \A y \in Way(hsize, i, s) : y # s => Hf[y].h # 0
          /\ Hf[r].h = 0 /\ \A y \in Way(hsize, i, r) : y # r => Hf[y].h # 0
      BY <2>3, <2>5
    <3>2. r \in Way(hsize, i, s) \/ s \in Way(hsize, i, r)
      BY <2>1, HomeInTable, StretchOrder DEF Way
    <3> QED
      BY <3>1, <3>2
  <2> QED
    BY <2>4, <2>5
<1> QED
  BY <1>1, <1>2

\* No slot is the place of two rows.
LEMMA OneRow ==
  ASSUME PInv, phase = "numeric", NEW i \in Rows, NEW k \in Rows,
         NEW s \in SlotIndices, IsPlace(s, i), IsPlace(s, k)
  PROVE  i = k
<1>1. CASE UseGustavson
  BY <1>1 DEF IsPlace
<1>2. CASE ~UseGustavson
  <2>1. i \in Nat /\ k \in Nat /\ Hashing
    BY <1>2 DEF Rows, Hashing
  <2>2. ASSUME NEW x \in Rows, IsPlace(s, x), Hf[s].h # 0
        PROVE  Hf[s].h = x + 1
    <3>1. SUFFICES ASSUME NEW t \in Team, Owns(t), pc[t] # "restore", Slot(t) = s, Index(t) = x
                   PROVE  Hf[s].h = x + 1
      BY <1>2, <2>2 DEF IsPlace
    <3> QED
      BY <2>1, <2>2, <3>1, OwnerTakes
  <2>3. CASE Hf[s].h # 0
    BY <2>1, <2>2, <2>3
  <2>4. CASE Hf[s].h = 0
    <3>1. PICK t \in Team : Owns(t) /\ Slot(t) = s /\ Index(t) = i
      BY <1>2, <2>1, <2>4 DEF IsPlace
    <3>2. PICK u \in Team : Owns(u) /\ Slot(u) = s /\ Index(u) = k
      BY <1>2, <2>1, <2>4 DEF IsPlace
    <3>3. t = u
      BY <3>1, <3>2 DEF PInv, LInv, LockSound
    <3> QED
      BY <3>1, <3>2, <3>3
  <2> QED
    BY <2>3, <2>4
<1> QED
  BY <1>1, <1>2

\* A task past its search works at the place of its row
LEMMA TaskPlace ==
  ASSUME PInv, phase = "numeric", NEW t \in Team, Running(t),
         UseGustavson \/ (Owns(t) /\ pc[t] # "restore")
  PROVE  IsPlace(Slot(t), Index(t))
BY TaskSlot DEF IsPlace, PInv, LInv

LEMMA HoldsIsPlace ==
  ASSUME PInv, phase = "numeric", NEW s \in SlotIndices, NEW i \in Rows, Holds(s, i)
  PROVE  IsPlace(s, i)
<1>0. Typed /\ i \in Nat /\ Hf[s].h \in Nat
  BY DEF PInv, LInv, Typed, Entries, Rows
<1>1. CASE Hf[s].f = 2 /\ RowAt(s) = i
  BY <1>0, <1>1 DEF IsPlace, RowAt
<1>2. CASE \E t \in Team : Holder(t, s) /\ RowHeld(t) = i
  <2>1. PICK t \in Team : Holder(t, s) /\ RowHeld(t) = i
    BY <1>2
  <2>2. Running(t) /\ Slot(t) = s /\ InNumeric(t)
    BY <2>1 DEF Holder, InNumeric
  <2>3. ~UseGustavson => Owns(t) /\ Hashing
    BY <2>1 DEF Owns, Holder, Hashing
  <2>4. CASE pc[t] = "restore"
    <3>1. ~UseGustavson
      BY <2>4 DEF PInv, RestoreOK
    <3>2. Hf[s].h = hf[t].h /\ i = hf[t].h - 1
      BY <2>1, <2>2, <2>3, <2>4, <3>1, OwnerTakes DEF RowHeld
    <3> QED
      BY <1>0, <3>1, <3>2 DEF IsPlace
  <2>5. CASE pc[t] # "restore"
    BY <2>1, <2>2, <2>3, <2>5, TaskPlace DEF RowHeld
  <2> QED
    BY <2>4, <2>5
<1> QED
  BY <1>1, <1>2 DEF Holds

-----------------------------------------------------------------------------
(* What a step does to the terms added and to the other slots *)

LEMMA TermsAre ==
  ASSUME NEW k
  PROVE  \A c : c \in Terms(k) <=>
           \E u \in Team : \E p \in DOMAIN job.work[u] : job.work[u][p] = k /\ c = <<u, p>>
BY DEF Terms

LEMMA TermOf ==
  ASSUME Typed, phase = "numeric", NEW t \in Team, Running(t), NEW k
  PROVE  /\ Term(t) \in Terms(k) <=> Index(t) = k
         /\ \A c \in Terms(k) : /\ c[1] \in Team /\ c[2] \in Nat \ {0} /\ c = <<c[1], c[2]>>
                                /\ c[1] = t /\ c[2] = pos[t] => c = Term(t)
<1>1. pos[t] \in Nat \ {0} /\ pos[t] <= Len(job.work[t])
  BY DEF Running, Trips, Typed
<1>2. \A u \in Team : job.work[u] \in Seq(Rows) /\ Len(job.work[u]) \in Nat
                      /\ DOMAIN job.work[u] = 1 .. Len(job.work[u])
  BY JobFields, LenProperties DEF Typed
<1>3. pos[t] \in DOMAIN job.work[t]
  BY <1>1, <1>2
<1>4. Index(t) = job.work[t][pos[t]]
  BY DEF Index
<1>5. Term(t) \in Terms(k) <=> Index(t) = k
  BY <1>3, <1>4, TermsAre DEF Term
<1>6. ASSUME NEW c \in Terms(k)
      PROVE  /\ c[1] \in Team /\ c[2] \in Nat \ {0} /\ c = <<c[1], c[2]>>
             /\ c[1] = t /\ c[2] = pos[t] => c = Term(t)
  <2>1. PICK u \in Team : \E p \in DOMAIN job.work[u] : c = <<u, p>>
    BY TermsAre
  <2>2. PICK p \in DOMAIN job.work[u] : c = <<u, p>>
    BY <2>1
  <2>3. p \in Nat \ {0}
    BY <1>2
  <2> QED
    BY <2>2, <2>3 DEF Term
<1> QED
  BY <1>5, <1>6

\* A term is added when its iteration ends, or when its task is at "unlock".
LEMMA AddedStep ==
  ASSUME Typed, phase = "numeric", NEW t \in Team, Running(t), Steps(t), NEW k
  PROVE  /\ Terms(k)' = Terms(k)
         /\ k # Index(t) => Added(k)' = Added(k)
         /\ Advance(t) /\ k = Index(t) => Added(k)' = Added(k) \cup {Term(t)}
         /\ Rehash(t) /\ pc[t] # "unlock" => Added(k)' = Added(k)
         /\ \A label \in Labels : Goto(t, label) /\ pc[t] # "unlock" =>
              IF label = "unlock" /\ k = Index(t)
              THEN Added(k)' = Added(k) \cup {Term(t)} ELSE Added(k)' = Added(k)
         /\ Advance(t) /\ pc[t] = "unlock" => Added(k)' = Added(k)
<1> DEFINE Was(c) == c[2] < pos[c[1]] \/ (c[2] = pos[c[1]] /\ pc[c[1]] = "unlock")
           Is(c)  == c[2] < pos'[c[1]] \/ (c[2] = pos'[c[1]] /\ pc'[c[1]] = "unlock")
<1>1. Terms(k)' = Terms(k)
  BY DEF Steps, Terms
<1>2. Added(k) = {c \in Terms(k) : Was(c)} /\ Added(k)' = {c \in Terms(k) : Is(c)}
  BY <1>1 DEF Added
<1>3. /\ Term(t) \in Terms(k) <=> Index(t) = k
      /\ \A c \in Terms(k) : /\ c[1] \in Team /\ c[2] \in Nat \ {0}
                             /\ c[1] = t /\ c[2] = pos[t] => c = Term(t)
  BY TermOf
<1>4. pos \in [Team -> Nat \ {0}] /\ pc \in [Team -> Labels]
  BY DEF Typed
<1>5. \A u \in Team : u # t => pos'[u] = pos[u] /\ pc'[u] = pc[u]
  BY StepFrame
<1>6. \A c \in Terms(k) : c[1] # t => (Is(c) <=> Was(c))
  BY <1>3, <1>5
<1>7. Term(t)[1] = t /\ Term(t)[2] = pos[t]
  BY DEF Term
<1>8. ASSUME Advance(t)
      PROVE  \A c \in Terms(k) : Is(c) <=> Was(c) \/ c = Term(t)
  <2>1. pos'[t] = pos[t] + 1 /\ pc'[t] = "find"
    BY <1>4, <1>8 DEF Advance
  <2> QED
    BY <1>3, <1>4, <1>6, <1>7, <2>1
<1>9. ASSUME Rehash(t), pc[t] # "unlock"
      PROVE  \A c \in Terms(k) : Is(c) <=> Was(c)
  <2>1. pos' = pos /\ pc'[t] = "find"
    BY <1>4, <1>9 DEF Rehash
  <2> QED
    BY <1>3, <1>6, <1>9, <2>1
<1>10. ASSUME NEW label \in Labels, Goto(t, label), pc[t] # "unlock"
       PROVE  \A c \in Terms(k) : Is(c) <=> Was(c) \/ (label = "unlock" /\ c = Term(t))
  <2>1. pos' = pos /\ pc'[t] = label
    BY <1>4, <1>10 DEF Goto
  <2> QED
    BY <1>3, <1>6, <1>7, <1>10, <2>1
<1> HIDE DEF Is, Was
<1>11. k = Index(t) => Term(t) \in Terms(k)
  BY <1>3
<1>12. k # Index(t) => Term(t) \notin Terms(k)
  BY <1>3
<1>13. pc[t] = "unlock" /\ k = Index(t) => Was(Term(t))
  BY <1>7 DEF Was
<1>14. Advance(t) => Added(k)' = {c \in Terms(k) : Was(c) \/ c = Term(t)}
  BY <1>2, <1>8
<1>15. Rehash(t) /\ pc[t] # "unlock" => Added(k)' = Added(k)
  BY <1>2, <1>9
<1>16. \A label \in Labels : Goto(t, label) /\ pc[t] # "unlock" =>
         Added(k)' = {c \in Terms(k) : Was(c) \/ (label = "unlock" /\ c = Term(t))}
  BY <1>2, <1>10
<1>17. {c \in Terms(k) : Was(c) \/ c = Term(t)} =
         IF k = Index(t) THEN Added(k) \cup {Term(t)} ELSE Added(k)
  BY <1>2, <1>11, <1>12
<1>18. pc[t] = "unlock" => {c \in Terms(k) : Was(c) \/ c = Term(t)} = Added(k)
  BY <1>2, <1>12, <1>13
<1>19. \A label \in Labels : Goto(t, label) /\ pc[t] # "unlock" =>
         IF label = "unlock" /\ k = Index(t)
         THEN Added(k)' = Added(k) \cup {Term(t)} ELSE Added(k)' = Added(k)
  BY <1>2, <1>16, <1>17
<1>20. k # Index(t) => Added(k)' = Added(k)
  <2>1. CASE Advance(t)
    BY <1>14, <1>17, <2>1
  <2>2. CASE pc[t] # "unlock"
    BY <1>14, <1>15, <1>17, <1>19, <2>2 DEF Steps, Moves
  <2>3. CASE ~Advance(t) /\ pc[t] = "unlock" /\ k # Index(t)
    <3>1. \A c \in Terms(k) : Is(c) <=> Was(c)
      <4>1. \A c \in Terms(k) : c[1] = t => c[2] # pos[t]
        BY <1>3, <2>3
      <4>2. pos'[t] = pos[t]
        BY <2>3 DEF Steps, Moves, Goto, Rehash
      <4> QED
        BY <1>6, <4>1, <4>2 DEF Is, Was
    <3> QED
      BY <1>2, <3>1
  <2> QED
    BY <2>1, <2>2, <2>3
<1> QED
  BY <1>1, <1>14, <1>15, <1>17, <1>18, <1>19, <1>20

\* The other tasks, and what they hold
LEMMA OthersHold ==
  ASSUME Typed, phase = "numeric", NEW t \in Team, Running(t), Steps(t),
         \A u \in Team : u # t => hf'[u] = hf[u]
  PROVE  /\ \A u \in Team : u # t =>
              /\ Running(u)' = Running(u) /\ Index(u)' = Index(u) /\ Slot(u)' = Slot(u)
              /\ pc'[u] = pc[u] /\ RowHeld(u)' = RowHeld(u)
              /\ \A r : Holder(u, r)' <=> Holder(u, r)
         /\ \A r : Holder(t, r)' => r = Slot(t)
         /\ job' = job /\ hsize' = hsize /\ phase' = phase /\ SlotIndices' = SlotIndices
         /\ UseGustavson' <=> UseGustavson
         /\ \A k : MaskAllows(k)' <=> MaskAllows(k)
<1>1. job' = job /\ hsize' = hsize /\ phase' = phase /\ SlotIndices' = SlotIndices
  BY StepTyped DEF Steps
<1>2. ASSUME NEW u \in Team, u # t
      PROVE  /\ Running(u)' = Running(u) /\ Index(u)' = Index(u) /\ Slot(u)' = Slot(u)
             /\ pc'[u] = pc[u] /\ InNumeric(u)' = InNumeric(u) /\ hf'[u] = hf[u]
  BY <1>2, OthersInScatter, StepFrame
<1>3. \A u \in Team : u # t => /\ RowHeld(u)' = RowHeld(u)
                               /\ \A r : Holder(u, r)' <=> Holder(u, r)
  BY <1>2 DEF RowHeld, Holder
<1>4. ASSUME NEW r, Holder(t, r)'
      PROVE  r = Slot(t)
  <2>1. pc'[t] # "find" /\ Slot(t)' = r
    BY <1>4 DEF Holder
  <2>2. PICK label \in Labels : Goto(t, label)
    BY <2>1 DEF Steps, Moves, Rehash, Advance, Typed
  <2>3. Slot(t)' = Slot(t)
    BY <1>1, <2>2, GotoFrame
  <2> QED
    BY <2>1, <2>3
<1>5. (UseGustavson' <=> UseGustavson) /\ \A k : MaskAllows(k)' <=> MaskAllows(k)
  BY <1>1 DEF UseGustavson, MaskAllows
<1> QED
  BY <1>1, <1>2, <1>3, <1>4, <1>5

LEMMA OtherSlots ==
  ASSUME Typed, phase = "numeric", NEW t \in Team, Running(t), Steps(t),
         \A u \in Team : u # t => hf'[u] = hf[u],
         NEW r \in SlotIndices, r # Slot(t), Hf'[r] = Hf[r], NEW k
  PROVE  Holds(r, k)' <=> Holds(r, k)
<1>1. /\ \A u \in Team : u # t =>
           /\ RowHeld(u)' = RowHeld(u) /\ (Holder(u, r)' <=> Holder(u, r))
      /\ ~Holder(t, r)' /\ ~Holder(t, r)
      /\ UseGustavson' <=> UseGustavson
  BY OthersHold DEF Holder
<1>2. RowAt(r)' = RowAt(r)
  BY <1>1 DEF RowAt
<1>3. (\E u \in Team : Holder(u, r)' /\ RowHeld(u)' = k)
        <=> (\E u \in Team : Holder(u, r) /\ RowHeld(u) = k)
  BY <1>1
<1> QED
  BY <1>2, <1>3 DEF Holds

\* What is known to be the place of a row stays so
HoldsKept == \A r \in SlotIndices, k \in Rows : Holds(r, k) => Holds(r, k)'

\* The sums of all rows are right after a step of task t if they are at the slot
\* s that it works at.
LEMMA SumsStep ==
  ASSUME PInv, phase = "numeric", SumsOK, NEW t \in Team, InNumeric(t), Steps(t),
         \A u \in Team : u # t => hf'[u] = hf[u],
         NEW s \in SlotIndices, s = Slot(t), NEW i \in Rows, i = Index(t),
         \A r \in SlotIndices : r # s => Hf'[r] = Hf[r] /\ Hx'[r] = Hx[r],
         pc[t] = "put" => job.monoid.any /\ Hx'[s] = {Term(t)},
         Added(i)' = Added(i) \/ job.monoid.any \/ IsPlace(s, i) \/ ~MaskAllows(i),
         Added(i)' = Added(i) \/ ~MaskAllows(i) \/ Holds(s, i)',
         \A k \in Rows : Holds(s, k) => Holds(s, k)',
         \A k \in Rows : Holds(s, k)' => MaskAllows(k) /\ Terms(k) # {} /\ ValueOK(s, k)',
         Running(t)' => TaskOK(t)'
  PROVE  SumsOK' /\ HoldsKept
<1>0. Typed /\ Running(t)
  BY DEF PInv, LInv, InNumeric
<1>1. /\ \A u \in Team : u # t =>
           /\ Running(u)' = Running(u) /\ Index(u)' = Index(u) /\ Slot(u)' = Slot(u)
           /\ pc'[u] = pc[u]
      /\ job' = job /\ SlotIndices' = SlotIndices
      /\ \A k : MaskAllows(k)' <=> MaskAllows(k)
  BY <1>0, OthersHold
<1>2. \A k : Terms(k)' = Terms(k) /\ (k # i => Added(k)' = Added(k))
  BY <1>0, AddedStep
<1>3. \A r \in SlotIndices, k \in Rows : r # s => (Holds(r, k)' <=> Holds(r, k))
  BY <1>0, OtherSlots
<1>4. ASSUME NEW r \in SlotIndices, r # s, NEW k \in Rows, Holds(r, k)'
      PROVE  MaskAllows(k) /\ Terms(k) # {} /\ ValueOK(r, k)'
  <2>1. Holds(r, k) /\ MaskAllows(k) /\ Terms(k) # {} /\ ValueOK(r, k) /\ Hx'[r] = Hx[r]
    BY <1>3, <1>4 DEF SumsOK
  <2>2. CASE job.monoid.any
    <3>1. (\E u \in Team : pc[u] = "put" /\ Slot(u) = r)
            => \E u \in Team : pc'[u] = "put" /\ Slot(u)' = r
      BY <1>1, <1>4
    <3> QED
      BY <1>1, <1>2, <2>1, <2>2, <3>1 DEF ValueOK
  <2>3. CASE ~job.monoid.any
    <3>1. k = i /\ IsPlace(s, i) => FALSE
      BY <1>4, <2>1, HoldsIsPlace, OnePlace
    <3>2. Added(k)' = Added(k)
      BY <1>2, <2>1, <2>3, <3>1
    <3> QED
      BY <1>1, <2>1, <2>3, <3>2 DEF ValueOK
  <2> QED
    BY <2>1, <2>2, <2>3
<1>5. \A r \in SlotIndices, k \in Rows : Holds(r, k) => Holds(r, k)'
  BY <1>3
<1>6. ASSUME NEW k \in Rows, MaskAllows(k), Added(k)' # {}
      PROVE  \E r \in SlotIndices : Holds(r, k)'
  <2>1. CASE Added(k) # {}
    <3>1. PICK r \in SlotIndices : Holds(r, k)
      BY <1>6, <2>1 DEF SumsOK
    <3> QED
      BY <1>5, <3>1
  <2>2. CASE Added(k) = {}
    <3>1. k = i /\ Holds(s, i)'
      BY <1>2, <1>6, <2>2
    <3> QED
      BY <3>1
  <2> QED
    BY <2>1, <2>2
<1>7. ASSUME NEW u \in Team, u # t, Running(u)'
      PROVE  TaskOK(u)'
  <2>1. TaskOK(u) /\ Running(u)
    BY <1>1, <1>7 DEF SumsOK
  <2>2. Slot(u) \in SlotIndices /\ Index(u) \in Rows
    BY <1>0, <2>1, TaskSlot
  <2>3. Holds(Slot(u), Index(u)) => Holds(Slot(u), Index(u))'
    <3> DEFINE r == Slot(u)
               k == Index(u)
    <3>1. Holds(r, k) => \E x \in SlotIndices, y \in Rows : x = r /\ y = k /\ Holds(x, y)'
      BY <1>5, <2>2
    <3>2. Slot(u)' = r /\ Index(u)' = k
      BY <1>1, <1>7
    <3> QED
      BY <3>1, <3>2 DEF Holds
  <2> QED
    BY <1>1, <1>7, <2>1, <2>3 DEF TaskOK
<1>8. \A r \in SlotIndices, k \in Rows :
        Holds(r, k)' => MaskAllows(k) /\ Terms(k) # {} /\ ValueOK(r, k)'
  BY <1>4
<1>9. \A u \in Team : Running(u)' => TaskOK(u)'
  BY <1>7
<1>10. \A r \in SlotIndices', k \in Rows :
         Holds(r, k)' => MaskAllows(k)' /\ Terms(k)' # {} /\ ValueOK(r, k)'
  BY <1>1, <1>2, <1>8
<1>11. \A k \in Rows : MaskAllows(k)' /\ Added(k)' # {} => \E r \in SlotIndices' : Holds(r, k)'
  BY <1>1, <1>6
<1> QED
  BY <1>5, <1>9, <1>10, <1>11 DEF SumsOK, HoldsKept

-----------------------------------------------------------------------------
(* The mask in phase 2 *)

MaskStored == IF UseGustavson THEN job.mask # "none" ELSE Scattered
Occupied(s) == IF UseGustavson THEN Hf[s].f # 0 ELSE Hf[s].h # 0

\* Every true index of the mask is in the workspace, for !M still marked as
\* masked; for M nothing else is, for !M nothing else is marked
MaskOK ==
  IF MaskStored
  THEN /\ \A i \in job.Mtrue : \E s \in SlotIndices :
            Occupied(s) /\ RowAt(s) = i /\ (job.mask = "notM" => Hf[s].f = 1)
       /\ \A s \in SlotIndices :
            Occupied(s) /\ (job.mask = "M" \/ Hf[s].f = 1) => RowAt(s) \in job.Mtrue
  ELSE \A s \in SlotIndices : Hf[s].f # 1

LEMMA MaskKinds ==
  ASSUME Typed
  PROVE  /\ job.mask \in {"none", "M", "notM"} /\ job.Mtrue \subseteq Rows
         /\ job.inPlace \in BOOLEAN
         /\ \A i : i \in job.Mtrue => i \in Nat
BY JobFields DEF Typed, JobType, Rows

\* What the hash tasks find out about the mask
LEMMA HashMask ==
  ASSUME PInv, Hashing, MaskOK, NEW t \in Team, Running(t),
         NEW e, e = Hf[Slot(t)], NEW i, i = Index(t)
  PROVE  /\ Ignored(e, i) => ~MaskAllows(i)
         /\ Candidate(e, i) /\ ~Ignored(e, i) /\ (job.inPlace => MaskAllows(i)) => MaskAllows(i)
<1> DEFINE s == Slot(t)
<1>1. /\ Typed /\ phase = "numeric" /\ ~UseGustavson /\ s \in SlotIndices /\ i \in Nat
      /\ e \in Entries /\ SlotIndices = 0 .. hsize - 1 /\ hsize \in Nat \ {0}
      /\ Hf \in [0 .. hsize - 1 -> Entries] /\ Found(Hf, hsize) /\ EntryOK(e)
  BY TaskSlot DEF PInv, LInv, Hashing, TInv, TableOK, NumericOK, Typed
<1>2. Probed(t)
  BY <1>1 DEF PInv, TInv, NumericOK
<1>3. e.h = 0 => \A r \in SlotIndices : Hf[r].h # i + 1
  <2>1. \A r \in Way(hsize, i, s) : r # s => Hf[r].h # i + 1
    BY <1>2 DEF Probed
  <2> QED
    BY <1>1, <2>1, NotFound
<1>4. e.h = i + 1 => \A r \in SlotIndices : Hf[r].h = i + 1 => r = s
  BY <1>1 DEF Found
<1>5. \A r \in SlotIndices : /\ Occupied(r) <=> Hf[r].h # 0
                             /\ RowAt(r) = Hf[r].h - 1 /\ Hf[r].h \in Nat
  BY <1>1 DEF Occupied, RowAt, Entries
<1>6. MaskStored <=> InTable("M") \/ InTable("notM")
  BY <1>1 DEF MaskStored, Scattered
<1>7. i \in job.Mtrue /\ MaskStored =>
        /\ e.h # 0
        /\ e.h = i + 1 => (job.mask = "notM" => e.f = 1)
  <2> SUFFICES ASSUME i \in job.Mtrue, MaskStored
               PROVE  /\ e.h # 0
                      /\ e.h = i + 1 => (job.mask = "notM" => e.f = 1)
    OBVIOUS
  <2>1. PICK r \in SlotIndices :
          Occupied(r) /\ RowAt(r) = i /\ (job.mask = "notM" => Hf[r].f = 1)
    BY DEF MaskOK
  <2>2. Hf[r].h = i + 1
    BY <1>1, <1>5, <2>1
  <2> QED
    BY <1>3, <1>4, <2>1, <2>2
<1>8. MaskStored /\ e.h = i + 1 /\ (job.mask = "M" \/ e.f = 1) => i \in job.Mtrue
  BY <1>1, <1>5 DEF MaskOK
<1>9. ASSUME Ignored(e, i)
      PROVE  ~MaskAllows(i)
  <2>1. CASE InTable("M") /\ e = Empty
    BY <1>6, <1>7, <2>1 DEF InTable, MaskAllows, Empty, Entry
  <2>2. CASE InTable("notM") /\ e = Masked(i)
    BY <1>6, <1>8, <2>2 DEF InTable, MaskAllows, Masked, Entry
  <2> QED
    BY <1>9, <2>1, <2>2 DEF Ignored
<1>10. ASSUME Candidate(e, i), ~Ignored(e, i), job.inPlace => MaskAllows(i)
       PROVE  MaskAllows(i)
  <2>1. CASE job.inPlace
    BY <1>10, <2>1
  <2>2. CASE ~job.inPlace /\ job.mask = "M"
    <3>1. InTable("M") /\ e.h = i + 1
      BY <1>10, <2>2 DEF Candidate, InTable
    <3> QED
      BY <1>6, <1>8, <2>2, <3>1 DEF MaskAllows
  <2>3. CASE ~job.inPlace /\ job.mask = "notM"
    <3>1. InTable("notM") /\ ~InTable("M")
      BY <2>3 DEF InTable
    <3>2. SUFFICES ASSUME i \in job.Mtrue PROVE FALSE
      BY <2>3 DEF MaskAllows
    <3>3. e.h = i + 1 /\ e.f = 1
      BY <1>6, <1>7, <1>10, <2>3, <3>1, <3>2 DEF Candidate
    <3>4. e = Masked(i)
      BY <1>1, <3>3 DEF Masked, Entry, Entries
    <3> QED
      BY <1>10, <3>1, <3>4 DEF Ignored
  <2>4. CASE job.mask = "none"
    BY <2>4 DEF MaskAllows
  <2> QED
    BY <1>1, <2>1, <2>2, <2>3, <2>4, MaskKinds
<1> QED
  BY <1>9, <1>10

\* What the flag of Gustavson's tasks tells about the mask
LEMMA GusMask ==
  ASSUME Typed, UseGustavson, MaskOK, NEW s \in SlotIndices
  PROVE  /\ MaskedOut(Hf[s].f) <=> ~MaskAllows(s)
         /\ MaskAllows(s) => Hf[s].f # (IF job.mask = "M" THEN 0 ELSE 1)
<1>1. /\ job.mask \in {"none", "M", "notM"}
      /\ \A r \in SlotIndices : RowAt(r) = r /\ (Occupied(r) <=> Hf[r].f # 0)
      /\ MaskStored <=> job.mask # "none"
  BY MaskKinds DEF RowAt, Occupied, MaskStored
<1>2. job.mask # "none" /\ s \in job.Mtrue => Hf[s].f # 0 /\ (job.mask = "notM" => Hf[s].f = 1)
  BY <1>1 DEF MaskOK
<1>3. job.mask # "none" /\ Hf[s].f # 0 /\ (job.mask = "M" \/ Hf[s].f = 1) => s \in job.Mtrue
  BY <1>1 DEF MaskOK
<1>4. job.mask = "none" => Hf[s].f # 1
  BY <1>1 DEF MaskOK
<1>5. CASE job.mask = "none"
  <2>1. MaskAllows(s) /\ ~MaskedOut(Hf[s].f)
    BY <1>5 DEF MaskedOut, MaskAllows
  <2> QED
    BY <1>4, <1>5, <2>1
<1>6. CASE job.mask = "M"
  <2>1. (MaskAllows(s) <=> s \in job.Mtrue) /\ (MaskedOut(Hf[s].f) <=> Hf[s].f = 0)
    BY <1>6 DEF MaskedOut, MaskAllows
  <2> QED
    BY <1>2, <1>3, <1>6, <2>1
<1>7. CASE job.mask = "notM"
  <2>1. (MaskAllows(s) <=> s \notin job.Mtrue) /\ (MaskedOut(Hf[s].f) <=> Hf[s].f = 1)
    BY <1>7 DEF MaskedOut, MaskAllows
  <2> QED
    BY <1>2, <1>3, <1>7, <2>1
<1> QED
  BY <1>1, <1>5, <1>6, <1>7

\* A task that puts an entry of its row in its slot, or puts back what was there,
\* does not disturb the mask.
LEMMA MaskStep ==
  ASSUME Typed, MaskOK, UNCHANGED <<job, hsize>>,
         NEW s \in SlotIndices, \A r \in SlotIndices : r # s => Hf'[r] = Hf[r],
         Hf'[s].f # 1, Hf[s].f = 1 => job.mask = "M",
         Occupied(s) => RowAt(s)' = RowAt(s) /\ Occupied(s)',
         Occupied(s)' /\ job.mask = "M" /\ MaskStored => RowAt(s)' \in job.Mtrue
  PROVE  MaskOK'
<1>1. /\ SlotIndices' = SlotIndices /\ (MaskStored' <=> MaskStored) /\ job' = job
      /\ UseGustavson' <=> UseGustavson
  BY DEF SlotIndices, MaskStored, UseGustavson, Scattered, InTable
<1>2. \A r \in SlotIndices : r # s => RowAt(r)' = RowAt(r) /\ (Occupied(r)' <=> Occupied(r))
  BY <1>1 DEF RowAt, Occupied
<1>3. CASE ~MaskStored
  <2>1. \A r \in SlotIndices : Hf'[r].f # 1
    BY <1>3 DEF MaskOK
  <2> QED
    BY <1>1, <1>3, <2>1 DEF MaskOK
<1>4. CASE MaskStored
  <2>1. ASSUME NEW i \in job.Mtrue
        PROVE  \E r \in SlotIndices :
                 Occupied(r)' /\ RowAt(r)' = i /\ (job.mask = "notM" => Hf'[r].f = 1)
    <3>1. PICK r \in SlotIndices :
            Occupied(r) /\ RowAt(r) = i /\ (job.mask = "notM" => Hf[r].f = 1)
      BY <1>4 DEF MaskOK
    <3>2. CASE r = s
      BY <3>1, <3>2
    <3>3. CASE r # s
      BY <1>2, <3>1, <3>3
    <3> QED
      BY <3>2, <3>3
  <2>2. ASSUME NEW r \in SlotIndices, Occupied(r)', job.mask = "M" \/ Hf'[r].f = 1
        PROVE  RowAt(r)' \in job.Mtrue
    <3>1. CASE r = s
      BY <1>4, <2>2, <3>1
    <3>2. CASE r # s
      BY <1>2, <1>4, <2>2, <3>2 DEF MaskOK
    <3> QED
      BY <3>1, <3>2
  <2> QED
    BY <1>1, <1>4, <2>1, <2>2 DEF MaskOK
<1> QED
  BY <1>3, <1>4

LEMMA MaskSame ==
  ASSUME MaskOK, UNCHANGED <<job, hsize, Hf>>
  PROVE  MaskOK'
BY DEF MaskOK, MaskStored, Occupied, RowAt, UseGustavson, Scattered, InTable, SlotIndices

-----------------------------------------------------------------------------
(* Steps that do not write Hx *)

HoldsOne == \A s \in SlotIndices, i \in Rows, k \in Rows : Holds(s, i) /\ Holds(s, k) => i = k

Numeric == phase = "numeric"

LEMMA HoldsOneNow == PInv /\ Numeric => HoldsOne
BY HoldsIsPlace, OneRow DEF HoldsOne, Numeric

LEMMA HoldsOneNext == PInv' /\ Numeric' => HoldsOne'
BY HoldsOneNow, PTL

\* A slot of a row still has its value when only its entry changes.
LEMMA KeepSums ==
  ASSUME PInv, phase = "numeric", SumsOK, NEW t \in Team, InNumeric(t), Steps(t),
         \A u \in Team : u # t => hf'[u] = hf[u],
         NEW s \in SlotIndices, s = Slot(t), NEW i \in Rows, i = Index(t),
         \A r \in SlotIndices : r # s => Hf'[r] = Hf[r], Hx' = Hx, pc[t] # "put",
         Added(i)' = Added(i) \/ ~MaskAllows(i) \/ (job.monoid.any /\ Holds(s, i)),
         \A k \in Rows : Holds(s, k)' <=> Holds(s, k),
         Running(t)' => TaskOK(t)'
  PROVE  SumsOK' /\ HoldsKept
<1>1. Typed /\ Running(t)
  BY DEF PInv, LInv, InNumeric
<1>2. /\ \A u \in Team : u # t => Slot(u)' = Slot(u) /\ pc'[u] = pc[u]
      /\ job' = job
  BY <1>1, OthersHold
<1>3. \A k : Terms(k)' = Terms(k) /\ (k # i => Added(k)' = Added(k))
  BY <1>1, AddedStep
<1>4. ASSUME NEW k \in Rows, Holds(s, k)'
      PROVE  MaskAllows(k) /\ Terms(k) # {} /\ ValueOK(s, k)'
  <2>1. MaskAllows(k) /\ Terms(k) # {} /\ ValueOK(s, k)
    BY <1>4 DEF SumsOK
  <2>2. CASE job.monoid.any
    <3>1. (\E u \in Team : pc[u] = "put" /\ Slot(u) = s)
            => \E u \in Team : pc'[u] = "put" /\ Slot(u)' = s
      BY <1>2
    <3> QED
      BY <1>2, <1>3, <2>1, <2>2, <3>1 DEF ValueOK
  <2>3. CASE ~job.monoid.any
    <3>1. Added(k)' = Added(k)
      BY <1>3, <2>1, <2>3
    <3> QED
      BY <1>2, <2>1, <2>3, <3>1 DEF ValueOK
  <2> QED
    BY <2>1, <2>2, <2>3
<1>5. Added(i)' = Added(i) \/ ~MaskAllows(i) \/ Holds(s, i)'
  OBVIOUS
<1>6. Added(i)' = Added(i) \/ job.monoid.any \/ IsPlace(s, i) \/ ~MaskAllows(i)
  OBVIOUS
<1> QED
  BY <1>4, <1>5, <1>6, SumsStep

\* A step that changes neither Hf nor Hx nor what its task holds
LEMMA QuietSums ==
  ASSUME PInv, phase = "numeric", SumsOK, NEW t \in Team, InNumeric(t), Steps(t),
         UNCHANGED <<hf, Hf, Hx>>,
         NEW s \in SlotIndices, s = Slot(t), NEW i \in Rows, i = Index(t),
         pc[t] # "put",
         \A r : Holder(t, r)' <=> Holder(t, r),
         Holder(t, s) => RowHeld(t)' = RowHeld(t),
         Added(i)' = Added(i) \/ ~MaskAllows(i) \/ (job.monoid.any /\ Holds(s, i)),
         Running(t)' => TaskOK(t)'
  PROVE  SumsOK' /\ HoldsKept
<1>1. Typed /\ Running(t)
  BY DEF PInv, LInv, InNumeric
<1>2. /\ \A u \in Team : u # t => RowHeld(u)' = RowHeld(u) /\ \A r : Holder(u, r)' <=> Holder(u, r)
      /\ UseGustavson' <=> UseGustavson
  BY <1>1, OthersHold
<1>3. RowAt(s)' = RowAt(s)
  BY <1>2 DEF RowAt
<1>4. ASSUME NEW k
      PROVE (\E u \in Team : Holder(u, s)' /\ RowHeld(u)' = k)
              <=> (\E u \in Team : Holder(u, s) /\ RowHeld(u) = k)
  BY <1>2
<1>5. \A k \in Rows : Holds(s, k)' <=> Holds(s, k)
  BY <1>3, <1>4 DEF Holds
<1> QED
  BY <1>5, KeepSums

-----------------------------------------------------------------------------
(* Searching *)

\* Tasks in phase 2 with the mask and the sums right
Summing == Numeric /\ MaskOK /\ SumsOK

LEMMA FindAdvance ==
  ASSUME PInv, Summing, NEW t \in Team, InNumeric(t), pc[t] = "find",
         UNCHANGED <<job, hsize, phase, hf, Hf, Hx>>, Advance(t),
         ~MaskAllows(Index(t)) \/ (job.monoid.any /\ Holds(Slot(t), Index(t)))
  PROVE  Summing' /\ HoldsKept
<1>1. Steps(t) /\ Running(t) /\ Typed /\ phase = "numeric" /\ MaskOK /\ SumsOK
  BY DEF Steps, Moves, InNumeric, PInv, LInv, Summing, Numeric
<1>2. PICK s \in SlotIndices : s = Slot(t)
  BY <1>1, TaskSlot
<1>3. PICK i \in Rows : i = Index(t)
  BY <1>1, TaskSlot
<1>4. pc'[t] = "find"
  BY RoundOrOut DEF PInv
<1>5. TaskOK(t)' /\ \A r : ~Holder(t, r) /\ ~Holder(t, r)'
  BY <1>4 DEF TaskOK, Holder
<1>6. SumsOK' /\ HoldsKept
  BY <1>1, <1>2, <1>3, <1>5, QuietSums
<1> QED
  BY <1>1, <1>6, MaskSame DEF Summing, Numeric

LEMMA FindRehash ==
  ASSUME PInv, Summing, NEW t \in Team, InNumeric(t), pc[t] = "find",
         UNCHANGED <<job, hsize, phase, hf, Hf, Hx>>, Rehash(t)
  PROVE  Summing' /\ HoldsKept
<1>1. Steps(t) /\ Running(t) /\ Typed /\ phase = "numeric" /\ MaskOK /\ SumsOK
  BY DEF Steps, Moves, InNumeric, PInv, LInv, Summing, Numeric
<1>2. PICK s \in SlotIndices : s = Slot(t)
  BY <1>1, TaskSlot
<1>3. PICK i \in Rows : i = Index(t)
  BY <1>1, TaskSlot
<1>4. pc'[t] = "find"
  BY RoundOrOut DEF PInv
<1>5. TaskOK(t)' /\ \A r : ~Holder(t, r) /\ ~Holder(t, r)'
  BY <1>4 DEF TaskOK, Holder
<1>6. Added(i)' = Added(i)
  BY <1>1, AddedStep
<1>7. SumsOK' /\ HoldsKept
  BY <1>1, <1>2, <1>3, <1>5, <1>6, QuietSums
<1> QED
  BY <1>1, <1>7, MaskSame DEF Summing, Numeric

LEMMA FindGoto ==
  ASSUME PInv, Summing, NEW t \in Team, InNumeric(t), pc[t] = "find",
         UNCHANGED <<job, hsize, phase, hf, Hf, Hx>>,
         NEW label \in {"fast", "lock", "write", "flag"}, Goto(t, label), MaskAllows(Index(t)),
         label = "fast" =>
           ~job.monoid.any /\ Hf[Slot(t)].f = 2 /\ RowAt(Slot(t)) = Index(t)
  PROVE  Summing' /\ HoldsKept
<1>1. /\ Steps(t) /\ Running(t) /\ Typed /\ phase = "numeric" /\ MaskOK /\ SumsOK
      /\ label \in Labels
  BY DEF Steps, Moves, InNumeric, PInv, LInv, Summing, Numeric, Labels
<1>2. PICK s \in SlotIndices : s = Slot(t)
  BY <1>1, TaskSlot
<1>3. PICK i \in Rows : i = Index(t)
  BY <1>1, TaskSlot
<1>4. /\ pc'[t] = label /\ Slot(t)' = s /\ Index(t)' = i
  <2>1. pc'[t] = label /\ Slot(t)' = Slot(t)
    BY <1>1, GotoFrame
  <2> QED
    BY <1>2, <1>3, <2>1 DEF Goto, Index, ToScatter, UseGustavson
<1>5. \A r : ~Holder(t, r) /\ ~Holder(t, r)'
  BY <1>4 DEF Holder
<1>6. Added(i)' = Added(i)
  BY <1>1, AddedStep
<1>7. TaskOK(t)'
  <2>1. MaskAllows(i)'
    BY <1>3 DEF MaskAllows
  <2>2. label = "fast" => Holds(Slot(t), Index(t))'
    <3>1. label = "fast" => Hf'[s].f = 2 /\ RowAt(s)' = i
      BY <1>2, <1>3 DEF RowAt, UseGustavson
    <3> QED
      BY <1>4, <3>1 DEF Holds, RowAt
  <2> QED
    BY <1>4, <2>1, <2>2 DEF TaskOK, MaskAllows
<1>8. SumsOK' /\ HoldsKept
  BY <1>1, <1>2, <1>3, <1>5, <1>6, <1>7, QuietSums
<1> QED
  BY <1>1, <1>8, MaskSame DEF Summing, Numeric

LEMMA HashSkipSums ==
  ASSUME PInv, Summing, NEW t \in Team, HashSkip(t)
  PROVE  Summing' /\ HoldsKept
BY FindAdvance DEF HashSkip, At

LEMMA HashFindSums ==
  ASSUME PInv, Summing, NEW t \in Team, HashFind(t)
  PROVE  Summing' /\ HoldsKept
<1> DEFINE e == Hf[Slot(t)]
           i == Index(t)
<1>1. /\ InNumeric(t) /\ pc[t] = "find" /\ UNCHANGED <<job, hsize, phase, hf, Hf, Hx>>
      /\ ~UseGustavson /\ (job.inPlace => MaskAllows(i)) /\ Running(t) /\ Hashing /\ MaskOK
      /\ Typed /\ phase = "numeric" /\ SumsOK
  BY DEF HashFind, At, InNumeric, Hashing, Summing, Numeric, PInv, LInv
<1>2. /\ Ignored(e, i) => ~MaskAllows(i)
      /\ Candidate(e, i) /\ ~Ignored(e, i) => MaskAllows(i)
  BY <1>1, HashMask
<1>3. Slot(t) \in SlotIndices /\ i \in Rows /\ i \in Nat
  BY <1>1, TaskSlot
<1>4. CanUpdate(e, i) => e.f = 2 /\ RowAt(Slot(t)) = i
  BY <1>1, <1>3 DEF CanUpdate, Unlocked, Entry, RowAt
<1>5. CanUpdate(e, i) => Holds(Slot(t), i) /\ MaskAllows(i)
  BY <1>1, <1>3, <1>4 DEF Holds, SumsOK
<1>6. CASE CanUpdate(e, i) /\ job.monoid.any /\ Advance(t)
  BY <1>1, <1>5, <1>6, FindAdvance
<1>7. CASE CanUpdate(e, i) /\ ~job.monoid.any /\ Goto(t, "fast")
  BY <1>1, <1>4, <1>5, <1>7, FindGoto
<1>8. CASE Ignored(e, i) /\ Advance(t)
  BY <1>1, <1>2, <1>8, FindAdvance
<1>9. CASE Candidate(e, i) /\ ~Ignored(e, i) /\ Goto(t, "lock")
  BY <1>1, <1>2, <1>9, FindGoto
<1>10. CASE Rehash(t)
  BY <1>1, <1>10, FindRehash
<1> QED
  BY <1>6, <1>7, <1>8, <1>9, <1>10 DEF HashFind

LEMMA GusFindAnySums ==
  ASSUME PInv, Summing, NEW t \in Team, GusFindAny(t)
  PROVE  Summing' /\ HoldsKept
<1> DEFINE f == Hf[Slot(t)].f
           i == Index(t)
<1>1. /\ InNumeric(t) /\ pc[t] = "find" /\ UNCHANGED <<job, hsize, phase, hf, Hf, Hx>>
      /\ UseGustavson /\ LockFree /\ Running(t) /\ MaskOK
      /\ Typed /\ phase = "numeric" /\ SumsOK
  BY DEF GusFindAny, At, InNumeric, Summing, Numeric, PInv, LInv
<1>2. Slot(t) \in SlotIndices /\ i \in Rows /\ Slot(t) = i
  BY <1>1, TaskSlot
<1>3. MaskedOut(f) <=> ~MaskAllows(i)
  BY <1>1, <1>2, GusMask
<1>4. f = 2 => Holds(Slot(t), i)
  BY <1>1, <1>2 DEF Holds, RowAt
<1>5. CASE (f = 2 \/ MaskedOut(f)) /\ Advance(t)
  BY <1>1, <1>3, <1>4, <1>5, FindAdvance DEF LockFree
<1>6. CASE ~MaskedOut(f) /\ \E label \in {"write", "flag"} : Goto(t, label)
  BY <1>1, <1>3, <1>6, FindGoto
<1> QED
  BY <1>5, <1>6 DEF GusFindAny

LEMMA GusFindSums ==
  ASSUME PInv, Summing, NEW t \in Team, GusFind(t)
  PROVE  Summing' /\ HoldsKept
<1> DEFINE f == Hf[Slot(t)].f
           i == Index(t)
<1>1. /\ InNumeric(t) /\ pc[t] = "find" /\ UNCHANGED <<job, hsize, phase, hf, Hf, Hx>>
      /\ UseGustavson /\ ~LockFree /\ Running(t) /\ MaskOK
      /\ Typed /\ phase = "numeric" /\ SumsOK
  BY DEF GusFind, At, InNumeric, Summing, Numeric, PInv, LInv
<1>2. Slot(t) \in SlotIndices /\ i \in Rows /\ Slot(t) = i
  BY <1>1, TaskSlot
<1>3. MaskedOut(f) <=> ~MaskAllows(i)
  BY <1>1, <1>2, GusMask
<1>4. job.monoid.atomicUpdate => ~job.monoid.any
  BY <1>1, JobsAssumption DEF Typed, LockFree
<1>5. CASE job.monoid.atomicUpdate /\ f = 2 /\ Goto(t, "fast")
  <2>1. RowAt(Slot(t)) = i /\ Holds(Slot(t), i)
    BY <1>1, <1>2, <1>5 DEF Holds, RowAt
  <2>2. MaskAllows(i)
    BY <1>1, <1>2, <2>1 DEF SumsOK
  <2> QED
    BY <1>1, <1>4, <1>5, <2>1, <2>2, FindGoto
<1>6. CASE MaskedOut(f) /\ Advance(t)
  BY <1>1, <1>3, <1>6, FindAdvance
<1>7. CASE ~MaskedOut(f) /\ Goto(t, "lock")
  BY <1>1, <1>3, <1>7, FindGoto
<1> QED
  BY <1>5, <1>6, <1>7 DEF GusFind

-----------------------------------------------------------------------------
(* Taking and giving up the lock *)

LEMMA LockSums ==
  ASSUME PInv, Summing, NEW t \in Team, InNumeric(t), pc[t] = "lock",
         UNCHANGED <<job, hsize, phase, Hx>>,
         NEW e, e = Hf[Slot(t)], SetFlag(t, Locked(e)), hf' = [hf EXCEPT ![t] = e],
         NEW label \in {"write", "update", "unlock", "restore"}, Goto(t, label), e.f # 3,
         label = "write" => e.f # 2,
         label \in {"update", "unlock"} => e.f = 2 /\ RowAt(Slot(t)) = Index(t),
         label = "unlock" => job.monoid.any, label = "update" => ~job.monoid.any,
         label = "restore" => e.f = 2 /\ ~UseGustavson,
         e.f = 1 => job.mask = "M", job.mask = "M" /\ MaskStored => Occupied(Slot(t))
  PROVE  Summing' /\ HoldsKept
<1>1. /\ Steps(t) /\ Running(t) /\ Typed /\ phase = "numeric" /\ MaskOK /\ SumsOK
      /\ label \in Labels
  BY DEF Steps, Moves, InNumeric, PInv, LInv, Summing, Numeric, Labels
<1>2. PICK s \in SlotIndices : s = Slot(t)
  BY <1>1, TaskSlot
<1>3. PICK i \in Rows : i = Index(t)
  BY <1>1, TaskSlot
<1>4. pc'[t] = label /\ Slot(t)' = s /\ Index(t)' = i /\ InNumeric(t)'
  <2>1. pc'[t] = label /\ Slot(t)' = Slot(t) /\ InNumeric(t)' = InNumeric(t)
    BY <1>1, GotoFrame
  <2> QED
    BY <1>2, <1>3, <2>1 DEF Goto, Index, ToScatter, UseGustavson
<1>5. /\ e \in Entries /\ Hf'[s].h = e.h /\ Hf'[s].f = 3
      /\ \A r \in SlotIndices : r # s => Hf'[r] = Hf[r]
  BY <1>1, <1>2 DEF Typed, SetFlag, Locked, Entry
<1>6. hf'[t] = e /\ \A u \in Team : u # t => hf'[u] = hf[u]
  BY <1>1 DEF Typed
<1>7. ~NoLocks /\ \A u \in Team : ~Holder(u, s)
  <2>1. ~NoLocks
    BY DEF PInv, LInv, Labelled
  <2>2. \A u \in Team : ~(Owns(u) /\ Slot(u) = s)
    BY <1>2 DEF PInv, LInv, LockSound
  <2> QED
    BY <2>1, <2>2 DEF Holder, Owns, NoLocks
<1>8. /\ \A u \in Team : u # t => (Holder(u, s)' <=> Holder(u, s))
      /\ UseGustavson' <=> UseGustavson
  BY <1>1, <1>6, OthersHold
<1>9. RowAt(s)' = RowAt(s)
  BY <1>2, <1>5, <1>8 DEF RowAt
<1>10. RowHeld(t)' = IF label = "restore" THEN e.h - 1 ELSE i
  BY <1>4, <1>6 DEF RowHeld
<1>11. Holder(t, s)' <=> label # "write"
  BY <1>4 DEF Holder
<1>12. ASSUME NEW k \in Rows
       PROVE  Holds(s, k)' <=> Holds(s, k)
  <2>1. Holds(s, k) <=> e.f = 2 /\ RowAt(s) = k
    BY <1>2, <1>7 DEF Holds
  <2>2. Holds(s, k)' <=> Holder(t, s)' /\ RowHeld(t)' = k
    BY <1>5, <1>7, <1>8 DEF Holds
  <2>3. CASE label = "write"
    BY <1>11, <2>1, <2>2, <2>3
  <2>4. CASE label \in {"update", "unlock"}
    BY <1>2, <1>3, <1>10, <1>11, <2>1, <2>2, <2>4
  <2>5. CASE label = "restore"
    <3>1. RowAt(s) = e.h - 1
      BY <1>2, <2>5 DEF RowAt
    <3> QED
      BY <1>10, <1>11, <2>1, <2>2, <2>5, <3>1
  <2> QED
    BY <2>3, <2>4, <2>5
<1>13. Added(i)' = Added(i) \/ (job.monoid.any /\ Holds(s, i))
  <2>1. label # "unlock" => Added(i)' = Added(i)
    BY <1>1, <1>3, AddedStep
  <2>2. label = "unlock" => Holds(s, i)
    BY <1>2, <1>3 DEF Holds
  <2> QED
    BY <2>1, <2>2
<1>14. TaskOK(t)'
  <2>1. MaskAllows(i) /\ (MaskAllows(i)' <=> MaskAllows(i))
    BY <1>1, <1>3 DEF SumsOK, TaskOK, MaskAllows
  <2>2. label = "update" => ~job'.monoid.any
    OBVIOUS
  <2> QED
    BY <1>4, <2>1, <2>2 DEF TaskOK, MaskAllows
<1>15. SumsOK' /\ HoldsKept
  BY <1>1, <1>2, <1>3, <1>5, <1>6, <1>12, <1>13, <1>14, KeepSums
<1>16. MaskOK'
  <2>1. Hf'[s].f # 1 /\ (Hf[s].f = 1 => job.mask = "M")
    BY <1>2, <1>5
  <2>2. Occupied(s) => Occupied(s)'
    BY <1>2, <1>5, <1>8 DEF Occupied
  <2>3. Occupied(s)' /\ job.mask = "M" /\ MaskStored => RowAt(s)' \in job.Mtrue
    BY <1>1, <1>2, <1>9 DEF MaskOK
  <2> QED
    BY <1>1, <1>5, <1>9, <2>1, <2>2, <2>3, MaskStep
<1> QED
  BY <1>1, <1>15, <1>16 DEF Summing, Numeric

LEMMA HashLockSums ==
  ASSUME PInv, PInv', Summing, NEW t \in Team, HashLock(t)
  PROVE  Summing' /\ HoldsKept
<1> DEFINE e == Hf[Slot(t)]
           i == Index(t)
<1>1. /\ InNumeric(t) /\ Running(t) /\ pc[t] = "lock" /\ UNCHANGED <<job, hsize, phase, Hx>>
      /\ e.f # 3 /\ SetFlag(t, Locked(e)) /\ hf' = [hf EXCEPT ![t] = e] /\ ~UseGustavson
      /\ Typed /\ phase = "numeric" /\ Hashing /\ NumericOK
  BY DEF HashLock, At, InNumeric, MayLock, PInv, LInv, TInv, Summing, Numeric, Hashing
<1>2. PICK label \in {"write", "update", "unlock", "restore"} :
        /\ Goto(t, label)
        /\ label = "write" => IsNew(e)
        /\ label \in {"update", "unlock"} => IsMine(e, i)
        /\ label = "unlock" => job.monoid.any
        /\ label = "update" => ~job.monoid.any
        /\ label = "restore" => ~IsNew(e) /\ ~IsMine(e, i)
  BY DEF HashLock
<1>3. /\ Slot(t) \in SlotIndices /\ e \in Entries /\ EntryOK(e) /\ MayTake(t) /\ i \in Nat
      /\ hf[t] \in Entries
  BY <1>1, TaskSlot DEF NumericOK
<1>4. InTable("M") => e.h = i + 1
  BY <1>1, <1>3 DEF MayTake
<1>5. IsNew(e) => e.f # 2
  BY DEF IsNew, Empty, Entry
<1>6. IsMine(e, i) => e.f = 2 /\ e.h = i + 1
  <2>1. CASE InTable("M")
    <3>1. IsMine(e, i) => e.f # 1 /\ e.f # 3 /\ e.f # 0 /\ e.f \in 0 .. 3
      BY <1>1, <1>3, <1>4, <2>1 DEF IsMine, EntryOK, Entries
    <3> QED
      BY <1>4, <2>1, <3>1
  <2>2. CASE ~InTable("M")
    BY <2>2 DEF IsMine, Unlocked, Entry
  <2> QED
    BY <2>1, <2>2
<1>7. RowAt(Slot(t)) = e.h - 1 /\ e.h \in Nat
  BY <1>1, <1>3 DEF RowAt, Entries
<1>8. label = "restore" => e.f = 2
  <2>1. SUFFICES ASSUME label = "restore" PROVE e.f = 2
    OBVIOUS
  <2>2. ~InTable("M") /\ e # Empty /\ e # Unlocked(i)
    BY <1>2, <2>1 DEF IsNew, IsMine
  <2>3. e.f # 1 /\ e.f \in 0 .. 3
    BY <1>1, <1>3, <2>2 DEF MayTake, Entries
  <2>4. e.f = 0 => e = Empty
    BY <1>3 DEF EntryOK, Empty, Entry, Entries
  <2> QED
    BY <1>1, <2>2, <2>3, <2>4
<1>9. e.f = 1 => job.mask = "M"
  BY <1>1, <1>3 DEF MayTake, InTable
<1>10. job.mask = "M" /\ MaskStored => Occupied(Slot(t))
  <2>1. job.mask = "M" /\ MaskStored => InTable("M")
    BY <1>1 DEF MaskStored, Scattered, InTable
  <2> QED
    BY <1>1, <1>3, <1>4, <2>1 DEF Occupied
<1>11. label \in {"update", "unlock"} => e.f = 2 /\ RowAt(Slot(t)) = i
  BY <1>2, <1>3, <1>6, <1>7
<1> HIDE DEF e, i
<1>12. label = "write" => e.f # 2
  BY <1>2, <1>5
<1>13. e = Hf[Slot(t)] /\ i = Index(t)
  BY DEF e, i
<1> QED
  BY <1>1, <1>2, <1>8, <1>9, <1>10, <1>11, <1>12, <1>13, LockSums

LEMMA GusLockSums ==
  ASSUME PInv, Summing, NEW t \in Team, GusLock(t)
  PROVE  Summing' /\ HoldsKept
<1> DEFINE e == Hf[Slot(t)]
           i == Index(t)
           new == IF job.mask = "M" THEN 1 ELSE 0
<1>1. /\ InNumeric(t) /\ Running(t) /\ pc[t] = "lock" /\ UNCHANGED <<job, hsize, phase, Hx>>
      /\ e.f # 3 /\ SetFlag(t, Locked(e)) /\ hf' = [hf EXCEPT ![t] = e] /\ UseGustavson
      /\ Typed /\ phase = "numeric" /\ MaskOK /\ SumsOK
  BY DEF GusLock, At, InNumeric, MayLock, PInv, LInv, Summing, Numeric
<1>2. PICK label \in {"write", "update", "unlock"} :
        /\ Goto(t, label)
        /\ label = "write" => e.f = new
        /\ label \in {"update", "unlock"} => e.f # new
        /\ label = "unlock" => job.monoid.any
        /\ label = "update" => ~job.monoid.any
  BY DEF GusLock
<1>3. /\ Slot(t) \in SlotIndices /\ e \in Entries /\ Slot(t) = i
  BY <1>1, TaskSlot
<1>4. MaskAllows(i)
  BY <1>1 DEF SumsOK, TaskOK
<1>5. e.f # (IF job.mask = "M" THEN 0 ELSE 1)
  BY <1>1, <1>3, <1>4, GusMask
<1>6. e.f \in 0 .. 3
  BY <1>3 DEF Entries
<1>7. e.f # new => e.f = 2
  BY <1>1, <1>5, <1>6
<1>8. RowAt(Slot(t)) = i
  BY <1>1, <1>3 DEF RowAt
<1>9. job.mask = "M" /\ MaskStored => Occupied(Slot(t))
  BY <1>1, <1>5 DEF Occupied
<1>10. e.f = 1 => job.mask = "M"
  BY <1>5
<1>11. label = "write" => e.f # 2
  BY <1>2
<1> HIDE DEF e, i, new
<1>12. e = Hf[Slot(t)] /\ i = Index(t)
  BY DEF e, i
<1> QED
  BY <1>1, <1>2, <1>7, <1>8, <1>9, <1>10, <1>11, <1>12, LockSums

\* Unlocking, as C(i,j) or with what was there before
LEMMA UnlockSums ==
  ASSUME PInv, PInv', Summing, NEW t \in Team, InNumeric(t), pc[t] \in {"unlock", "restore"},
         UNCHANGED <<job, hsize, phase, hf, Hx>>,
         NEW e, SetFlag(t, e), e.f = 2, Rehash(t) \/ Advance(t),
         NEW i \in Rows, i = Index(t), Added(i)' = Added(i),
         UseGustavson \/ e.h = RowHeld(t) + 1, RowHeld(t) \in Rows,
         Occupied(Slot(t)) => RowAt(Slot(t)) = RowHeld(t),
         Hf[Slot(t)].f = 1 => job.mask = "M"
  PROVE  Summing' /\ HoldsKept
<1>1. /\ Steps(t) /\ Running(t) /\ Typed /\ phase = "numeric" /\ MaskOK /\ SumsOK
      /\ Numeric
  BY DEF Steps, Moves, InNumeric, PInv, LInv, Summing, Numeric
<1>2. PICK s \in SlotIndices : s = Slot(t)
  BY <1>1, TaskSlot
<1>4. PICK k \in Rows : k = RowHeld(t)
  OBVIOUS
<1>5. pc'[t] = "find"
  BY RoundOrOut DEF PInv
<1>6. /\ Hf'[s] = e /\ \A r \in SlotIndices : r # s => Hf'[r] = Hf[r]
  BY <1>1, <1>2 DEF Typed, SetFlag
<1>7. UseGustavson' <=> UseGustavson
  BY DEF UseGustavson
<1>8. RowAt(s)' = k
  <2>1. CASE UseGustavson
    <3>1. pc[t] # "restore" /\ Slot(t) = Index(t)
      BY <1>1, <2>1, TaskSlot DEF PInv, RestoreOK
    <3> QED
      BY <1>2, <1>4, <1>7, <2>1, <3>1 DEF RowAt, RowHeld
  <2>2. CASE ~UseGustavson
    BY <1>4, <1>6, <1>7, <2>2 DEF RowAt, Rows
  <2> QED
    BY <2>1, <2>2
<1>9. Holds(s, k)
  BY <1>2, <1>4 DEF Holds, Holder
<1>10. Holds(s, k)'
  BY <1>6, <1>8 DEF Holds
<1>11. HoldsOne /\ HoldsOne'
  BY <1>1, HoldsOneNow, HoldsOneNext DEF Numeric
<1>12. SlotIndices' = SlotIndices
  BY DEF SlotIndices
<1>13. \A r \in Rows : (Holds(s, r) <=> r = k) /\ (Holds(s, r)' <=> r = k)
  BY <1>9, <1>10, <1>11, <1>12 DEF HoldsOne
<1>14. TaskOK(t)'
  BY <1>5 DEF TaskOK
<1>16. SumsOK' /\ HoldsKept
  BY <1>1, <1>2, <1>6, <1>13, <1>14, KeepSums
<1>17. MaskOK'
  <2>1. Hf'[s].f # 1 /\ (Hf[s].f = 1 => job.mask = "M")
    BY <1>2, <1>6
  <2>2. Occupied(s) => RowAt(s)' = RowAt(s) /\ Occupied(s)'
    <3>1. Occupied(s)'
      BY <1>4, <1>6, <1>7 DEF Occupied, Rows
    <3> QED
      BY <1>2, <1>4, <1>8, <3>1
  <2>3. job.mask = "M" => k \in job.Mtrue
    <3>1. MaskAllows(k)
      BY <1>1, <1>9 DEF SumsOK
    <3> QED
      BY <3>1 DEF MaskAllows
  <2> QED
    BY <1>1, <1>6, <1>8, <2>1, <2>2, <2>3, MaskStep
<1> QED
  BY <1>1, <1>16, <1>17 DEF Summing, Numeric

LEMMA HashUnlockSums ==
  ASSUME PInv, PInv', Summing, NEW t \in Team, HashUnlock(t)
  PROVE  Summing' /\ HoldsKept
<1>1. /\ InNumeric(t) /\ Running(t) /\ pc[t] = "unlock" /\ ~UseGustavson /\ Hashing
      /\ UNCHANGED <<job, hsize, phase, hf, Hx>> /\ SetFlag(t, Unlocked(Index(t))) /\ Advance(t)
      /\ Typed /\ phase = "numeric" /\ Steps(t)
  BY DEF HashUnlock, At, InNumeric, PInv, LInv, Summing, Numeric, Hashing, Steps, Moves
<1>2. PICK i \in Rows : i = Index(t) /\ i \in Nat /\ Slot(t) \in SlotIndices
  BY <1>1, TaskSlot
<1>3. Added(i)' = Added(i)
  BY <1>1, AddedStep
<1>4. Owns(t)
  BY <1>1 DEF Owns
<1>5. Hf[Slot(t)].f = 3 /\ (Hf[Slot(t)].h = 0 \/ Hf[Slot(t)].h = i + 1)
  BY <1>1, <1>2, <1>4, OwnerTakes DEF PInv, LInv, LockSound
<1>6. RowHeld(t) = i
  BY <1>1, <1>2 DEF RowHeld
<1>7. Occupied(Slot(t)) => RowAt(Slot(t)) = i
  BY <1>1, <1>2, <1>5 DEF Occupied, RowAt
<1>8. Unlocked(i).f = 2 /\ Unlocked(i).h = i + 1
  BY DEF Unlocked, Entry
<1> QED
  BY <1>1, <1>2, <1>3, <1>5, <1>6, <1>7, <1>8, UnlockSums

LEMMA HashRestoreSums ==
  ASSUME PInv, PInv', Summing, NEW t \in Team, HashRestore(t)
  PROVE  Summing' /\ HoldsKept
<1>1. /\ InNumeric(t) /\ Running(t) /\ pc[t] = "restore" /\ ~UseGustavson /\ Hashing
      /\ UNCHANGED <<job, hsize, phase, hf, Hx>> /\ SetFlag(t, hf[t]) /\ Rehash(t)
      /\ Typed /\ phase = "numeric" /\ Steps(t)
  BY DEF HashRestore, At, InNumeric, PInv, LInv, Summing, Numeric, Hashing, Steps, Moves
<1>2. PICK i \in Rows : i = Index(t) /\ Slot(t) \in SlotIndices /\ hf[t] \in Entries
  BY <1>1, TaskSlot
<1>3. Added(i)' = Added(i)
  BY <1>1, AddedStep
<1>4. Owns(t)
  BY <1>1 DEF Owns
<1>5. Hf[Slot(t)].f = 3 /\ Hf[Slot(t)].h = hf[t].h /\ hf[t].h # 0 /\ hf[t].f = 2
  BY <1>1, <1>2, <1>4, OwnerTakes DEF PInv, LInv, LockSound
<1>6. RowHeld(t) = hf[t].h - 1 /\ RowHeld(t) \in Rows /\ hf[t].h = RowHeld(t) + 1
  BY <1>1, <1>2, <1>5, TeamIsFinite DEF RowHeld, Entries, Rows
<1>7. RowAt(Slot(t)) = RowHeld(t)
  BY <1>1, <1>5, <1>6 DEF RowAt
<1>8. PICK e : e = hf[t]
  OBVIOUS
<1>9. SetFlag(t, e) /\ e.f = 2 /\ e.h = RowHeld(t) + 1 /\ Hf[Slot(t)].f # 1
  <2>1. SetFlag(t, e)
    BY <1>1, <1>8 DEF SetFlag
  <2>2. e.f = 2 /\ e.h = RowHeld(t) + 1
    BY <1>5, <1>6, <1>8
  <2>3. Hf[Slot(t)].f # 1
    BY <1>5
  <2> QED
    BY <2>1, <2>2, <2>3
<1> QED
  BY <1>1, <1>2, <1>3, <1>6, <1>7, <1>9, UnlockSums

LEMMA GusUnlockSums ==
  ASSUME PInv, PInv', Summing, NEW t \in Team, GusUnlock(t)
  PROVE  Summing' /\ HoldsKept
<1>1. /\ InNumeric(t) /\ Running(t) /\ pc[t] = "unlock" /\ UseGustavson
      /\ UNCHANGED <<job, hsize, phase, hf, Hx>> /\ SetFlag(t, Flag(2)) /\ Advance(t)
      /\ Typed /\ phase = "numeric" /\ Steps(t) /\ MaskOK /\ SumsOK
  BY DEF GusUnlock, At, InNumeric, PInv, LInv, Summing, Numeric, Steps, Moves
<1>2. PICK i \in Rows : i = Index(t) /\ Slot(t) = i /\ i \in SlotIndices
  BY <1>1, TaskSlot
<1>3. Added(i)' = Added(i)
  BY <1>1, AddedStep
<1>4. RowHeld(t) = i /\ RowAt(Slot(t)) = i
  BY <1>1, <1>2 DEF RowHeld, RowAt
<1>5. MaskAllows(i)
  BY <1>1, <1>2 DEF SumsOK, TaskOK
<1>6. Hf[i].f = 1 => job.mask = "M"
  BY <1>1, <1>2, <1>5, GusMask
<1>7. Flag(2).f = 2
  BY DEF Flag, Entry
<1> QED
  BY <1>1, <1>2, <1>3, <1>4, <1>6, <1>7, UnlockSums

-----------------------------------------------------------------------------
(* Adding a term *)

\* The task adds its term to the slot of its row, and the slot keeps its row.
LEMMA PutSums ==
  ASSUME PInv, PInv', Summing, NEW t \in Team, InNumeric(t), pc[t] # "put",
         UNCHANGED <<job, hsize, phase, hf, Hf>>,
         Advance(t) \/ (Goto(t, "unlock") /\ pc[t] # "unlock"),
         NEW s \in SlotIndices, s = Slot(t), NEW i \in Rows, i = Index(t),
         NEW value, Hx' = [Hx EXCEPT ![s] = value], Advance(t) => pc[t] # "unlock",
         MaskAllows(i), IsPlace(s, i), Holds(s, i)',
         job.monoid.any => value = {Term(t)},
         ~job.monoid.any => value = Added(i) \cup {Term(t)}
  PROVE  Summing' /\ HoldsKept
<1>1. /\ Steps(t) /\ Running(t) /\ Typed /\ phase = "numeric" /\ MaskOK /\ SumsOK
      /\ Numeric /\ "unlock" \in Labels
  BY DEF Steps, Moves, InNumeric, PInv, LInv, Summing, Numeric, Labels
<1>2. Added(i)' = Added(i) \cup {Term(t)} /\ Terms(i)' = Terms(i) /\ Term(t) \in Terms(i)
  BY <1>1, AddedStep, TermOf
<1>3. Hx'[s] = value /\ \A r \in SlotIndices : r # s => Hx'[r] = Hx[r]
  BY DEF PInv, UInv
<1>4. \A k \in Rows : Holds(s, k) => k = i
  BY <1>1, HoldsIsPlace, OneRow
<1>5. \A k \in Rows : Holds(s, k)' => k = i
  <2>1. HoldsOne' /\ SlotIndices' = SlotIndices
    BY <1>1, HoldsOneNext DEF Numeric, SlotIndices
  <2> QED
    BY <2>1 DEF HoldsOne
<1>6. ValueOK(s, i)'
  BY <1>2, <1>3 DEF ValueOK
<1>7. TaskOK(t)'
  <2>1. CASE Advance(t)
    <3>1. pc'[t] = "find"
      BY <2>1, RoundOrOut DEF PInv
    <3> QED
      BY <3>1 DEF TaskOK
  <2>2. CASE Goto(t, "unlock")
    <3>1. pc'[t] = "unlock" /\ Index(t)' = i
      BY <1>1, <2>2, GotoFrame DEF Goto, Index, ToScatter, UseGustavson
    <3> QED
      BY <3>1 DEF TaskOK, MaskAllows
  <2> QED
    BY <2>1, <2>2
<1>8. \A k \in Rows : Holds(s, k)' => MaskAllows(k) /\ Terms(k) # {} /\ ValueOK(s, k)'
  BY <1>2, <1>5, <1>6
<1>9. \A k \in Rows : Holds(s, k) => Holds(s, k)'
  BY <1>4
<1>10. SumsOK' /\ HoldsKept
  BY <1>1, <1>3, <1>7, <1>8, <1>9, SumsStep
<1> QED
  BY <1>1, <1>10, MaskSame DEF Summing, Numeric

LEMMA AccessSums ==
  ASSUME PInv, PInv', Summing, NEW t \in Team, AccessHx(t)
  PROVE  Summing' /\ HoldsKept
<1>1. /\ InNumeric(t) /\ Running(t) /\ UNCHANGED <<job, hsize, phase, hf, Hf>>
      /\ Typed /\ phase = "numeric" /\ MaskOK /\ SumsOK /\ Numeric
      /\ pc[t] \in {"write", "update", "store", "fast"} /\ "unlock" \in Labels
      /\ "store" \in Labels
  BY DEF AccessHx, WriteHx, UpdateHx, StoreHx, FastUpdateHx, At, InNumeric, PInv, LInv,
     Summing, Numeric, Labels
<1>2. PICK s \in SlotIndices : s = Slot(t)
  BY <1>1, TaskSlot
<1>3. PICK i \in Rows : i = Index(t)
  BY <1>1, TaskSlot
<1>4. MaskAllows(i) /\ TaskOK(t)
  BY <1>1, <1>3 DEF SumsOK, TaskOK
<1>5. IsPlace(s, i)
  <2>1. CASE UseGustavson \/ pc[t] # "fast"
    <3>1. UseGustavson \/ (Owns(t) /\ pc[t] # "restore")
      BY <1>1, <2>1 DEF Owns
    <3> QED
      BY <1>1, <1>2, <1>3, <3>1, TaskPlace
  <2>2. CASE pc[t] = "fast"
    BY <1>1, <1>2, <1>3, <1>4, <2>2, HoldsIsPlace DEF TaskOK
  <2> QED
    BY <2>1, <2>2
<1>6. ASSUME Goto(t, "unlock") PROVE Holds(s, i)'
  <2>1. pc'[t] = "unlock" /\ Slot(t)' = s /\ InNumeric(t)' /\ Index(t)' = i
    <3>1. pc'[t] = "unlock" /\ Slot(t)' = Slot(t) /\ InNumeric(t)' = InNumeric(t)
      BY <1>1, <1>6, GotoFrame
    <3> QED
      BY <1>1, <1>2, <1>3, <1>6, <3>1 DEF Goto, Index, ToScatter, UseGustavson
  <2> QED
    BY <2>1 DEF Holds, Holder, RowHeld
<1>7. CASE WriteHx(t)
  <2>1. pc[t] = "write" /\ Hx' = [Hx EXCEPT ![s] = {Term(t)}] /\ Goto(t, "unlock")
    BY <1>2, <1>7 DEF WriteHx, At
  <2>2. ~job.monoid.any => Added(i) = {}
    <3>1. SUFFICES ASSUME ~job.monoid.any, Added(i) # {} PROVE FALSE
      OBVIOUS
    <3>2. PICK r \in SlotIndices : Holds(r, i)
      BY <1>1, <1>4, <3>1 DEF SumsOK
    <3>3. r = s
      BY <1>1, <1>5, <3>2, HoldsIsPlace, OnePlace
    <3>4. ~NoLocks
      BY <3>1 DEF NoLocks, LockFree
    <3>5. Owns(t)
      BY <1>1, <2>1, <3>4 DEF Owns, NoLocks
    <3>6. Hf[s].f = 3
      BY <1>2, <3>5 DEF PInv, LInv, LockSound
    <3>7. PICK u \in Team : Holder(u, s)
      BY <3>2, <3>3, <3>6 DEF Holds
    <3>8. Owns(u) /\ Slot(u) = s
      BY <3>4, <3>7 DEF Holder, Owns, NoLocks
    <3>9. u = t
      BY <1>2, <3>5, <3>8 DEF PInv, LInv, LockSound
    <3> QED
      BY <2>1, <3>7, <3>9 DEF Holder
  <2>3. PICK value : value = {Term(t)}
    OBVIOUS
  <2>4. ~job.monoid.any => value = Added(i) \cup {Term(t)}
    BY <2>2, <2>3
  <2>5. Hx' = [Hx EXCEPT ![s] = value]
    BY <2>1, <2>3
  <2>6. Holds(s, i)'
    BY <1>6, <2>1
  <2>7. pc[t] # "put" /\ pc[t] # "unlock"
    BY <2>1
  <2> QED
    BY <1>1, <1>2, <1>3, <1>4, <1>5, <2>1, <2>3, <2>4, <2>5, <2>6, <2>7, PutSums
<1>8. CASE (UpdateHx(t) /\ job.monoid.atomicUpdate) \/ StoreHx(t)
  <2>1. /\ pc[t] \in {"update", "store"} /\ Goto(t, "unlock")
        /\ Hx' = [Hx EXCEPT ![s] = Hx[s] \cup {Term(t)}]
    <3>1. CASE UpdateHx(t) /\ job.monoid.atomicUpdate
      BY <1>2, <3>1 DEF UpdateHx, At
    <3>2. CASE StoreHx(t)
      <4>1. pc[t] = "store" /\ Goto(t, "unlock")
            /\ Hx' = [Hx EXCEPT ![s] = zold[t] \cup {Term(t)}]
        BY <1>2, <3>2 DEF StoreHx, At
      <4>2. zold[t] = Hx[s]
        BY <1>2, <4>1 DEF PInv, UInv, UpdateExclusive
      <4> QED
        BY <4>1, <4>2
    <3> QED
      BY <1>8, <3>1, <3>2
  <2>2. ~job.monoid.any
    BY <1>4, <2>1 DEF TaskOK
  <2>3. Holds(s, i)
    BY <1>1, <1>2, <1>3, <2>1 DEF Holds, Holder, RowHeld
  <2>4. Hx[s] = Added(i)
    BY <1>1, <2>2, <2>3 DEF SumsOK, ValueOK
  <2>5. PICK value : value = Hx[s] \cup {Term(t)}
    OBVIOUS
  <2>6. Hx' = [Hx EXCEPT ![s] = value] /\ value = Added(i) \cup {Term(t)}
    BY <2>1, <2>4, <2>5
  <2>7. Holds(s, i)'
    BY <1>6, <2>1
  <2>8. pc[t] # "put" /\ pc[t] # "unlock"
    BY <2>1
  <2> QED
    BY <1>1, <1>2, <1>3, <1>4, <1>5, <2>1, <2>2, <2>6, <2>7, <2>8, PutSums
<1>9. CASE UpdateHx(t) /\ ~job.monoid.atomicUpdate
  <2>1. pc[t] = "update" /\ Goto(t, "store") /\ Hx' = Hx /\ Steps(t)
    BY <1>1, <1>9 DEF UpdateHx, At, Steps, Moves
  <2>2. pc'[t] = "store" /\ Slot(t)' = s /\ InNumeric(t)' /\ Index(t)' = i
    <3>1. pc'[t] = "store" /\ Slot(t)' = Slot(t) /\ InNumeric(t)' = InNumeric(t)
      BY <1>1, <2>1, GotoFrame
    <3> QED
      BY <1>1, <1>2, <1>3, <2>1, <3>1 DEF Goto, Index, ToScatter, UseGustavson
  <2>3. \A r : Holder(t, r)' <=> Holder(t, r)
    BY <1>1, <1>2, <2>1, <2>2 DEF Holder
  <2>4. RowHeld(t)' = RowHeld(t)
    BY <1>3, <2>1, <2>2 DEF RowHeld
  <2>5. Added(i)' = Added(i)
    BY <1>1, <2>1, AddedStep
  <2>6. TaskOK(t)'
    <3>1. ~job.monoid.any
      BY <1>4, <2>1 DEF TaskOK
    <3> QED
      BY <1>1, <1>4, <2>2, <3>1 DEF TaskOK, MaskAllows
  <2>7. SumsOK' /\ HoldsKept
    BY <1>1, <1>2, <1>3, <2>1, <2>3, <2>4, <2>5, <2>6, QuietSums
  <2> QED
    BY <1>1, <2>7, MaskSame DEF Summing, Numeric
<1>10. CASE FastUpdateHx(t)
  <2>1. /\ pc[t] = "fast" /\ Advance(t) /\ Hx' = [Hx EXCEPT ![s] = Hx[s] \cup {Term(t)}]
        /\ Steps(t)
    BY <1>1, <1>2, <1>10 DEF FastUpdateHx, At, Steps, Moves
  <2>2. ~job.monoid.any /\ Holds(s, i)
    BY <1>2, <1>3, <1>4, <2>1 DEF TaskOK
  <2>3. Hx[s] = Added(i)
    BY <1>1, <2>2 DEF SumsOK, ValueOK
  <2>4. Holds(s, i)'
    <3>1. /\ \A u \in Team : u # t =>
               RowHeld(u)' = RowHeld(u) /\ (Holder(u, s)' <=> Holder(u, s))
          /\ UseGustavson' <=> UseGustavson
      BY <1>1, <2>1, OthersHold
    <3>2. ~Holder(t, s) /\ RowAt(s)' = RowAt(s)
      BY <1>1, <2>1, <3>1 DEF Holder, RowAt
    <3> QED
      BY <1>1, <2>2, <3>1, <3>2 DEF Holds
  <2>5. PICK value : value = Hx[s] \cup {Term(t)}
    OBVIOUS
  <2>6. Hx' = [Hx EXCEPT ![s] = value] /\ value = Added(i) \cup {Term(t)}
    BY <2>1, <2>3, <2>5
  <2>7. pc[t] # "put" /\ pc[t] # "unlock"
    BY <2>1
  <2> QED
    BY <1>1, <1>2, <1>3, <1>4, <1>5, <2>1, <2>2, <2>4, <2>6, <2>7, PutSums
<1> QED
  BY <1>7, <1>8, <1>9, <1>10 DEF AccessHx

LEMMA GusPutAnySums ==
  ASSUME PInv, PInv', Summing, NEW t \in Team, GusPutAny(t)
  PROVE  Summing' /\ HoldsKept
<1>1. /\ InNumeric(t) /\ Running(t) /\ UNCHANGED <<job, hsize, phase, hf, zold, Hf>>
      /\ Typed /\ phase = "numeric" /\ MaskOK /\ SumsOK /\ Numeric
      /\ pc[t] = "put" /\ Advance(t) /\ Steps(t) /\ UseGustavson /\ job.monoid.any
  BY DEF GusPutAny, At, InNumeric, PInv, LInv, Labelled, NoLocks, LockFree,
     Summing, Numeric, Steps, Moves
<1>2. PICK s \in SlotIndices : s = Slot(t)
  BY <1>1, TaskSlot
<1>3. PICK i \in Rows : i = Index(t) /\ i = s
  BY <1>1, <1>2, TaskSlot
<1>4. Hx'[s] = {Term(t)} /\ \A r \in SlotIndices : r # s => Hx'[r] = Hx[r]
  BY <1>2 DEF GusPutAny, PInv, UInv
<1>5. MaskAllows(i) /\ Holds(s, i) /\ Term(t) \in Terms(i) /\ Terms(i)' = Terms(i)
  <2>1. TaskOK(t)
    BY <1>1 DEF SumsOK
  <2>2. MaskAllows(i) /\ Holds(s, i)
    BY <1>1, <1>2, <1>3, <2>1 DEF TaskOK
  <2>3. Term(t) \in Terms(i)
    BY <1>1, <1>3, TermOf
  <2>4. Terms(i)' = Terms(i)
    BY <1>1, AddedStep
  <2> QED
    BY <2>2, <2>3, <2>4
<1>6. pc'[t] = "find"
  BY <1>1, RoundOrOut DEF PInv
<1>7. TaskOK(t)'
  BY <1>6 DEF TaskOK
<1>8. Holds(s, i)'
  <2>1. /\ \A u \in Team : u # t =>
             RowHeld(u)' = RowHeld(u) /\ (Holder(u, s)' <=> Holder(u, s))
        /\ UseGustavson' <=> UseGustavson
    BY <1>1, OthersHold
  <2>2. ~Holder(t, s) /\ RowAt(s)' = RowAt(s)
    BY <1>1, <2>1 DEF Holder, RowAt
  <2> QED
    BY <1>1, <1>5, <2>1, <2>2 DEF Holds
<1>9. \A k \in Rows : (Holds(s, k) => k = i) /\ (Holds(s, k)' => k = i)
  <2>1. HoldsOne /\ HoldsOne' /\ SlotIndices' = SlotIndices
    BY <1>1, HoldsOneNow, HoldsOneNext DEF Numeric, SlotIndices
  <2> QED
    BY <1>5, <1>8, <2>1 DEF HoldsOne
<1>10. ValueOK(s, i)'
  BY <1>1, <1>4, <1>5 DEF ValueOK
<1>11. \A k \in Rows : Holds(s, k)' => MaskAllows(k) /\ Terms(k) # {} /\ ValueOK(s, k)'
  BY <1>5, <1>9, <1>10
<1>12. \A k \in Rows : Holds(s, k) => Holds(s, k)'
  BY <1>8, <1>9
<1>13. SumsOK' /\ HoldsKept
  BY <1>1, <1>2, <1>3, <1>4, <1>7, <1>8, <1>11, <1>12, SumsStep
<1> QED
  BY <1>1, <1>13, MaskSame DEF Summing, Numeric

LEMMA GusFlagAnySums ==
  ASSUME PInv, PInv', Summing, NEW t \in Team, GusFlagAny(t)
  PROVE  Summing' /\ HoldsKept
<1>1. /\ InNumeric(t) /\ Running(t) /\ UNCHANGED <<job, hsize, phase, hf, zold, Hx>>
      /\ Typed /\ phase = "numeric" /\ MaskOK /\ SumsOK /\ Numeric
      /\ pc[t] = "flag" /\ Goto(t, "put") /\ Steps(t) /\ UseGustavson /\ job.monoid.any
      /\ "put" \in Labels /\ SetFlag(t, Flag(2))
  BY DEF GusFlagAny, At, InNumeric, PInv, LInv, Labelled, NoLocks, LockFree,
     Summing, Numeric, Steps, Moves, Labels
<1>2. PICK s \in SlotIndices : s = Slot(t)
  BY <1>1, TaskSlot
<1>3. PICK i \in Rows : i = Index(t) /\ i = s
  BY <1>1, <1>2, TaskSlot
<1>4. Hf'[s] = Flag(2) /\ Flag(2).f = 2 /\ \A r \in SlotIndices : r # s => Hf'[r] = Hf[r]
  BY <1>1, <1>2 DEF SetFlag, Typed, Flag, Entry
<1>5. MaskAllows(i) /\ Term(t) \in Terms(i) /\ Terms(i)' = Terms(i) /\ Added(i)' = Added(i)
  <2>1. TaskOK(t)
    BY <1>1 DEF SumsOK
  <2>2. MaskAllows(i)
    BY <1>1, <1>3, <2>1 DEF TaskOK
  <2>3. Term(t) \in Terms(i)
    BY <1>1, <1>3, TermOf
  <2>4. Terms(i)' = Terms(i)
    BY <1>1, AddedStep
  <2>5. Added(i)' = Added(i)
    BY <1>1, AddedStep
  <2> QED
    BY <2>2, <2>3, <2>4, <2>5
<1>6. pc'[t] = "put" /\ Slot(t)' = s /\ Index(t)' = i
  <2>1. pc'[t] = "put" /\ Slot(t)' = Slot(t)
    BY <1>1, GotoFrame
  <2> QED
    BY <1>1, <1>2, <1>3, <2>1 DEF Goto, Index, ToScatter, UseGustavson
<1>7. RowAt(s) = i /\ RowAt(s)' = i
  BY <1>1, <1>3 DEF RowAt, UseGustavson
<1>8. Holds(s, i)'
  BY <1>4, <1>7 DEF Holds
<1>9. \A k \in Rows : (Holds(s, k) => k = i) /\ (Holds(s, k)' => k = i)
  <2>1. HoldsOne' /\ SlotIndices' = SlotIndices
    BY <1>1, HoldsOneNext DEF Numeric, SlotIndices
  <2>2. \A k \in Rows : Holds(s, k) => s = k
    BY <1>1, HoldsIsPlace DEF IsPlace
  <2> QED
    BY <1>3, <1>8, <2>1, <2>2 DEF HoldsOne
<1>10. ValueOK(s, i)'
  BY <1>1, <1>6 DEF ValueOK
<1>11. TaskOK(t)'
  BY <1>1, <1>5, <1>6, <1>8 DEF TaskOK, MaskAllows, Holds
<1>12. \A k \in Rows : Holds(s, k)' => MaskAllows(k) /\ Terms(k) # {} /\ ValueOK(s, k)'
  BY <1>5, <1>9, <1>10
<1>13. \A k \in Rows : Holds(s, k) => Holds(s, k)'
  BY <1>8, <1>9
<1>14. SumsOK' /\ HoldsKept
  BY <1>1, <1>2, <1>3, <1>4, <1>5, <1>8, <1>11, <1>12, <1>13, SumsStep
<1>15. MaskOK'
  <2>1. Hf[s].f = 1 => job.mask = "M"
    BY <1>1, <1>3, <1>5, GusMask
  <2>2. Occupied(s)'
    BY <1>1, <1>4 DEF Occupied, UseGustavson
  <2>3. job.mask = "M" => i \in job.Mtrue
    BY <1>5 DEF MaskAllows
  <2> QED
    BY <1>1, <1>4, <1>7, <2>1, <2>2, <2>3, MaskStep
<1> QED
  BY <1>1, <1>14, <1>15 DEF Summing, Numeric

-----------------------------------------------------------------------------
(* All steps of phase 2 *)

\* A step to another label than "restore" keeps RestoreOK
LEMMA NoRestore ==
  ASSUME Typed, RestoreOK, NEW t \in Team, UNCHANGED <<hsize>>,
         \/ Rehash(t) \/ Advance(t)
         \/ \E label \in Labels : Goto(t, label) /\ (label = "restore" => ~UseGustavson)
  PROVE  RestoreOK'
<1>1. PICK label \in Labels :
        pc' = [pc EXCEPT ![t] = label] /\ (label = "restore" => ~UseGustavson)
  BY DEF Rehash, Advance, Goto, Labels
<1>2. UseGustavson' <=> UseGustavson
  BY DEF UseGustavson
<1>3. \A u \in Team : pc'[u] = IF u = t THEN label ELSE pc[u]
  BY <1>1 DEF Typed
<1> QED
  BY <1>1, <1>2, <1>3 DEF RestoreOK

LEMMA RestoreSame ==
  ASSUME RestoreOK, UNCHANGED <<hsize, pc>>
  PROVE  RestoreOK'
BY DEF RestoreOK, UseGustavson

LEMMA TaskRestore ==
  ASSUME Typed, RestoreOK, NEW t \in Team, Task(t)
  PROVE  RestoreOK'
<1>0. /\ \A label \in {"fast", "lock", "write", "flag", "put", "unlock", "update", "store"} :
           label \in Labels /\ label # "restore"
      /\ "restore" \in Labels
  BY DEF Labels
<1>1. CASE SkipFalse(t)
  BY <1>1, NoRestore DEF SkipFalse
<1>2. CASE HashTask(t)
  <2>1. UNCHANGED hsize
    BY <1>2 DEF HashTask, HashScatter, HashSkip, HashFind, HashLock, HashUnlock, HashRestore
  <2>2. CASE HashScatter(t) \/ HashSkip(t) \/ HashUnlock(t) \/ HashRestore(t)
    BY <2>1, <2>2, NoRestore DEF HashScatter, HashSkip, HashUnlock, HashRestore
  <2>3. CASE HashFind(t)
    BY <1>0, <2>1, <2>3, NoRestore DEF HashFind
  <2>4. CASE HashLock(t)
    <3>1. ~UseGustavson
      BY <2>4 DEF HashLock
    <3>2. \E label \in {"write", "update", "unlock", "restore"} : Goto(t, label)
      BY <2>4 DEF HashLock
    <3> QED
      BY <1>0, <2>1, <3>1, <3>2, NoRestore
  <2> QED
    BY <1>2, <2>2, <2>3, <2>4 DEF HashTask
<1>3. CASE GusTask(t)
  <2>1. UNCHANGED hsize
    BY <1>3 DEF GusTask, GusScatter, GusFindAny, GusFlagAny, GusPutAny, GusFind, GusLock,
       GusUnlock
  <2>2. CASE GusScatter(t) \/ GusPutAny(t) \/ GusUnlock(t)
    BY <2>1, <2>2, NoRestore DEF GusScatter, GusPutAny, GusUnlock
  <2>3. CASE GusFindAny(t) \/ GusFind(t)
    BY <1>0, <2>1, <2>3, NoRestore DEF GusFindAny, GusFind
  <2>4. CASE GusFlagAny(t) \/ GusLock(t)
    <3>1. \E label \in {"put", "write", "update", "unlock"} : Goto(t, label)
      BY <2>4 DEF GusFlagAny, GusLock
    <3> QED
      BY <1>0, <2>1, <3>1, NoRestore
  <2> QED
    BY <1>3, <2>2, <2>3, <2>4 DEF GusTask
<1>4. CASE AccessHx(t)
  <2>1. /\ UNCHANGED hsize
        /\ Advance(t) \/ \E label \in {"unlock", "store"} : Goto(t, label)
    BY <1>4 DEF AccessHx, WriteHx, UpdateHx, StoreHx, FastUpdateHx
  <2> QED
    BY <1>0, <2>1, NoRestore
<1>5. CASE Count(t) \/ Gather(t)
  BY <1>5, NoRestore DEF Count, Gather
<1> QED
  BY <1>1, <1>2, <1>3, <1>4, <1>5 DEF Task

LEMMA NextPInv == PInv /\ [Next]_vars => PInv'
<1> SUFFICES ASSUME PInv, [Next]_vars
             PROVE  PInv'
  OBVIOUS
<1>1. LInv' /\ UInv' /\ TInv'
  BY NextInv, NextUpdate, NextTable DEF PInv
<1>2. RestoreOK'
  <2>1. Typed /\ RestoreOK
    BY DEF PInv, LInv
  <2>2. CASE \E t \in Team : Task(t)
    BY <2>1, <2>2, TaskRestore
  <2>3. CASE Master \/ UNCHANGED vars
    <3>1. UNCHANGED <<hsize, pc>>
      BY <2>3 DEF Master, EndScatter, EndNumeric, Cumsum, EndGather, Barrier, vars, locals
    <3> QED
      BY <2>1, <3>1, RestoreSame
  <2> QED
    BY <2>2, <2>3 DEF Next, Finished
<1> QED
  BY <1>1, <1>2 DEF PInv

\* Every step of a task in phase 2 keeps the sums right
LEMMA TaskSums ==
  ASSUME PInv, PInv', Summing, NEW t \in Team, Task(t)
  PROVE  Summing' /\ HoldsKept
<1>1. phase = "numeric"
  BY DEF Summing, Numeric
<1>2. ~SkipFalse(t) /\ ~HashScatter(t) /\ ~GusScatter(t) /\ ~Count(t) /\ ~Gather(t)
  BY <1>1 DEF SkipFalse, HashScatter, GusScatter, Count, Gather
<1>3. CASE HashTask(t)
  BY <1>2, <1>3, HashSkipSums, HashFindSums, HashLockSums, HashUnlockSums, HashRestoreSums
     DEF HashTask
<1>4. CASE GusTask(t)
  BY <1>2, <1>4, GusFindAnySums, GusFlagAnySums, GusPutAnySums, GusFindSums, GusLockSums,
     GusUnlockSums DEF GusTask
<1>5. CASE AccessHx(t)
  BY <1>5, AccessSums
<1> QED
  BY <1>2, <1>3, <1>4, <1>5 DEF Task

-----------------------------------------------------------------------------
(* Phase 1 scatters the mask *)

\* The indices of the mask that task t has not put into the workspace yet
ToCome(t) ==
  {ToScatter(t)[p] : p \in {p \in DOMAIN ToScatter(t) :
     p > pos[t] \/ (p = pos[t] /\ (probe[t] = 0 \/ UseGustavson))}}

\* The task has taken an entry of another index out of the table
InHand(t) == ~UseGustavson /\ Running(t) /\ probe[t] # 0

MaskedAt(s) == Hf[s].f = 1 /\ Occupied(s)
InMaskAt(s) == MaskStored /\ MaskedAt(s) /\ RowAt(s) \in job.Mtrue

\* Index i of the mask is with task t
WithTask(t, i) == i \in ToCome(t) \/ (InHand(t) /\ hf[t].h = i + 1)

HandInMask(t) ==
  InHand(t) => hf[t].f = 1 /\ hf[t].h - 1 \in job.Mtrue /\ Index(t) \in job.Mtrue

\* No true index is lost: it is in the workspace, or with a task; and nothing
\* else is in the workspace
ScatterMask ==
  /\ MaskStored => \A i \in job.Mtrue : \/ \E s \in SlotIndices : MaskedAt(s) /\ RowAt(s) = i
                                        \/ \E t \in Team : WithTask(t, i)
  /\ \A s \in SlotIndices : Hf[s] = Empty \/ InMaskAt(s)
  /\ \A t \in Team : HandInMask(t)

LEMMA StoredPlaces ==
  ASSUME Typed, MaskStored, NEW t \in Team, NEW q \in Nat \ {0},
         ShareStart(t) + q <= ShareStart(t + 1)
  PROVE  q \in DOMAIN ToScatter(t)
<1>1. job.Mj \in Seq(Rows) /\ Len(job.Mj) \in Nat
  BY JobFields, LenProperties DEF Typed
<1> DEFINE first == ShareStart(t)
           last  == ShareStart(t + 1)
<1>2. first \in Nat /\ last \in Nat /\ last <= Len(job.Mj) /\ first + q <= last
  BY <1>1, ShareInRange DEF ShareStart
<1>3. ToScatter(t) = SubSeq(job.Mj, first + 1, last)
  BY MaskKinds DEF ToScatter, ShareStart, MaskStored, Scattered, InTable
<1> HIDE DEF first, last
<1>4. first + 1 \in Int /\ last \in Int /\ \A p \in first + 1 .. last : job.Mj[p] \in Rows
  BY <1>1, <1>2, ElementOfSeq
<1>5. /\ ToScatter(t) \in Seq(Rows)
      /\ Len(ToScatter(t)) = IF first + 1 <= last THEN last - (first + 1) + 1 ELSE 0
  BY <1>3, <1>4, SubSeqProperties
<1>6. DOMAIN ToScatter(t) = 1 .. Len(ToScatter(t))
  BY <1>5, LenProperties
<1>7. q <= last - (first + 1) + 1 /\ first + 1 <= last
  BY <1>2
<1> QED
  BY <1>2, <1>5, <1>6, <1>7

\* At first every index of the mask is to come.
LEMMA InitScatter == Init => ScatterMask
<1> SUFFICES ASSUME Init
             PROVE  ScatterMask
  OBVIOUS
<1>1. /\ Typed /\ phase = "scatter" /\ job \in Jobs
      /\ \A t \in Team : pos[t] = 1 /\ probe[t] = 0
      /\ \A s \in SlotIndices : Hf[s] = Empty
  BY InitInv DEF Init, LInv
<1>2. ASSUME MaskStored, NEW i \in job.Mtrue
      PROVE  \E t \in Team : i \in ToCome(t)
  <2> DEFINE n == Len(job.Mj)
  <2>1. job.Mj \in Seq(Rows) /\ n \in Nat /\ DOMAIN job.Mj = 1 .. n
    BY <1>1, JobFields, LenProperties
  <2>2. i \in {job.Mj[p] : p \in DOMAIN job.Mj}
    BY <1>1, <1>2, JobsAssumption
  <2>3. PICK p \in 1 .. n : job.Mj[p] = i
    BY <2>1, <2>2
  <2> HIDE DEF n
  <2>4. TeamSize \in 0 .. TeamSize /\ p - 1 \in 0 .. Cut(n, TeamSize) - 1
    BY <2>1, <2>3, CutEnds, TeamIsFinite
  <2>5. PICK t \in Team : Cut(n, t) <= p - 1 /\ p - 1 < Cut(n, t + 1)
    BY <2>1, <2>4, SharesCover
  <2>6. ShareStart(t) = Cut(n, t) /\ ShareStart(t + 1) = Cut(n, t + 1)
    BY DEF ShareStart, Cut, n
  <2>7. ShareStart(t) \in Nat /\ ShareStart(t + 1) \in Nat
    BY <2>1, ShareInRange DEF ShareStart, n
  <2>8. PICK q \in Nat \ {0} : p = ShareStart(t) + q
    <3>1. p - ShareStart(t) \in Nat \ {0} /\ p = ShareStart(t) + (p - ShareStart(t))
      BY <2>1, <2>3, <2>5, <2>6, <2>7
    <3> QED
      BY <3>1
  <2>9. ShareStart(t) + q <= ShareStart(t + 1)
    BY <2>3, <2>5, <2>6, <2>7, <2>8
  <2>10. q \in DOMAIN ToScatter(t)
    BY <1>1, <1>2, <2>9, StoredPlaces
  <2>11. ToScatter(t)[q] = i
    BY <1>1, <2>3, <2>8, <2>10, ScatterPlaces
  <2>12. q > pos[t] \/ (q = pos[t] /\ probe[t] = 0)
    BY <1>1
  <2> QED
    BY <2>10, <2>11, <2>12 DEF ToCome
<1>3. \A t \in Team : HandInMask(t)
  BY <1>1 DEF HandInMask, InHand
<1> QED
  BY <1>1, <1>2, <1>3 DEF ScatterMask, WithTask

LEMMA OthersScatter ==
  ASSUME Typed, NEW t \in Team, Steps(t), NEW u \in Team, u # t, hf'[u] = hf[u]
  PROVE  /\ \A i : WithTask(u, i)' <=> WithTask(u, i)
         /\ HandInMask(u)' <=> HandInMask(u)
<1>1. /\ Running(u)' = Running(u) /\ ToScatter(u)' = ToScatter(u)
      /\ probe'[u] = probe[u] /\ Index(u)' = Index(u) /\ pos'[u] = pos[u]
      /\ UNCHANGED <<job, hsize>>
  BY OthersInScatter, StepFrame DEF Steps
<1>2. (UseGustavson' <=> UseGustavson) /\ (InHand(u)' <=> InHand(u))
  BY <1>1 DEF UseGustavson, InHand
<1>3. ToCome(u)' = ToCome(u)
  BY <1>1, <1>2 DEF ToCome
<1> QED
  BY <1>1, <1>2, <1>3 DEF WithTask, HandInMask

\* A step of one task keeps the mask if what was with the task, or in its slot, is
\* there still.
LEMMA ScatterKept ==
  ASSUME Typed, ScatterMask, NEW t \in Team, Steps(t),
         \A u \in Team : u # t => hf'[u] = hf[u],
         NEW s \in SlotIndices, \A r \in SlotIndices : r # s => Hf'[r] = Hf[r],
         Hf'[s] = Hf[s] \/ (MaskStored /\ MaskedAt(s)' /\ RowAt(s)' \in job.Mtrue),
         \A i \in job.Mtrue : WithTask(t, i) \/ (MaskedAt(s) /\ RowAt(s) = i)
            => WithTask(t, i)' \/ (MaskedAt(s)' /\ RowAt(s)' = i),
         HandInMask(t)'
  PROVE  ScatterMask'
<1>1. UNCHANGED <<job, hsize>> /\ SlotIndices' = SlotIndices
  BY DEF Steps, SlotIndices
<1>2. (UseGustavson' <=> UseGustavson) /\ (MaskStored' <=> MaskStored)
  BY <1>1 DEF UseGustavson, MaskStored, Scattered, InTable
<1>3. \A r \in SlotIndices : Hf'[r] = Hf[r] =>
        /\ MaskedAt(r)' <=> MaskedAt(r)
        /\ RowAt(r)' = RowAt(r)
  BY <1>2 DEF MaskedAt, Occupied, RowAt
<1>4. \A u \in Team : u # t => /\ \A i : WithTask(u, i)' <=> WithTask(u, i)
                               /\ HandInMask(u)' <=> HandInMask(u)
  BY OthersScatter
<1>5. ASSUME MaskStored, NEW i \in job.Mtrue
      PROVE  \/ \E r \in SlotIndices : MaskedAt(r)' /\ RowAt(r)' = i
             \/ \E u \in Team : WithTask(u, i)'
  <2>1. CASE \E r \in SlotIndices : r # s /\ MaskedAt(r) /\ RowAt(r) = i
    BY <1>3, <2>1
  <2>2. CASE \E u \in Team : u # t /\ WithTask(u, i)
    BY <1>4, <2>2
  <2>3. CASE WithTask(t, i) \/ (MaskedAt(s) /\ RowAt(s) = i)
    BY <2>3
  <2> QED
    BY <1>5, <2>1, <2>2, <2>3 DEF ScatterMask
<1>6. ASSUME NEW r \in SlotIndices
      PROVE  Hf'[r] = Empty \/ (MaskStored /\ MaskedAt(r)' /\ RowAt(r)' \in job.Mtrue)
  BY <1>3, <1>6 DEF ScatterMask, InMaskAt
<1>7. \A u \in Team : HandInMask(u)'
  BY <1>4 DEF ScatterMask
<1>8. \A r : InMaskAt(r)' <=> MaskStored /\ MaskedAt(r)' /\ RowAt(r)' \in job.Mtrue
  BY <1>1, <1>2 DEF InMaskAt
<1>9. Empty' = Empty
  BY DEF Empty, Entry
<1> QED
  BY <1>1, <1>2, <1>5, <1>6, <1>7, <1>8, <1>9 DEF ScatterMask

\* The indices that are to come, when a task goes on
LEMMA NextToCome ==
  ASSUME Typed, phase = "scatter", NEW t \in Team, Running(t), Steps(t)
  PROVE  /\ Index(t) \in Rows /\ MaskStored
         /\ Advance(t) => ~InHand(t)'
         /\ Advance(t) \/ Rehash(t) =>
              \A i : i \in ToCome(t) => i \in ToCome(t)' \/
                                         (i = Index(t) /\ (probe[t] = 0 \/ UseGustavson))
<1>1. pos[t] \in Nat \ {0} /\ pos[t] <= Len(ToScatter(t)) /\ UNCHANGED <<job, hsize>>
  BY DEF Typed, Running, Trips, Steps
<1>2. DOMAIN ToScatter(t) = 1 .. Len(ToScatter(t)) /\ Len(ToScatter(t)) \in Nat
  BY ScatterPlaces, LenProperties
<1>3. ToScatter(t) # <<>>
  BY <1>1, <1>2
<1>4. MaskStored
  BY <1>3, MaskKinds DEF ToScatter, MaskStored, Scattered, InTable
<1>5. ToScatter(t)' = ToScatter(t) /\ (UseGustavson' <=> UseGustavson)
  BY <1>1 DEF ToScatter, UseGustavson
<1>6. Advance(t) => pos'[t] = pos[t] + 1 /\ probe'[t] = 0
  BY DEF Typed, Advance
<1>7. Rehash(t) => pos'[t] = pos[t]
  BY DEF Rehash
<1>8. ASSUME Advance(t) \/ Rehash(t), NEW i \in ToCome(t)
      PROVE  i \in ToCome(t)' \/ (i = Index(t) /\ (probe[t] = 0 \/ UseGustavson))
  <2>1. PICK p \in DOMAIN ToScatter(t) :
          /\ i = ToScatter(t)[p]
          /\ p > pos[t] \/ (p = pos[t] /\ (probe[t] = 0 \/ UseGustavson))
    BY <1>8 DEF ToCome
  <2>2. CASE p > pos[t]
    <3>1. p > pos'[t] \/ (p = pos'[t] /\ probe'[t] = 0)
      BY <1>1, <1>2, <1>6, <1>7, <1>8, <2>2
    <3> QED
      BY <1>5, <2>1, <3>1 DEF ToCome
  <2>3. CASE p = pos[t]
    BY <2>1, <2>3, <1>1 DEF Index
  <2> QED
    BY <2>1, <2>2, <2>3
<1>9. Index(t) \in Rows
  BY IndexInRows
<1> QED
  BY <1>4, <1>6, <1>8, <1>9 DEF InHand

LEMMA SkipFalseMask ==
  ASSUME Typed, ScatterMask, NEW t \in Team, SkipFalse(t)
  PROVE  ScatterMask'
<1>1. /\ phase = "scatter" /\ Running(t) /\ Steps(t) /\ Index(t) \notin job.Mtrue
      /\ Advance(t) /\ UNCHANGED <<hf, Hf, hsize>>
  BY DEF SkipFalse, Steps, Moves
<1>2. PICK s \in SlotIndices : s = Slot(t)
  BY <1>1, SlotInTable
<1>3. ~InHand(t) /\ HandInMask(t)'
  BY <1>1, NextToCome DEF ScatterMask, HandInMask
<1>4. UseGustavson' <=> UseGustavson
  BY <1>1 DEF UseGustavson
<1>5. (MaskedAt(s)' <=> MaskedAt(s)) /\ RowAt(s)' = RowAt(s)
  BY <1>1, <1>4 DEF MaskedAt, Occupied, RowAt
<1>6. \A i \in job.Mtrue : WithTask(t, i) => WithTask(t, i)'
  BY <1>1, <1>3, NextToCome DEF WithTask
<1> QED
  BY <1>1, <1>3, <1>5, <1>6, ScatterKept

LEMMA GusScatterMask ==
  ASSUME Typed, ScatterMask, NEW t \in Team, GusScatter(t)
  PROVE  ScatterMask'
<1>1. /\ phase = "scatter" /\ Running(t) /\ Steps(t) /\ Index(t) \in job.Mtrue
      /\ Advance(t) /\ UNCHANGED <<hf, hsize>> /\ UseGustavson /\ SetFlag(t, Flag(1))
  BY DEF GusScatter, Steps, Moves
<1>2. PICK s \in SlotIndices : s = Slot(t)
  BY <1>1, SlotInTable
<1>3. UseGustavson' /\ s = Index(t) /\ MaskStored
  BY <1>1, <1>2, NextToCome DEF UseGustavson, Slot
<1>4. PICK e : e = Flag(1)
  OBVIOUS
<1>5. e.f = 1 /\ Hf'[s] = e /\ \A r \in SlotIndices : r # s => Hf'[r] = Hf[r]
  BY <1>1, <1>2, <1>4 DEF Typed, SetFlag, Flag, Entry
<1>6. MaskedAt(s)' /\ RowAt(s)' = s
  BY <1>3, <1>5 DEF MaskedAt, Occupied, RowAt
<1>7. RowAt(s) = s /\ ~InHand(t) /\ HandInMask(t)'
  BY <1>1, <1>3 DEF RowAt, InHand, HandInMask
<1>8. \A i \in job.Mtrue : WithTask(t, i) => WithTask(t, i)' \/ i = s
  BY <1>1, <1>3, <1>7, NextToCome DEF WithTask
<1> QED
  BY <1>1, <1>3, <1>5, <1>6, <1>7, <1>8, ScatterKept

LEMMA HashScatterMask ==
  ASSUME LInv, TInv, ScatterMask, NEW t \in Team, HashScatter(t)
  PROVE  ScatterMask'
<1>1. /\ Typed /\ phase = "scatter" /\ Running(t) /\ Index(t) \in job.Mtrue
      /\ ~UseGustavson /\ UNCHANGED <<job, hsize, phase>> /\ ScatterOK
  BY DEF HashScatter, LInv, TInv
<1>2. PICK s \in SlotIndices : s = Slot(t)
  BY <1>1, SlotInTable
<1>3. PICK seen : seen = Hf[s]
  OBVIOUS
<1>4. PICK e : e = IF probe[t] = 0 THEN Masked(Index(t)) ELSE hf[t]
  OBVIOUS
<1>5. /\ SetFlag(t, e)
      /\ \/ seen = Empty /\ Advance(t) /\ UNCHANGED hf
         \/ seen # Empty /\ Rehash(t) /\ hf' = [hf EXCEPT ![t] = seen]
  BY <1>2, <1>3, <1>4 DEF HashScatter
<1>6. Steps(t) /\ \A u \in Team : u # t => hf'[u] = hf[u]
  BY <1>1, <1>5 DEF Steps, Moves, Typed
<1>7. e.h = Hand(t) /\ e.f = 1 /\ Hand(t) - 1 \in Nat /\ Hand(t) - 1 + 1 = Hand(t)
  BY <1>1, <1>4, HandFits
<1>8. Hf'[s] = e /\ \A r \in SlotIndices : r # s => Hf'[r] = Hf[r]
  BY <1>1, <1>2, <1>5 DEF Typed, SetFlag
<1>9. ~UseGustavson' /\ e.h # 0 /\ MaskStored /\ Index(t) \in Nat
  BY <1>1, <1>6, <1>7, NextToCome DEF UseGustavson, Rows
<1>10. MaskedAt(s)' /\ RowAt(s)' = Hand(t) - 1
  BY <1>7, <1>8, <1>9 DEF MaskedAt, Occupied, RowAt
<1>11. Hand(t) = IF probe[t] = 0 THEN Index(t) + 1 ELSE hf[t].h
  BY <1>4, <1>7 DEF Masked, Entry
<1>12. /\ probe[t] = 0 => Hand(t) - 1 = Index(t)
       /\ probe[t] # 0 => Hand(t) = hf[t].h /\ InHand(t)
  BY <1>1, <1>9, <1>11 DEF InHand
<1>13. Hand(t) - 1 \in job.Mtrue
  BY <1>1, <1>12 DEF ScatterMask, HandInMask
<1>14. seen # Empty => seen.f = 1 /\ seen.h - 1 = RowAt(s) /\ RowAt(s) \in job.Mtrue
  BY <1>1, <1>3 DEF ScatterMask, InMaskAt, MaskedAt, RowAt
<1>15. \A i \in job.Mtrue : i + 1 \in Nat /\ (Hand(t) = i + 1 => Hand(t) - 1 = i)
  BY <1>1, <1>7, MaskKinds
<1>16. CASE seen = Empty
  <2>1. Advance(t)
    BY <1>5, <1>16
  <2>2. ~InHand(t)' /\ HandInMask(t)'
    BY <1>1, <1>6, <2>1, NextToCome DEF HandInMask
  <2>3. ~MaskedAt(s)
    BY <1>3, <1>16 DEF MaskedAt, Empty, Entry
  <2>4. \A i \in job.Mtrue : WithTask(t, i) => WithTask(t, i)' \/ i = Hand(t) - 1
    BY <1>1, <1>6, <1>12, <1>15, <2>1, NextToCome DEF WithTask, InHand
  <2> QED
    BY <1>1, <1>2, <1>6, <1>8, <1>9, <1>10, <1>13, <2>2, <2>3, <2>4, ScatterKept
<1>17. CASE seen # Empty
  <2>1. Rehash(t) /\ hf'[t] = seen
    BY <1>1, <1>5, <1>17 DEF Typed
  <2>2. Running(t)' /\ Index(t)' = Index(t) /\ probe'[t] # 0
    BY <1>1, <2>1, NextSlot
  <2>3. InHand(t)' /\ HandInMask(t)'
    BY <1>1, <1>9, <1>14, <1>17, <2>1, <2>2 DEF InHand, HandInMask
  <2>4. \A i \in job.Mtrue : WithTask(t, i) => WithTask(t, i)' \/ i = Hand(t) - 1
    BY <1>1, <1>6, <1>12, <1>15, <2>1, NextToCome DEF WithTask, InHand
  <2>5. \A i \in job.Mtrue : RowAt(s) = i => WithTask(t, i)'
    <3>1. seen.h \in Nat
      BY <1>1, <1>2, <1>3 DEF Typed, Entries
    <3>2. \A i \in job.Mtrue : RowAt(s) = i => seen.h = i + 1
      BY <1>14, <1>15, <1>17, <3>1
    <3> QED
      BY <2>1, <2>3, <3>2 DEF WithTask
  <2> QED
    BY <1>1, <1>2, <1>6, <1>8, <1>9, <1>10, <1>13, <2>3, <2>4, <2>5, ScatterKept
<1> QED
  BY <1>16, <1>17

\* Once every task is through, the mask is in the workspace and nothing is added.
LEMMA EndScatterSums ==
  ASSUME LInv, ScatterMask, EndScatter
  PROVE  Summing'
<1>1. /\ phase = "scatter" /\ phase' = "numeric" /\ pos' = [t \in Team |-> 1]
      /\ UNCHANGED <<job, hsize, pc, probe, hf, Hf, Hx>>
      /\ \A t \in Team : ~Running(t)
  BY DEF EndScatter, Barrier, locals
<1>2. Typed /\ \A t \in Team : pc[t] = "find"
  BY <1>1, Outside DEF LInv
<1>3. /\ SlotIndices' = SlotIndices /\ (UseGustavson' <=> UseGustavson)
      /\ (MaskStored' <=> MaskStored)
      /\ \A s : RowAt(s)' = RowAt(s) /\ (Occupied(s)' <=> Occupied(s))
  BY <1>1 DEF SlotIndices, UseGustavson, MaskStored, Scattered, InTable, RowAt, Occupied
<1>4. \A t \in Team, i \in job.Mtrue : ~WithTask(t, i)
  <2>1. SUFFICES ASSUME NEW t \in Team, NEW i \in ToCome(t)
                 PROVE  FALSE
    BY <1>1 DEF WithTask, InHand
  <2>2. PICK p \in DOMAIN ToScatter(t) : p >= pos[t]
    <3>1. pos[t] \in Nat /\ DOMAIN ToScatter(t) = 1 .. Len(ToScatter(t))
      BY <1>2, ScatterPlaces, LenProperties DEF Typed
    <3> QED
      BY <2>1, <3>1 DEF ToCome
  <2>3. pos[t] \in Nat /\ DOMAIN ToScatter(t) = 1 .. Len(ToScatter(t))
        /\ Len(ToScatter(t)) \in Nat /\ ~(pos[t] <= Len(ToScatter(t)))
    BY <1>1, <1>2, ScatterPlaces, LenProperties DEF Typed, Running, Trips
  <2> QED
    BY <2>2, <2>3
<1>5. \A s \in SlotIndices : /\ Hf[s].f # 2
                             /\ Hf[s].f = 1 => MaskStored
                             /\ Occupied(s) => RowAt(s) \in job.Mtrue
  <2>1. Empty.f = 0 /\ Empty.h = 0
    BY DEF Empty, Entry
  <2> QED
    BY <2>1 DEF ScatterMask, InMaskAt, MaskedAt, Occupied
<1>6. MaskStored => \A i \in job.Mtrue : \E s \in SlotIndices : MaskedAt(s) /\ RowAt(s) = i
  BY <1>4 DEF ScatterMask
<1>7. MaskOK'
  BY <1>1, <1>3, <1>5, <1>6 DEF MaskOK, MaskedAt
<1>8. \A s \in SlotIndices, i \in Rows : ~Holds(s, i)'
  BY <1>1, <1>2, <1>5 DEF Holds, Holder
<1>9. ASSUME NEW i \in Rows
      PROVE  Added(i)' = {}
  <2>1. \A c \in Terms(i)' : c[1] \in Team /\ c[2] \in Nat \ {0}
    <3>1. Terms(i)' = Terms(i)
      BY <1>1 DEF Terms
    <3>2. \A c \in Terms(i) : c[1] \in Team /\ c[2] \in Nat \ {0}
      <4>1. SUFFICES ASSUME NEW u \in Team, NEW p \in DOMAIN job.work[u]
                     PROVE  p \in Nat \ {0}
        BY TermsAre
      <4>2. DOMAIN job.work[u] = 1 .. Len(job.work[u])
        BY <1>2, JobFields, LenProperties DEF Typed
      <4> QED
        BY <4>1, <4>2
    <3> QED
      BY <3>1, <3>2
  <2>2. \A c \in Terms(i)' : ~(c[2] < pos'[c[1]]) /\ pc'[c[1]] # "unlock"
    BY <1>1, <1>2, <2>1
  <2> QED
    BY <2>2 DEF Added
<1>10. \A t \in Team : TaskOK(t)'
  BY <1>1, <1>2 DEF TaskOK
<1>11. SumsOK'
  BY <1>3, <1>8, <1>9, <1>10 DEF SumsOK
<1> QED
  BY <1>1, <1>7, <1>11 DEF Summing, Numeric

-----------------------------------------------------------------------------
(* The workspace after phase 2, and C(:,j) in the end *)

\* The value of slot s is that of C(i,j)
Settled(s, i) ==
  IF job.monoid.any THEN \E c \in Terms(i) : Hx[s] = {c} ELSE Hx[s] = Terms(i)

\* C(:,j) is in the workspace, each of its rows once
FinalOK ==
  /\ \A s \in SlotIndices : Hf[s].f = 2 => RowAt(s) \in Wanted /\ Settled(s, RowAt(s))
  /\ \A i \in Wanted : \E s \in SlotIndices : Hf[s].f = 2 /\ RowAt(s) = i
  /\ \A s, r \in SlotIndices : Hf[s].f = 2 /\ Hf[r].f = 2 /\ RowAt(s) = RowAt(r) => s = r

LEMMA FinalSame ==
  ASSUME FinalOK, UNCHANGED <<job, hsize, Hf, Hx>>
  PROVE  FinalOK'
<1>1. /\ SlotIndices' = SlotIndices
      /\ \A s : RowAt(s)' = RowAt(s)
      /\ \A i : Terms(i)' = Terms(i) /\ (MaskAllows(i)' <=> MaskAllows(i))
  BY DEF SlotIndices, RowAt, UseGustavson, Terms, MaskAllows
<1>2. Wanted' = Wanted
  BY <1>1 DEF Wanted
<1>3. \A s, i : Settled(s, i)' <=> Settled(s, i)
  BY <1>1 DEF Settled
<1>4. ASSUME NEW s \in SlotIndices, Hf[s].f = 2, NEW i, i = RowAt(s)
      PROVE  i \in Wanted' /\ Settled(s, i)'
  BY <1>2, <1>3, <1>4 DEF FinalOK
<1>5. (\A s \in SlotIndices : Hf[s].f = 2 => RowAt(s) \in Wanted /\ Settled(s, RowAt(s)))'
  BY <1>1, <1>4
<1> QED
  BY <1>1, <1>2, <1>5 DEF FinalOK

\* At the end of phase 2 every term has been added.
LEMMA AllAdded ==
  ASSUME Typed, phase = "numeric", \A t \in Team : ~Running(t), NEW i
  PROVE  Added(i) = Terms(i)
<1>1. SUFFICES ASSUME NEW c \in Terms(i)
               PROVE  c[2] < pos[c[1]]
  BY DEF Added
<1>2. PICK u \in Team : \E p \in DOMAIN job.work[u] : c = <<u, p>>
  BY TermsAre
<1>3. PICK p \in DOMAIN job.work[u] : c = <<u, p>>
  BY <1>2
<1>4. DOMAIN job.work[u] = 1 .. Len(job.work[u]) /\ Len(job.work[u]) \in Nat
  BY JobFields, LenProperties DEF Typed
<1>5. ~(pos[u] <= Len(job.work[u])) /\ pos[u] \in Nat
  BY DEF Running, Trips, Typed
<1>6. p < pos[u]
  BY <1>4, <1>5
<1> QED
  BY <1>3, <1>6

LEMMA EndNumericFinal ==
  ASSUME PInv, Summing, EndNumeric
  PROVE  FinalOK'
<1>1. /\ phase = "numeric" /\ UNCHANGED <<job, hsize, Hf, Hx>>
      /\ \A t \in Team : ~Running(t)
  BY DEF EndNumeric, Barrier
<1>2. Typed /\ SumsOK /\ \A t \in Team : pc[t] # "put" /\ \A s : ~Holder(t, s)
  BY <1>1 DEF PInv, LInv, Labelled, Summing, InNumeric, Holder
<1>3. \A s \in SlotIndices, i \in Rows : Holds(s, i) <=> Hf[s].f = 2 /\ RowAt(s) = i
  BY <1>2 DEF Holds
<1>4. \A s \in SlotIndices, i \in Rows : ValueOK(s, i) => Settled(s, i)
  BY <1>1, <1>2, AllAdded DEF ValueOK, Settled
<1>5. ASSUME NEW s \in SlotIndices, Hf[s].f = 2
      PROVE  RowAt(s) \in Rows
  <2>1. CASE UseGustavson
    BY <2>1 DEF RowAt, SlotIndices, Rows, UseGustavson
  <2>2. CASE ~UseGustavson
    <3>1. EntryOK(Hf[s]) /\ Hf[s] \in Entries /\ VLen \in Nat
      BY <1>1, <1>2, <2>2, TeamIsFinite DEF PInv, TInv, NumericOK, Typed
    <3>2. Hf[s].h # 0 /\ Hf[s].h \in 0 .. VLen
      BY <1>5, <3>1 DEF EntryOK, Entries
    <3> QED
      BY <2>2, <3>1, <3>2 DEF RowAt, Rows
  <2> QED
    BY <2>1, <2>2
<1>6. ASSUME NEW s \in SlotIndices, Hf[s].f = 2
      PROVE  RowAt(s) \in Wanted /\ Settled(s, RowAt(s))
  <2>1. PICK i \in Rows : i = RowAt(s)
    BY <1>5, <1>6
  <2>2. Holds(s, i)
    BY <1>3, <1>6, <2>1
  <2>3. MaskAllows(i) /\ Terms(i) # {} /\ ValueOK(s, i)
    BY <1>2, <2>2 DEF SumsOK
  <2> QED
    BY <1>4, <2>1, <2>3 DEF Wanted
<1>7. ASSUME NEW i \in Wanted
      PROVE  \E s \in SlotIndices : Hf[s].f = 2 /\ RowAt(s) = i
  <2>1. i \in Rows /\ MaskAllows(i) /\ Added(i) # {}
    BY <1>1, <1>2, AllAdded DEF Wanted
  <2> QED
    BY <1>2, <1>3, <2>1 DEF SumsOK
<1>8. ASSUME NEW s \in SlotIndices, NEW r \in SlotIndices,
             Hf[s].f = 2, Hf[r].f = 2, RowAt(s) = RowAt(r)
      PROVE  s = r
  <2>1. PICK i \in Rows : i = RowAt(s)
    BY <1>5, <1>8
  <2>2. Holds(s, i) /\ Holds(r, i)
    BY <1>3, <1>8, <2>1
  <2> QED
    BY <1>1, <2>2, HoldsIsPlace, OnePlace
<1>9. FinalOK
  BY <1>6, <1>7, <1>8 DEF FinalOK
<1> QED
  BY <1>1, <1>9, FinalSame

-----------------------------------------------------------------------------
(* The invariant of all phases *)

\* Phase 1 loses no index of the mask, phase 2 no term; what phase 2 leaves in
\* the workspace is C(:,j), and phases 3 to 5 copy it to its place
RInv ==
  /\ PInv
  /\ CInv
  /\ phase = "scatter" => ScatterMask
  /\ phase = "numeric" => Summing
  /\ phase \in {"count", "gather", "done"} => FinalOK

LEMMA StutterSums ==
  ASSUME UNCHANGED vars
  PROVE  /\ ScatterMask => ScatterMask'
         /\ Summing => Summing'
<1>1. UNCHANGED <<job, hsize, phase, pos, pc, probe, hf, zold, Hf, Hx>>
  BY DEF vars, locals
<1>2. /\ SlotIndices' = SlotIndices /\ (UseGustavson' <=> UseGustavson)
      /\ (MaskStored' <=> MaskStored) /\ Empty' = Empty
      /\ \A s : RowAt(s)' = RowAt(s) /\ (Occupied(s)' <=> Occupied(s))
      /\ \A i : Terms(i)' = Terms(i) /\ (MaskAllows(i)' <=> MaskAllows(i))
      /\ \A t : ToScatter(t)' = ToScatter(t)
  BY <1>1 DEF SlotIndices, UseGustavson, MaskStored, Scattered, InTable, RowAt, Occupied,
     Terms, MaskAllows, ToScatter, Empty, Entry
<1>3. \A t : /\ Running(t)' <=> Running(t)
             /\ Index(t)' = Index(t) /\ ToCome(t)' = ToCome(t)
  BY <1>1, <1>2 DEF Running, Trips, Index, ToCome
<1>4. \A t : Slot(t)' = Slot(t) /\ (InNumeric(t)' <=> InNumeric(t)) /\ RowHeld(t)' = RowHeld(t)
             /\ (InHand(t)' <=> InHand(t))
  BY <1>1, <1>2, <1>3 DEF Slot, InNumeric, RowHeld, InHand
<1>5. /\ \A t, i : WithTask(t, i)' <=> WithTask(t, i)
      /\ \A t : HandInMask(t)' <=> HandInMask(t)
      /\ \A s : (MaskedAt(s)' <=> MaskedAt(s)) /\ (InMaskAt(s)' <=> InMaskAt(s))
  BY <1>1, <1>2, <1>3, <1>4 DEF WithTask, HandInMask, MaskedAt, InMaskAt
<1>6. ScatterMask => ScatterMask'
  BY <1>1, <1>2, <1>5 DEF ScatterMask
<1>7. /\ \A t, s : Holder(t, s)' <=> Holder(t, s)
      /\ \A i : Added(i)' = Added(i)
  BY <1>1, <1>2, <1>4 DEF Holder, Added
<1>8. \A s, i : Holds(s, i)' <=> Holds(s, i)
  BY <1>1, <1>2, <1>4, <1>7 DEF Holds
<1>9. \A s, i : ValueOK(s, i)' <=> ValueOK(s, i)
  BY <1>1, <1>2, <1>4, <1>7 DEF ValueOK
<1>10. ASSUME NEW t, TaskOK(t)
       PROVE  TaskOK(t)'
  <2>1. PICK s : s = Slot(t)
    OBVIOUS
  <2>2. PICK i : i = Index(t)
    OBVIOUS
  <2> QED
    BY <1>1, <1>2, <1>3, <1>4, <1>8, <1>10, <2>1, <2>2 DEF TaskOK
<1>11. SumsOK => SumsOK'
  BY <1>2, <1>3, <1>7, <1>8, <1>9, <1>10 DEF SumsOK
<1>12. MaskOK => MaskOK'
  BY <1>1, MaskSame
<1> QED
  BY <1>1, <1>6, <1>11, <1>12 DEF Summing, Numeric

LEMMA InitRInv == Init => RInv
<1>1. Init => phase = "scatter" /\ RestoreOK
  BY DEF Init, RestoreOK
<1>2. Init => UInv
  <2> SUFFICES ASSUME Init
               PROVE  UInv
    OBVIOUS
  <2>1. /\ Hx = [s \in SlotIndices |-> {Garbage}] /\ zold = [t \in Team |-> {}]
        /\ \A t \in Team : pc[t] = "find"
    BY DEF Init
  <2> QED
    BY <2>1 DEF UInv, Suited, UpdateExclusive, TermType
<1> QED
  BY <1>1, <1>2, InitInv, InitTable, InitCount, InitScatter DEF RInv, PInv

LEMMA NextRInv == RInv /\ [Next]_vars => RInv'
<1> SUFFICES ASSUME RInv, [Next]_vars
             PROVE  RInv'
  OBVIOUS
<1>1. PInv /\ PInv' /\ Typed /\ LInv /\ TInv /\ CInv'
  BY NextPInv, NextCount DEF RInv, PInv, LInv
<1>2. CASE \E t \in Team : Task(t)
  <2>1. PICK t \in Team : Task(t)
    BY <1>2
  <2>2. UNCHANGED <<job, hsize, phase>>
    BY <2>1 DEF Task, SkipFalse, HashTask, HashScatter, HashSkip, HashFind, HashLock,
       HashUnlock, HashRestore, GusTask, GusScatter, GusFindAny, GusFlagAny, GusPutAny,
       GusFind, GusLock, GusUnlock, AccessHx, WriteHx, UpdateHx, StoreHx, FastUpdateHx,
       Count, Gather
  <2>3. CASE phase = "scatter"
    <3>1. SkipFalse(t) \/ HashScatter(t) \/ GusScatter(t)
      BY <2>1, <2>3 DEF Task, HashTask, HashSkip, HashFind, HashLock,
         HashUnlock, HashRestore, GusTask, GusFindAny, GusFlagAny, GusPutAny,
         GusFind, GusLock, GusUnlock, AccessHx, WriteHx, UpdateHx, StoreHx, FastUpdateHx,
         Count, Gather, At, InNumeric
    <3>2. ScatterMask'
      BY <1>1, <2>3, <3>1, SkipFalseMask, HashScatterMask, GusScatterMask DEF RInv
    <3> QED
      BY <1>1, <2>2, <2>3, <3>2 DEF RInv
  <2>4. CASE phase = "numeric"
    <3>1. Summing'
      BY <1>1, <2>1, <2>4, TaskSums DEF RInv
    <3> QED
      BY <1>1, <2>2, <2>4, <3>1 DEF RInv
  <2>5. CASE phase \notin {"scatter", "numeric"}
    <3>1. phase \in {"count", "gather", "done"}
      BY <1>1, <2>5 DEF Typed, Phases
    <3>2. Count(t) \/ Gather(t)
      BY <2>1, <2>5 DEF Task, SkipFalse, HashTask, HashScatter, HashSkip, HashFind, HashLock,
         HashUnlock, HashRestore, GusTask, GusScatter, GusFindAny, GusFlagAny, GusPutAny,
         GusFind, GusLock, GusUnlock, AccessHx, WriteHx, UpdateHx, StoreHx, FastUpdateHx,
         At, InNumeric
    <3>3. FinalOK'
      BY <3>1, <3>2, FinalSame DEF RInv, Count, Gather
    <3> QED
      BY <1>1, <2>2, <3>1, <3>3 DEF RInv
  <2> QED
    BY <2>3, <2>4, <2>5
<1>3. CASE EndScatter
  <2>1. phase = "scatter" /\ phase' = "numeric"
    BY <1>3 DEF EndScatter, Barrier
  <2>2. Summing'
    BY <1>1, <1>3, <2>1, EndScatterSums DEF RInv
  <2> QED
    BY <1>1, <2>1, <2>2 DEF RInv
<1>4. CASE EndNumeric
  <2>1. phase = "numeric" /\ phase' = "count"
    BY <1>4 DEF EndNumeric, Barrier
  <2>2. FinalOK'
    BY <1>1, <1>4, <2>1, EndNumericFinal DEF RInv
  <2> QED
    BY <1>1, <2>1, <2>2 DEF RInv
<1>5. CASE Cumsum \/ EndGather
  <2>1. phase \in {"count", "gather"} /\ phase' \in {"gather", "done"}
        /\ UNCHANGED <<job, hsize, Hf, Hx>>
    BY <1>5 DEF Cumsum, EndGather, Barrier
  <2>2. FinalOK'
    BY <2>1, FinalSame DEF RInv
  <2> QED
    BY <1>1, <2>1, <2>2 DEF RInv
<1>6. CASE UNCHANGED vars
  <2>1. UNCHANGED <<phase, job, hsize, Hf, Hx>>
    BY <1>6 DEF vars
  <2> QED
    BY <1>1, <1>6, <2>1, StutterSums, FinalSame DEF RInv
<1> QED
  BY <1>2, <1>3, <1>4, <1>5, <1>6 DEF Next, Master, Finished

\* From the first barrier to the last: nothing is lost on the way to C(:,j).
THEOREM ResultInvariant == Spec => []RInv
BY InitRInv, NextRInv, PTL DEF Spec

\* Type correctness of the team and its workspace (GB_AxB_saxpy3): in every
\* reachable state of every team, product and table size.
THEOREM TypeIsRight == Spec => []TypeOK
<1>1. RInv => TypeOK
  <2> SUFFICES ASSUME RInv
               PROVE  TypeOK
    OBVIOUS
  <2>1. Typed /\ UInv /\ my_cjnz \in [Team -> Nat]
    BY DEF RInv, PInv, LInv, CInv
  <2>2. job \in JobType /\ hsize \in Nat \ {0}
    BY <2>1, JobFields, SizeOfTable DEF Typed
  <2> QED
    BY <2>1, <2>2 DEF TypeOK, Typed, UInv, Entries
<1> QED
  BY ResultInvariant, <1>1, PTL

LEMMA ResultOfInvariant == RInv => ResultRight
<1> SUFFICES ASSUME RInv, phase = "done"
             PROVE  /\ DOMAIN C = 0 .. Cardinality(Wanted) - 1
                    /\ {C[p].i : p \in DOMAIN C} = Wanted
                    /\ \A p \in DOMAIN C :
                         IF job.monoid.any
                         THEN \E c \in Terms(C[p].i) : C[p].x = {c}
                         ELSE C[p].x = Terms(C[p].i)
  BY DEF ResultRight
<1>1. Typed /\ FinalOK /\ GatherOK /\ Gathered = Below(hsize) /\ hsize \in Nat \ {0}
  BY SizeOfTable DEF RInv, PInv, LInv, CInv, Gathered
<1> DEFINE S == Below(hsize)
<1>2. \A s : s \in S <=> s \in SlotIndices /\ Hf[s].f = 2
  BY <1>1 DEF Below, SlotIndices
<1>3. DOMAIN C = 0 .. Cardinality(S) - 1
  BY <1>1, RanksFill DEF GatherOK
<1>4. Cardinality(S) = Cardinality(Wanted)
  <2> DEFINE f == [s \in S |-> RowAt(s)]
  <2>1. f \in [S -> Wanted]
    BY <1>1, <1>2 DEF FinalOK
  <2>2. \A s \in S, r \in S : f[s] = f[r] => s = r
    BY <1>1, <1>2 DEF FinalOK
  <2>3. \A i \in Wanted : \E s \in S : f[s] = i
    BY <1>1, <1>2 DEF FinalOK
  <2> HIDE DEF f
  <2>4. f \in Bijection(S, Wanted)
    BY <2>1, <2>2, <2>3 DEF Bijection, Injection, Surjection, IsInjective
  <2>5. IsFiniteSet(S)
    BY <1>1, BelowFinite
  <2> QED
    BY <2>4, <2>5, FS_Bijection DEF ExistsBijection
<1>5. \A s \in S : Rank(s) \in DOMAIN C /\ C[Rank(s)] = [i |-> RowAt(s), x |-> Hx[s]]
  BY <1>1 DEF GatherOK
<1>6. \A s \in S : C[Rank(s)].i = RowAt(s) /\ C[Rank(s)].x = Hx[s]
  <2>1. SUFFICES ASSUME NEW s \in S
                 PROVE  C[Rank(s)].i = RowAt(s) /\ C[Rank(s)].x = Hx[s]
    OBVIOUS
  <2>2. PICK e : e = C[Rank(s)]
    OBVIOUS
  <2>3. e = [i |-> RowAt(s), x |-> Hx[s]]
    BY <1>5, <2>2
  <2> QED
    BY <2>2, <2>3
<1>7. \A p \in DOMAIN C : \E s \in S : p = Rank(s)
  BY <1>1 DEF GatherOK
<1>8. \A s \in S : RowAt(s) \in Wanted /\ Settled(s, RowAt(s))
  BY <1>1, <1>2 DEF FinalOK
<1>9. \A i \in Wanted : \E s \in S : RowAt(s) = i
  BY <1>1, <1>2 DEF FinalOK
<1> HIDE DEF S
<1>10. {C[p].i : p \in DOMAIN C} = Wanted
  <2>1. \A p \in DOMAIN C : C[p].i \in Wanted
    BY <1>6, <1>7, <1>8
  <2>2. \A i \in Wanted : \E p \in DOMAIN C : C[p].i = i
    BY <1>5, <1>6, <1>9
  <2> QED
    BY <2>1, <2>2
<1>11. ASSUME NEW p \in DOMAIN C
       PROVE  IF job.monoid.any
              THEN \E c \in Terms(C[p].i) : C[p].x = {c}
              ELSE C[p].x = Terms(C[p].i)
  <2>1. PICK s \in S : p = Rank(s)
    BY <1>7
  <2>2. C[p].i = RowAt(s) /\ C[p].x = Hx[s]
    BY <1>6, <2>1
  <2> QED
    BY <1>8, <2>2 DEF Settled
<1> QED
  BY <1>3, <1>4, <1>10, <1>11

\* The product of the fine tasks is right (GB_AxB_saxpy3_fineHash*,
\* GB_AxB_saxpy3_fineGus*, phases 1 to 5): for every team, product, mask, monoid
\* and table size C(:,j) has exactly the rows it should, each once and in
\* consecutive positions, and each value has every term and nothing else.
THEOREM ResultIsRight == Spec => []ResultRight
BY ResultInvariant, ResultOfInvariant, PTL
-----------------------------------------------------------------------------
(* The sums of TermSum, and how a step changes them *)

\* A step of TermSum that adds a term, or none
AddsOrKeeps == Sums!Add \/ UNCHANGED <<ToDoOfRows, SumOfRows, Given>>

LEMMA SumOthers ==
  ASSUME SlotIndices' = SlotIndices, NEW s \in SlotIndices,
         \A r \in SlotIndices : r # s => RowAt(r)' = RowAt(r) /\ Hx'[r] = Hx[r],
         NEW k, RowAt(s) # k, RowAt(s)' # k
  PROVE  SumOf(k)' = SumOf(k)
<1> DEFINE Seats  == {r \in SlotIndices : RowAt(r) = k /\ Hx[r] # {Garbage}}
           Seats2 == {r \in SlotIndices : RowAt(r)' = k /\ Hx'[r] # {Garbage}}
<1>1. Seats2 = Seats /\ \A r \in Seats : Hx'[r] = Hx[r]
  OBVIOUS
<1>2. SumOf(k) = UNION {Hx[r] : r \in Seats} /\ SumOf(k)' = UNION {Hx'[r] : r \in Seats2}
  BY DEF SumOf, Garbage
<1> QED
  BY <1>1, <1>2

LEMMA SumSame ==
  ASSUME SlotIndices' = SlotIndices,
         \A r \in SlotIndices : RowAt(r)' = RowAt(r) /\ Hx'[r] = Hx[r], NEW k
  PROVE  SumOf(k)' = SumOf(k)
<1> DEFINE Seats  == {r \in SlotIndices : RowAt(r) = k /\ Hx[r] # {Garbage}}
           Seats2 == {r \in SlotIndices : RowAt(r)' = k /\ Hx'[r] # {Garbage}}
<1>1. Seats2 = Seats /\ \A r \in Seats : Hx'[r] = Hx[r]
  OBVIOUS
<1>2. SumOf(k) = UNION {Hx[r] : r \in Seats} /\ SumOf(k)' = UNION {Hx'[r] : r \in Seats2}
  BY DEF SumOf, Garbage
<1> QED
  BY <1>1, <1>2

\* The sum of a row is the value at its place
LEMMA SumAt ==
  ASSUME NEW s \in SlotIndices, NEW i, RowAt(s) = i,
         \A r \in SlotIndices : r # s => RowAt(r) # i
  PROVE  SumOf(i) = IF Hx[s] # {Garbage} THEN Hx[s] ELSE {}
<1> DEFINE Seats == {r \in SlotIndices : RowAt(r) = i /\ Hx[r] # {Garbage}}
<1>1. Seats = IF Hx[s] # {Garbage} THEN {s} ELSE {}
  OBVIOUS
<1>2. SumOf(i) = UNION {Hx[r] : r \in Seats}
  BY DEF SumOf
<1> QED
  BY <1>1, <1>2

LEMMA SumAtNext ==
  ASSUME SlotIndices' = SlotIndices, NEW s \in SlotIndices, NEW i, RowAt(s)' = i,
         \A r \in SlotIndices : r # s => RowAt(r)' # i
  PROVE  SumOf(i)' = IF Hx'[s] # {Garbage} THEN Hx'[s] ELSE {}
<1> DEFINE Seats == {r \in SlotIndices : RowAt(r)' = i /\ Hx'[r] # {Garbage}}
<1>1. Seats = IF Hx'[s] # {Garbage} THEN {s} ELSE {}
  OBVIOUS
<1>2. SumOf(i)' = UNION {Hx'[r] : r \in Seats}
  BY DEF SumOf, Garbage
<1> QED
  BY <1>1, <1>2

LEMMA SumNone ==
  ASSUME NEW i, \A r \in SlotIndices : RowAt(r) = i => Hx[r] = {Garbage}
  PROVE  SumOf(i) = {}
<1>1. {r \in SlotIndices : RowAt(r) = i /\ Hx[r] # {Garbage}} = {}
  OBVIOUS
<1> QED
  BY <1>1 DEF SumOf

LEMMA RowsConstant == RowsWithTerms \subseteq Rows /\ RowsWithTerms' = RowsWithTerms
BY DEF RowsWithTerms, Rows, Team

LEMMA HasTerms ==
  ASSUME job \in Jobs, NEW i \in Rows, Terms(i) # {}
  PROVE  i \in RowsWithTerms
<1>1. PICK c : c \in Terms(i)
  OBVIOUS
<1>2. PICK u \in Team : \E p \in DOMAIN job.work[u] : job.work[u][p] = i
  BY <1>1, TermsAre
<1> QED
  BY <1>2 DEF RowsWithTerms

\* What has been given before the end
LEMMA NothingGiven ==
  ASSUME phase # "done", phase' # "done"
  PROVE  Given = NotGiven /\ Given' = NotGiven
BY DEF Given, NotGiven

LEMMA KeepSumOf ==
  ASSUME UNCHANGED job, Given' = Given, \A k \in Rows : SumOf(k)' = SumOf(k)
  PROVE  UNCHANGED <<ToDoOfRows, SumOfRows, Given>>
<1>1. RowsWithTerms \subseteq Rows /\ RowsWithTerms' = RowsWithTerms
  BY RowsConstant
<1>2. \A k : Terms(k)' = Terms(k) /\ (MaskAllows(k)' <=> MaskAllows(k))
  BY DEF Terms, MaskAllows
<1>3. \A k \in RowsWithTerms : Seen(SumOf(k))' = Seen(SumOf(k)) /\ ToDo(k)' = ToDo(k)
  BY <1>1, <1>2 DEF Seen, ToDo, AnyTerm
<1>4. ToDoOfRows' = ToDoOfRows
  BY <1>1, <1>3 DEF ToDoOfRows
<1>5. SumOfRows' = SumOfRows
  BY <1>1, <1>3 DEF SumOfRows
<1> QED
  BY <1>4, <1>5

LEMMA AddTerm ==
  ASSUME job \in Jobs, UNCHANGED job, Given = NotGiven, Given' = NotGiven,
         NEW i \in Rows, NEW c \in Terms(i), MaskAllows(i),
         \A k \in Rows : k # i => SumOf(k)' = SumOf(k),
         job.monoid.any => SumOf(i)' # {},
         ~job.monoid.any => SumOf(i)' = SumOf(i) \cup {c}
  PROVE  AddsOrKeeps
<1>1. RowsWithTerms \subseteq Rows /\ RowsWithTerms' = RowsWithTerms /\ i \in RowsWithTerms
  BY RowsConstant, HasTerms
<1>2. \A k : Terms(k)' = Terms(k) /\ (MaskAllows(k)' <=> MaskAllows(k))
  BY DEF Terms, MaskAllows
<1>3. \A k \in RowsWithTerms : k # i =>
        Seen(SumOf(k))' = Seen(SumOf(k)) /\ ToDo(k)' = ToDo(k)
  BY <1>1, <1>2 DEF Seen, ToDo, AnyTerm
<1>4. \A k \in RowsWithTerms : ToDoOfRows[k] = ToDo(k) /\ SumOfRows[k] = Seen(SumOf(k))
  BY DEF ToDoOfRows, SumOfRows
<1>5. \A k \in RowsWithTerms : ToDoOfRows'[k] = ToDo(k)' /\ SumOfRows'[k] = Seen(SumOf(k))'
  BY <1>1 DEF ToDoOfRows, SumOfRows
<1>6. /\ DOMAIN ToDoOfRows = RowsWithTerms /\ DOMAIN SumOfRows = RowsWithTerms
      /\ DOMAIN ToDoOfRows' = RowsWithTerms /\ DOMAIN SumOfRows' = RowsWithTerms
      /\ ToDoOfRows = [k \in DOMAIN ToDoOfRows |-> ToDoOfRows[k]]
      /\ SumOfRows = [k \in DOMAIN SumOfRows |-> SumOfRows[k]]
      /\ ToDoOfRows' = [k \in DOMAIN ToDoOfRows' |-> ToDoOfRows'[k]]
      /\ SumOfRows' = [k \in DOMAIN SumOfRows' |-> SumOfRows'[k]]
  BY <1>1 DEF ToDoOfRows, SumOfRows
<1>7. ASSUME Seen(SumOf(i))' = Seen(SumOf(i))
      PROVE  AddsOrKeeps
  <2>1. ToDo(i)' = ToDo(i)
    BY <1>2, <1>7 DEF ToDo, Seen, AnyTerm
  <2>2. \A k \in RowsWithTerms : ToDoOfRows'[k] = ToDoOfRows[k] /\ SumOfRows'[k] = SumOfRows[k]
    BY <1>3, <1>4, <1>5, <1>7, <2>1
  <2>3. ToDoOfRows' = ToDoOfRows /\ SumOfRows' = SumOfRows
    BY <1>6, <2>2
  <2> QED
    BY <2>3 DEF AddsOrKeeps
<1>8. ASSUME NEW d, d \in ToDo(i), Seen(SumOf(i))' = Seen(SumOf(i)) \cup {d},
             ToDo(i)' = ToDo(i) \ {d}
      PROVE  AddsOrKeeps
  <2>1. /\ ToDoOfRows'[i] = ToDoOfRows[i] \ {d} /\ SumOfRows'[i] = SumOfRows[i] \cup {d}
        /\ d \in ToDoOfRows[i]
    BY <1>1, <1>4, <1>5, <1>8
  <2>2. \A k \in RowsWithTerms : k # i =>
          ToDoOfRows'[k] = ToDoOfRows[k] /\ SumOfRows'[k] = SumOfRows[k]
    BY <1>3, <1>4, <1>5
  <2>3. ToDoOfRows' = [ToDoOfRows EXCEPT ![i] = @ \ {d}]
    BY <1>6, <2>1, <2>2
  <2>4. SumOfRows' = [SumOfRows EXCEPT ![i] = @ \cup {d}]
    BY <1>6, <2>1, <2>2
  <2>5. Sums!Add
    BY <1>1, <2>1, <2>3, <2>4 DEF Sums!Add
  <2> QED
    BY <2>5 DEF AddsOrKeeps
<1>9. CASE job.monoid.any
  <2>1. /\ Seen(SumOf(i))' = {AnyTerm} /\ Seen(Terms(i)) = {AnyTerm} /\ AnyTerm' = AnyTerm
        /\ Seen(Terms(i))' = {AnyTerm}
    BY <1>2, <1>9 DEF Seen, AnyTerm
  <2>2. CASE SumOf(i) # {}
    BY <1>7, <1>9, <2>1, <2>2 DEF Seen
  <2>3. CASE SumOf(i) = {}
    <3>1. Seen(SumOf(i)) = {} /\ ToDo(i) = {AnyTerm} /\ ToDo(i)' = {}
      BY <1>2, <1>9, <2>1, <2>3 DEF Seen, ToDo
    <3> QED
      BY <1>8, <2>1, <3>1
  <2> QED
    BY <2>2, <2>3
<1>10. CASE ~job.monoid.any
  <2>1. /\ Seen(SumOf(i))' = SumOf(i) \cup {c} /\ Seen(SumOf(i)) = SumOf(i)
        /\ ToDo(i) = Terms(i) \ SumOf(i) /\ ToDo(i)' = Terms(i) \ (SumOf(i) \cup {c})
    BY <1>2, <1>10 DEF Seen, ToDo
  <2>2. CASE c \in SumOf(i)
    BY <1>7, <2>1, <2>2
  <2>3. CASE c \notin SumOf(i)
    BY <1>8, <2>1, <2>3
  <2> QED
    BY <2>2, <2>3
<1> QED
  BY <1>9, <1>10

-----------------------------------------------------------------------------
(* What is in Hx *)

\* What a hash task knows of its slot while it adds its term: the entry has its
\* index, or it has written the first term of a new entry
TaskKnown(t) ==
  /\ pc[t] \in {"fast", "update", "store"} => Hf[Slot(t)].h = Index(t) + 1
  /\ pc[t] = "unlock" /\ Hf[Slot(t)].h = 0 => Hx[Slot(t)] = {Term(t)}

\* In phase 2 there is a value only at the place of a row
Known ==
  /\ \A s \in SlotIndices : Hx[s] = {Garbage} \/ \E k \in Rows : Holds(s, k)
  /\ \A t \in Team : ~UseGustavson /\ Running(t) => TaskKnown(t)

LEMMA KnownStep ==
  ASSUME PInv, Numeric, Known, NEW t \in Team, InNumeric(t), Steps(t), HoldsKept,
         \A u \in Team : u # t => hf'[u] = hf[u],
         NEW s \in SlotIndices, s = Slot(t),
         \A r \in SlotIndices : r # s => Hf'[r] = Hf[r] /\ Hx'[r] = Hx[r],
         Hx'[s] = Hx[s] \/ \E k \in Rows : Holds(s, k)',
         ~UseGustavson /\ Hf[s].h # 0 => Hf'[s].h = Hf[s].h,
         Hx'[s] = Hx[s] \/ UseGustavson \/ Owns(t) \/ Hf[s].h # 0,
         ~UseGustavson /\ Running(t)' => TaskKnown(t)'
  PROVE  Known'
<1>0. Typed /\ Running(t) /\ phase = "numeric"
  BY DEF PInv, LInv, InNumeric, Numeric
<1>1. /\ \A u \in Team : u # t =>
           /\ Running(u)' = Running(u) /\ Index(u)' = Index(u) /\ Slot(u)' = Slot(u)
           /\ pc'[u] = pc[u] /\ pos'[u] = pos[u]
      /\ SlotIndices' = SlotIndices /\ (UseGustavson' <=> UseGustavson)
  BY <1>0, OthersHold, StepFrame
<1>2. ASSUME NEW r \in SlotIndices
      PROVE  Hx'[r] = {Garbage} \/ \E k \in Rows : Holds(r, k)'
  <2>1. CASE Hx'[r] = Hx[r]
    BY <2>1 DEF Known, HoldsKept
  <2>2. CASE Hx'[r] # Hx[r]
    BY <2>2
  <2> QED
    BY <2>1, <2>2
<1>3. ASSUME NEW u \in Team, u # t, ~UseGustavson, Running(u)
      PROVE  TaskKnown(u)'
  <2>1. TaskKnown(u) /\ Slot(u) \in SlotIndices /\ Index(u) \in Nat /\ InNumeric(u)
    BY <1>0, <1>3, TaskSlot DEF Known
  <2>2. PICK x \in SlotIndices : x = Slot(u)
    BY <2>1
  <2>3. Hf[x].h # 0 => Hf'[x].h = Hf[x].h
    BY <1>3
  <2>4. pc[u] = "unlock" /\ Hf[x].h = 0 => Hx'[x] = Hx[x]
    <3>1. SUFFICES ASSUME pc[u] = "unlock", Hf[x].h = 0, x = s
                   PROVE  Hx'[s] = Hx[s]
      OBVIOUS
    <3>2. Owns(u)
      BY <1>3, <2>1, <3>1 DEF Owns
    <3>3. ~Owns(t)
      BY <1>3, <2>2, <3>1, <3>2 DEF PInv, LInv, LockSound
    <3> QED
      BY <1>3, <3>1, <3>3
  <2>5. Term(u)' = Term(u)
    BY <1>1, <1>3 DEF Term
  <2>6. pc'[u] = pc[u] /\ Slot(u)' = x /\ Index(u)' = Index(u)
    BY <1>1, <1>3, <2>2
  <2>7. pc[u] \in {"fast", "update", "store"} => Hf'[x].h = Index(u) + 1
    BY <2>1, <2>2, <2>3 DEF TaskKnown
  <2>8. pc[u] = "unlock" /\ Hf'[x].h = 0 => Hx'[x] = {Term(u)}
    BY <2>1, <2>2, <2>3, <2>4 DEF TaskKnown
  <2> QED
    BY <2>5, <2>6, <2>7, <2>8 DEF TaskKnown
<1>4. \A u \in Team : ~UseGustavson' /\ Running(u)' => TaskKnown(u)'
  BY <1>1, <1>3
<1>5. \A r \in SlotIndices' : Hx'[r] = {Garbage}' \/ \E k \in Rows : Holds(r, k)'
  BY <1>1, <1>2 DEF Garbage
<1> QED
  BY <1>4, <1>5 DEF Known

\* Steps that leave Hx alone and every entry with its row
LEMMA QuietKnown ==
  ASSUME PInv, Numeric, Known, NEW t \in Team, InNumeric(t), Steps(t), HoldsKept,
         \A u \in Team : u # t => hf'[u] = hf[u], Hx' = Hx,
         NEW s \in SlotIndices, s = Slot(t),
         \A r \in SlotIndices : r # s => Hf'[r] = Hf[r],
         ~UseGustavson => Hf'[s].h = Hf[s].h,
         ~UseGustavson /\ Running(t)' => TaskKnown(t)'
  PROVE  Known' /\ AddsOrKeeps
<1>1. Known'
  BY KnownStep
<1>2. UNCHANGED <<job, hsize, phase>> /\ phase # "done" /\ SlotIndices' = SlotIndices
  BY DEF Steps, Numeric, SlotIndices
<1>3. \A r \in SlotIndices : RowAt(r)' = RowAt(r)
  BY <1>2 DEF RowAt, UseGustavson
<1>4. \A k \in Rows : SumOf(k)' = SumOf(k)
  BY <1>2, <1>3, SumSame
<1> QED
  BY <1>1, <1>2, <1>4, NothingGiven, KeepSumOf DEF AddsOrKeeps

\* A place is found in one slot only
LEMMA RowAtPlace ==
  ASSUME PInv, Numeric, NEW s \in SlotIndices, NEW i \in Rows, IsPlace(s, i),
         NEW r \in SlotIndices, RowAt(r) = i
  PROVE  r = s
<1>1. i \in Nat /\ Hf[r].h \in Nat
  BY DEF PInv, LInv, Typed, Entries, Rows
<1>2. IsPlace(r, i)
  BY <1>1 DEF RowAt, IsPlace
<1> QED
  BY <1>2, OnePlace DEF Numeric

\* The task adds its term to the value at the place of its row
LEMMA AddsAt ==
  ASSUME PInv, Numeric, NEW t \in Team, InNumeric(t), UNCHANGED <<job, hsize, phase, Hf>>,
         NEW s \in SlotIndices, s = Slot(t), NEW i \in Rows, i = Index(t),
         RowAt(s) = i, IsPlace(s, i), MaskAllows(i),
         \A r \in SlotIndices : r # s => Hx'[r] = Hx[r],
         Hx'[s] # {Garbage}, Hx'[s] # {},
         ~job.monoid.any =>
           Hx'[s] = (IF Hx[s] # {Garbage} THEN Hx[s] ELSE {}) \cup {Term(t)}
  PROVE  AddsOrKeeps
<1>1. Typed /\ Running(t) /\ phase = "numeric" /\ job \in Jobs
  BY DEF PInv, LInv, Typed, InNumeric, Numeric
<1>2. SlotIndices' = SlotIndices /\ \A r : RowAt(r)' = RowAt(r)
  BY DEF SlotIndices, RowAt, UseGustavson
<1>3. \A r \in SlotIndices : r # s => RowAt(r) # i
  BY RowAtPlace
<1>4. \A k \in Rows : k # i => SumOf(k)' = SumOf(k)
  BY <1>2, SumOthers
<1>5. SumOf(i) = IF Hx[s] # {Garbage} THEN Hx[s] ELSE {}
  BY <1>3, SumAt
<1>6. SumOf(i)' = Hx'[s]
  BY <1>2, <1>3, SumAtNext
<1>7. Term(t) \in Terms(i)
  BY <1>1, TermOf
<1>8. Given = NotGiven /\ Given' = NotGiven
  BY <1>1, NothingGiven
<1> QED
  BY <1>1, <1>4, <1>5, <1>6, <1>7, <1>8, AddTerm

\* A set of terms is no uninitialised value
LEMMA TermsAreNoGarbage ==
  ASSUME Typed, Numeric, NEW t \in Team, Running(t), NEW k
  PROVE  Garbage \notin Terms(k) /\ Garbage # Term(t)
<1>1. pos[t] \in Nat \ {0}
  BY DEF Typed
<1>2. \A c \in Terms(k) : c[2] \in Nat \ {0}
  BY TermOf DEF Numeric
<1> QED
  BY <1>1, <1>2 DEF Garbage, Term

-----------------------------------------------------------------------------
(* Each action of phase 2 is a step of TermSum or none *)

\* At these labels a task knows nothing of its slot
Idle == {"find", "lock", "write", "restore", "flag", "put"}

LEMMA IdleKnows ==
  ASSUME NEW t, pc'[t] \in Idle
  PROVE  TaskKnown(t)'
BY DEF TaskKnown, Idle

LEMMA FindKnown ==
  ASSUME PInv, Numeric, Known, HoldsKept, NEW t \in Team,
         HashSkip(t) \/ HashFind(t) \/ GusFindAny(t) \/ GusFind(t)
  PROVE  Known' /\ AddsOrKeeps
<1>1. /\ InNumeric(t) /\ Running(t) /\ Typed /\ phase = "numeric" /\ "fast" \in Labels
      /\ UNCHANGED <<job, hsize, phase, hf, Hf, Hx>>
  BY DEF HashSkip, HashFind, GusFindAny, GusFind, At, InNumeric, PInv, LInv, Numeric, Labels
<1>2. PICK s \in SlotIndices : s = Slot(t)
  BY <1>1, TaskSlot
<1>3. PICK i \in Rows : i = Index(t)
  BY <1>1, TaskSlot
<1>4. CASE HashFind(t) /\ CanUpdate(Hf[s], i) /\ Goto(t, "fast")
  <2>1. Steps(t)
    BY <1>1, <1>4 DEF Steps, Moves
  <2>2. pc'[t] = "fast" /\ Slot(t)' = s /\ Index(t)' = i
    <3>1. pc'[t] = "fast" /\ Slot(t)' = Slot(t)
      BY <1>1, <1>4, GotoFrame
    <3> QED
      BY <1>1, <1>2, <1>3, <1>4, <3>1 DEF Goto, Index, ToScatter, UseGustavson
  <2>3. Hf'[s].h = i + 1
    BY <1>1, <1>4 DEF CanUpdate, Unlocked, Entry
  <2>4. TaskKnown(t)'
    BY <2>2, <2>3 DEF TaskKnown
  <2> QED
    BY <1>1, <1>2, <2>1, <2>4, QuietKnown
<1>5. CASE \/ Advance(t) \/ Rehash(t)
           \/ \E label \in Labels \cap Idle : Goto(t, label)
           \/ UseGustavson /\ Goto(t, "fast")
  <2>1. Steps(t)
    BY <1>1, <1>5 DEF Steps, Moves
  <2>2. UseGustavson \/ pc'[t] \in Idle
    BY <1>1, <1>5 DEF Advance, Rehash, Goto, Typed, Idle
  <2>3. ~UseGustavson => TaskKnown(t)'
    BY <2>2, IdleKnows
  <2> QED
    BY <1>1, <1>2, <2>1, <2>3, QuietKnown
<1> HIDE DEF Labels
<1>6. {"lock", "write", "flag"} \subseteq Labels \cap Idle
  BY DEF Labels, Idle
<1>7. CASE HashSkip(t) \/ GusFindAny(t) \/ GusFind(t)
  BY <1>5, <1>6, <1>7 DEF HashSkip, GusFindAny, GusFind
<1>8. CASE HashFind(t)
  <2>1. CASE CanUpdate(Hf[s], i) /\ Goto(t, "fast")
    BY <1>4, <1>8, <2>1
  <2>2. CASE Advance(t) \/ Rehash(t) \/ Goto(t, "lock")
    BY <1>5, <1>6, <2>2
  <2> QED
    BY <1>2, <1>3, <1>8, <2>1, <2>2 DEF HashFind
<1> QED
  BY <1>7, <1>8

\* An entry that is the task's own has its index
LEMMA MineHasIndex ==
  ASSUME PInv, Hashing, NEW t \in Team, InNumeric(t), pc[t] = "lock",
         IsMine(Hf[Slot(t)], Index(t))
  PROVE  Hf[Slot(t)].h = Index(t) + 1
<1>1. MayTake(t)
  BY DEF PInv, TInv, NumericOK, Hashing, InNumeric
<1>2. InTable("M") => Hf[Slot(t)].h = Index(t) + 1
  BY <1>1 DEF MayTake
<1>3. ~InTable("M") => Hf[Slot(t)].h = Index(t) + 1
  BY DEF IsMine, Unlocked, Entry
<1> QED
  BY <1>2, <1>3

LEMMA LockKnown ==
  ASSUME PInv, Numeric, Known, HoldsKept, NEW t \in Team, HashLock(t) \/ GusLock(t)
  PROVE  Known' /\ AddsOrKeeps
<1>1. /\ InNumeric(t) /\ Running(t) /\ Typed /\ phase = "numeric" /\ pc[t] = "lock"
      /\ UNCHANGED <<job, hsize, phase, Hx>> /\ SetFlag(t, Locked(Hf[Slot(t)]))
      /\ hf' = [hf EXCEPT ![t] = Hf[Slot(t)]]
  BY DEF HashLock, GusLock, At, InNumeric, PInv, LInv, Numeric
<1>2. PICK s \in SlotIndices : s = Slot(t)
  BY <1>1, TaskSlot
<1>3. PICK i \in Rows : i = Index(t)
  BY <1>1, TaskSlot
<1>4. /\ Hf'[s].h = Hf[s].h /\ \A r \in SlotIndices : r # s => Hf'[r] = Hf[r]
      /\ \A u \in Team : u # t => hf'[u] = hf[u]
  BY <1>1, <1>2 DEF Typed, SetFlag, Locked, Entry
<1>5. PICK label \in {"write", "update", "unlock", "restore"} :
        /\ Goto(t, label)
        /\ ~UseGustavson /\ label \in {"update", "unlock"} => IsMine(Hf[s], i)
  BY <1>2, <1>3 DEF HashLock, GusLock
<1>6. label \in Labels /\ Steps(t)
  BY <1>1, <1>5 DEF Labels, Steps, Moves
<1>7. pc'[t] = label /\ Slot(t)' = s /\ Index(t)' = i
  <2>1. pc'[t] = label /\ Slot(t)' = Slot(t)
    BY <1>1, <1>5, <1>6, GotoFrame
  <2> QED
    BY <1>1, <1>2, <1>3, <1>5, <2>1 DEF Goto, Index, ToScatter, UseGustavson
<1>8. ASSUME ~UseGustavson
      PROVE  TaskKnown(t)'
  <2>1. CASE label \in {"write", "restore"}
    BY <1>7, <2>1, IdleKnows DEF Idle
  <2>2. CASE label \in {"update", "unlock"}
    <3>1. Hf'[s].h = i + 1 /\ i \in Nat
      BY <1>1, <1>2, <1>3, <1>4, <1>5, <1>8, <2>2, MineHasIndex DEF Hashing, Rows
    <3> QED
      BY <1>7, <3>1 DEF TaskKnown
  <2> QED
    BY <2>1, <2>2
<1> QED
  BY <1>1, <1>2, <1>4, <1>6, <1>8, QuietKnown

LEMMA GiveUpKnown ==
  ASSUME PInv, Numeric, Known, HoldsKept, NEW t \in Team,
         HashRestore(t) \/ GusUnlock(t) \/ GusFlagAny(t)
  PROVE  Known' /\ AddsOrKeeps
<1>1. /\ InNumeric(t) /\ Running(t) /\ Typed /\ phase = "numeric" /\ "put" \in Labels
      /\ UNCHANGED <<job, hsize, phase, hf, Hx>>
  BY DEF HashRestore, GusUnlock, GusFlagAny, At, InNumeric, PInv, LInv, Numeric, Labels
<1>2. PICK s \in SlotIndices : s = Slot(t)
  BY <1>1, TaskSlot
<1>3. \A r \in SlotIndices : r # s => Hf'[r] = Hf[r]
  BY <1>1, <1>2 DEF HashRestore, GusUnlock, GusFlagAny, SetFlag, Typed
<1>4. Steps(t) /\ pc'[t] \in Idle
  BY <1>1 DEF HashRestore, GusUnlock, GusFlagAny, Steps, Moves, Advance, Rehash, Goto,
     Typed, Idle
<1>5. TaskKnown(t)'
  BY <1>4, IdleKnows
<1>6. ASSUME ~UseGustavson
      PROVE  Hf'[s].h = Hf[s].h
  <2>1. HashRestore(t) /\ pc[t] = "restore"
    BY <1>6 DEF GusUnlock, GusFlagAny, HashRestore, At, PInv, LInv, Labelled, NoLocks
  <2>2. Owns(t)
    BY <1>1, <1>6, <2>1 DEF Owns
  <2>3. Hf[s].h = hf[t].h
    BY <1>1, <1>2, <1>6, <2>2, OwnerTakes DEF Hashing
  <2>4. Hf'[s] = hf[t]
    BY <1>1, <1>2, <2>1 DEF HashRestore, SetFlag, Typed
  <2> QED
    BY <2>3, <2>4
<1> QED
  BY <1>1, <1>2, <1>3, <1>4, <1>5, <1>6, QuietKnown

-----------------------------------------------------------------------------
\* A task that writes the value of its row adds its term to the sum
LEMMA WriteKnown ==
  ASSUME PInv, Numeric, Known, HoldsKept, NEW t \in Team, InNumeric(t),
         UNCHANGED <<job, hsize, phase, hf, Hf>>, Advance(t) \/ Goto(t, "unlock"),
         NEW s \in SlotIndices, s = Slot(t), NEW i \in Rows, i = Index(t),
         RowAt(s) = i, IsPlace(s, i), MaskAllows(i),
         Holds(s, i) \/ Holds(s, i)',
         NEW value, Hx' = [Hx EXCEPT ![s] = value], Term(t) \in value,
         ~job.monoid.any =>
           value = (IF Hx[s] # {Garbage} THEN Hx[s] ELSE {}) \cup {Term(t)}
  PROVE  Known' /\ AddsOrKeeps
<1>1. /\ Steps(t) /\ Running(t) /\ Typed /\ "unlock" \in Labels
      /\ i \in Nat
  BY DEF Steps, Moves, InNumeric, PInv, LInv, Labels, Rows
<1>2. Hx'[s] = value /\ \A r \in SlotIndices : r # s => Hx'[r] = Hx[r]
  BY DEF PInv, UInv
<1>3. Term(t) # Garbage
  BY <1>1, TermsAreNoGarbage
<1>4. AddsOrKeeps
  BY <1>2, <1>3, AddsAt
<1>5. Holds(s, i)'
  BY DEF HoldsKept
<1>6. ~UseGustavson => Hf[s].h = i + 1
  <2>1. Hf[s].h \in Nat
    BY <1>1 DEF Typed, Entries
  <2> QED
    BY <1>1, <2>1 DEF RowAt
<1>7. ASSUME ~UseGustavson
      PROVE  TaskKnown(t)'
  <2>1. CASE Advance(t)
    <3>1. pc'[t] \in Idle
      BY <1>1, <2>1 DEF Advance, Typed, Idle
    <3> QED
      BY <3>1, IdleKnows
  <2>2. CASE Goto(t, "unlock")
    <3>1. pc'[t] = "unlock" /\ Slot(t)' = s
      BY <1>1, <2>2, GotoFrame
    <3>2. Hf'[s].h # 0
      BY <1>1, <1>6, <1>7
    <3> QED
      BY <3>1, <3>2 DEF TaskKnown
  <2> QED
    BY <2>1, <2>2
<1>8. Known'
  <2>1. Hx'[s] = Hx[s] \/ UseGustavson \/ Owns(t) \/ Hf[s].h # 0
    BY <1>1, <1>6
  <2> QED
    BY <1>1, <1>2, <1>5, <1>7, <2>1, KnownStep
<1> QED
  BY <1>4, <1>8

LEMMA WriteHxKnown ==
  ASSUME PInv, Summing, Known, HoldsKept, NEW t \in Team, WriteHx(t)
  PROVE  Known' /\ AddsOrKeeps
<1>1. /\ InNumeric(t) /\ Running(t) /\ Typed /\ phase = "numeric" /\ Numeric /\ SumsOK
      /\ UNCHANGED <<job, hsize, phase, hf, Hf>> /\ pc[t] = "write" /\ Goto(t, "unlock")
      /\ "unlock" \in Labels
  BY DEF WriteHx, At, InNumeric, PInv, LInv, Summing, Numeric, Labels
<1>2. PICK s \in SlotIndices : s = Slot(t)
  BY <1>1, TaskSlot
<1>3. PICK i \in Rows : i = Index(t)
  BY <1>1, TaskSlot
<1>4. PICK value : value = {Term(t)} /\ Hx' = [Hx EXCEPT ![s] = value]
  BY <1>2 DEF WriteHx
<1>5. MaskAllows(i) /\ i \in Nat
  BY <1>1, <1>3 DEF SumsOK, TaskOK, Rows
<1>6. IsPlace(s, i)
  <2>1. UseGustavson \/ (Owns(t) /\ pc[t] # "restore")
    BY <1>1 DEF Owns
  <2> QED
    BY <1>1, <1>2, <1>3, <2>1, TaskPlace
<1>7. /\ pc'[t] = "unlock" /\ Slot(t)' = s /\ InNumeric(t)' /\ Index(t)' = i
      /\ Term(t)' = Term(t) /\ Steps(t)
  <2>1. pc'[t] = "unlock" /\ Slot(t)' = Slot(t) /\ InNumeric(t)' = InNumeric(t)
    BY <1>1, GotoFrame
  <2>2. Index(t)' = i /\ Term(t)' = Term(t) /\ Steps(t)
    BY <1>1, <1>3 DEF Goto, Index, ToScatter, UseGustavson, Term, Steps, Moves
  <2> QED
    BY <1>1, <1>2, <2>1, <2>2
<1>8. Holds(s, i)'
  BY <1>7 DEF Holds, Holder, RowHeld
<1>9. ~job.monoid.any => Hx[s] = {Garbage}
  <2>1. SUFFICES ASSUME ~job.monoid.any, NEW k \in Rows, Holds(s, k)
                 PROVE  FALSE
    BY DEF Known
  <2>2. ~NoLocks
    BY <2>1 DEF NoLocks, LockFree
  <2>3. Owns(t)
    BY <1>1, <2>2 DEF Owns, NoLocks
  <2>4. Hf[s].f = 3
    BY <1>2, <2>3 DEF PInv, LInv, LockSound
  <2>5. PICK u \in Team : Holder(u, s)
    BY <2>1, <2>4 DEF Holds
  <2>6. Owns(u) /\ Slot(u) = s
    BY <2>2, <2>5 DEF Holder, Owns, NoLocks
  <2>7. u = t
    BY <1>2, <2>3, <2>6 DEF PInv, LInv, LockSound
  <2> QED
    BY <1>1, <2>5, <2>7 DEF Holder
<1>10. CASE RowAt(s) = i
  <2>1. ~job.monoid.any =>
          value = (IF Hx[s] # {Garbage} THEN Hx[s] ELSE {}) \cup {Term(t)}
    BY <1>4, <1>9
  <2> QED
    BY <1>1, <1>2, <1>3, <1>4, <1>5, <1>6, <1>8, <1>10, <2>1, WriteKnown
<1>11. CASE RowAt(s) # i
  <2>1. ~UseGustavson
    BY <1>6, <1>11 DEF IsPlace, RowAt
  <2>2. Owns(t) /\ Hf[s].h \in Nat
    BY <1>1, <2>1 DEF Owns, Typed, Entries
  <2>3. Hf[s].h = 0 \/ Hf[s].h = i + 1
    BY <1>1, <1>2, <1>3, <2>1, <2>2, OwnerTakes DEF Hashing
  <2>4. Hf[s].h = 0
    BY <1>5, <1>11, <2>1, <2>3 DEF RowAt
  <2>5. RowAt(s) \notin Rows
    BY <2>1, <2>4 DEF RowAt, Rows
  <2>6. Hx'[s] = {Term(t)} /\ \A r \in SlotIndices : r # s => Hx'[r] = Hx[r]
    BY <1>4 DEF PInv, UInv
  <2>7. SlotIndices' = SlotIndices /\ \A r : RowAt(r)' = RowAt(r)
    BY <1>1 DEF SlotIndices, RowAt, UseGustavson
  <2>8. \A k \in Rows : SumOf(k)' = SumOf(k)
    BY <2>5, <2>6, <2>7, SumOthers
  <2>9. Given' = Given
    BY <1>1, NothingGiven
  <2>10. AddsOrKeeps
    BY <1>1, <2>8, <2>9, KeepSumOf DEF AddsOrKeeps
  <2>11. TaskKnown(t)'
    BY <1>7, <2>6 DEF TaskKnown
  <2>12. Known'
    BY <1>1, <1>2, <1>7, <1>8, <2>2, <2>6, <2>11, KnownStep
  <2> QED
    BY <2>10, <2>12
<1> QED
  BY <1>10, <1>11

LEMMA UpdateKnown ==
  ASSUME PInv, Summing, Known, HoldsKept, NEW t \in Team,
         UpdateHx(t) \/ StoreHx(t) \/ FastUpdateHx(t)
  PROVE  Known' /\ AddsOrKeeps
<1>1. /\ InNumeric(t) /\ Running(t) /\ Typed /\ phase = "numeric" /\ Numeric /\ SumsOK
      /\ UNCHANGED <<job, hsize, phase, hf, Hf>> /\ pc[t] \in {"update", "store", "fast"}
      /\ "unlock" \in Labels /\ "store" \in Labels
  BY DEF UpdateHx, StoreHx, FastUpdateHx, At, InNumeric, PInv, LInv, Summing, Numeric, Labels
<1>2. PICK s \in SlotIndices : s = Slot(t)
  BY <1>1, TaskSlot
<1>3. PICK i \in Rows : i = Index(t) /\ (UseGustavson => s = i)
  BY <1>1, <1>2, TaskSlot
<1>4. MaskAllows(i) /\ ~job.monoid.any /\ TaskOK(t) /\ i \in Nat
  BY <1>1, <1>3 DEF SumsOK, TaskOK, Rows
<1>5. Holds(s, i)
  <2>1. CASE pc[t] = "fast"
    BY <1>2, <1>3, <1>4, <2>1 DEF TaskOK
  <2>2. CASE pc[t] # "fast"
    BY <1>1, <1>2, <1>3, <2>2 DEF Holds, Holder, RowHeld
  <2> QED
    BY <2>1, <2>2
<1>6. ~UseGustavson => Hf[s].h = i + 1
  BY <1>1, <1>2, <1>3 DEF Known, TaskKnown
<1>7. RowAt(s) = i
  BY <1>3, <1>4, <1>6 DEF RowAt
<1>8. CASE UpdateHx(t) /\ ~job.monoid.atomicUpdate
  <2>1. Goto(t, "store") /\ Hx' = Hx /\ Steps(t)
    BY <1>1, <1>8 DEF UpdateHx, Steps, Moves
  <2>2. pc'[t] = "store" /\ Slot(t)' = s /\ Index(t)' = i
    <3>1. pc'[t] = "store" /\ Slot(t)' = Slot(t)
      BY <1>1, <2>1, GotoFrame
    <3> QED
      BY <1>1, <1>2, <1>3, <2>1, <3>1 DEF Goto, Index, ToScatter, UseGustavson
  <2>3. ~UseGustavson => TaskKnown(t)'
    BY <1>1, <1>6, <2>2 DEF TaskKnown
  <2> QED
    BY <1>1, <1>2, <2>1, <2>3, QuietKnown
<1>9. CASE (UpdateHx(t) /\ job.monoid.atomicUpdate) \/ StoreHx(t) \/ FastUpdateHx(t)
  <2>1. /\ Advance(t) \/ Goto(t, "unlock")
        /\ Hx' = [Hx EXCEPT ![s] = Hx[s] \cup {Term(t)}]
    <3>1. CASE UpdateHx(t) /\ job.monoid.atomicUpdate
      BY <1>2, <3>1 DEF UpdateHx
    <3>2. CASE StoreHx(t)
      <4>1. pc[t] = "store" /\ Goto(t, "unlock")
            /\ Hx' = [Hx EXCEPT ![s] = zold[t] \cup {Term(t)}]
        BY <1>2, <3>2 DEF StoreHx, At
      <4>2. zold[t] = Hx[s]
        BY <1>2, <4>1 DEF PInv, UInv, UpdateExclusive
      <4> QED
        BY <4>1, <4>2
    <3>3. CASE FastUpdateHx(t)
      BY <1>2, <3>3 DEF FastUpdateHx
    <3> QED
      BY <1>9, <3>1, <3>2, <3>3
  <2>2. Hx[s] = Added(i) /\ Hx[s] # {Garbage}
    <3>1. Hx[s] = Added(i)
      BY <1>4, <1>5, <1>1 DEF SumsOK, ValueOK
    <3>2. Garbage \notin Added(i)
      BY <1>1, TermsAreNoGarbage DEF Added
    <3> QED
      BY <3>1, <3>2
  <2>3. PICK value : value = Hx[s] \cup {Term(t)}
    OBVIOUS
  <2>4. Hx' = [Hx EXCEPT ![s] = value]
    BY <2>1, <2>3
  <2>5. value = (IF Hx[s] # {Garbage} THEN Hx[s] ELSE {}) \cup {Term(t)} /\ Term(t) \in value
    BY <2>2, <2>3
  <2>6. IsPlace(s, i)
    BY <1>1, <1>5, HoldsIsPlace
  <2> QED
    BY <1>1, <1>2, <1>3, <1>4, <1>5, <1>7, <2>1, <2>4, <2>5, <2>6, WriteKnown
<1> QED
  BY <1>8, <1>9

LEMMA GusPutAnyKnown ==
  ASSUME PInv, Summing, Known, HoldsKept, NEW t \in Team, GusPutAny(t)
  PROVE  Known' /\ AddsOrKeeps
<1>1. /\ InNumeric(t) /\ Running(t) /\ Typed /\ phase = "numeric" /\ Numeric /\ SumsOK
      /\ UNCHANGED <<job, hsize, phase, hf, Hf>> /\ pc[t] = "put" /\ Advance(t)
      /\ UseGustavson /\ job.monoid.any
  BY DEF GusPutAny, At, InNumeric, PInv, LInv, Labelled, NoLocks, LockFree, Summing, Numeric
<1>2. PICK s \in SlotIndices : s = Slot(t)
  BY <1>1, TaskSlot
<1>3. PICK i \in Rows : i = Index(t) /\ i = s
  BY <1>1, <1>2, TaskSlot
<1>4. PICK value : value = {Term(t)} /\ Hx' = [Hx EXCEPT ![s] = value]
  BY <1>2 DEF GusPutAny
<1>5. TaskOK(t)
  BY <1>1 DEF SumsOK
<1>6. MaskAllows(i) /\ Holds(s, i)
  BY <1>1, <1>2, <1>3, <1>5 DEF TaskOK
<1>7. RowAt(s) = i /\ IsPlace(s, i)
  BY <1>1, <1>3 DEF RowAt, IsPlace
<1> QED
  BY <1>1, <1>2, <1>3, <1>4, <1>6, <1>7, WriteKnown

LEMMA HashUnlockKnown ==
  ASSUME PInv, Summing, Known, HoldsKept, NEW t \in Team, HashUnlock(t)
  PROVE  Known' /\ AddsOrKeeps
<1>1. /\ InNumeric(t) /\ Running(t) /\ Typed /\ phase = "numeric" /\ Numeric /\ SumsOK
      /\ UNCHANGED <<job, hsize, phase, hf, Hx>> /\ pc[t] = "unlock" /\ Advance(t)
      /\ ~UseGustavson /\ Hashing /\ SetFlag(t, Unlocked(Index(t))) /\ Steps(t)
  BY DEF HashUnlock, At, InNumeric, PInv, LInv, Summing, Numeric, Hashing, Steps, Moves
<1>2. PICK s \in SlotIndices : s = Slot(t)
  BY <1>1, TaskSlot
<1>3. PICK i \in Rows : i = Index(t) /\ i \in Nat
  BY <1>1, TaskSlot
<1>4. Hf'[s].h = i + 1 /\ \A r \in SlotIndices : r # s => Hf'[r] = Hf[r]
  BY <1>1, <1>2, <1>3 DEF Typed, SetFlag, Unlocked, Entry
<1>5. Owns(t)
  BY <1>1 DEF Owns
<1>6. Hf[s].h = 0 \/ Hf[s].h = i + 1
  BY <1>1, <1>2, <1>3, <1>5, OwnerTakes
<1>7. pc'[t] \in Idle
  BY <1>1 DEF Advance, Typed, Idle
<1>8. TaskKnown(t)'
  BY <1>7, IdleKnows
<1>9. CASE Hf[s].h = i + 1
  BY <1>1, <1>2, <1>4, <1>8, <1>9, QuietKnown
<1>10. CASE Hf[s].h = 0
  <2>1. Known'
    BY <1>1, <1>2, <1>4, <1>8, <1>10, KnownStep
  <2>2. IsPlace(s, i)
    BY <1>1, <1>2, <1>3, <1>5, TaskPlace
  <2>3. Holds(s, i)
    BY <1>1, <1>2, <1>3 DEF Holds, Holder, RowHeld
  <2>4. /\ SlotIndices' = SlotIndices /\ RowAt(s) \notin Rows /\ RowAt(s)' = i
        /\ \A r \in SlotIndices : r # s => RowAt(r)' = RowAt(r)
    BY <1>1, <1>3, <1>4, <1>10 DEF SlotIndices, RowAt, UseGustavson, Rows
  <2>5. \A r \in SlotIndices : RowAt(r) # i
    BY <1>1, <2>2, <2>4, RowAtPlace
  <2>6. SumOf(i) = {}
    BY <2>5, SumNone
  <2>7. Hx[s] = {Term(t)} /\ Term(t) # Garbage /\ Term(t) \in Terms(i)
    <3>1. Hx[s] = {Term(t)}
      BY <1>1, <1>2, <1>10 DEF Known, TaskKnown
    <3>2. Term(t) # Garbage
      BY <1>1, TermsAreNoGarbage
    <3>3. Term(t) \in Terms(i)
      BY <1>1, <1>3, TermOf
    <3> QED
      BY <3>1, <3>2, <3>3
  <2>8. SumOf(i)' = {Term(t)}
    <3>1. Hx'[s] # {Garbage} /\ \A r \in SlotIndices : r # s => RowAt(r)' # i
      BY <1>1, <2>4, <2>5, <2>7
    <3>2. SumOf(i)' = IF Hx'[s] # {Garbage} THEN Hx'[s] ELSE {}
      BY <2>4, <3>1, SumAtNext
    <3> QED
      BY <1>1, <2>7, <3>1, <3>2
  <2>9. \A k \in Rows : k # i => SumOf(k)' = SumOf(k)
    BY <1>1, <2>4, SumOthers
  <2>10. MaskAllows(i)
    BY <1>1, <2>3 DEF SumsOK
  <2>11. Given = NotGiven /\ Given' = NotGiven /\ job \in Jobs
    BY <1>1, NothingGiven DEF Typed
  <2>12. PICK c : c = Term(t)
    OBVIOUS
  <2>13. AddsOrKeeps
    BY <1>1, <2>6, <2>7, <2>8, <2>9, <2>10, <2>11, <2>12, AddTerm
  <2> QED
    BY <2>1, <2>13
<1> QED
  BY <1>6, <1>9, <1>10

-----------------------------------------------------------------------------
\* Every step of a task in phase 2
LEMMA TaskKeepsKnown ==
  ASSUME PInv, PInv', Summing, Known, NEW t \in Team, Task(t)
  PROVE  Known' /\ AddsOrKeeps
<1>1. HoldsKept /\ Numeric /\ phase = "numeric"
  BY TaskSums DEF Summing, Numeric
<1>2. ~SkipFalse(t) /\ ~HashScatter(t) /\ ~GusScatter(t) /\ ~Count(t) /\ ~Gather(t)
  BY <1>1 DEF SkipFalse, HashScatter, GusScatter, Count, Gather
<1>3. CASE HashTask(t)
  BY <1>1, <1>2, <1>3, FindKnown, LockKnown, GiveUpKnown, HashUnlockKnown DEF HashTask
<1>4. CASE GusTask(t)
  BY <1>1, <1>2, <1>4, FindKnown, LockKnown, GiveUpKnown, GusPutAnyKnown DEF GusTask
<1>5. CASE AccessHx(t)
  BY <1>1, <1>5, WriteHxKnown, UpdateKnown DEF AccessHx
<1> QED
  BY <1>2, <1>3, <1>4, <1>5 DEF Task

-----------------------------------------------------------------------------
(* The other phases *)

\* Values are written in phase 2 only, and stay in the entries of C(:,j)
WInv ==
  /\ phase = "scatter" => \A s \in SlotIndices : Hx[s] = {Garbage}
  /\ phase = "numeric" => Known
  /\ phase \notin {"scatter", "numeric"} =>
       \A s \in SlotIndices : Hx[s] = {Garbage} \/ Hf[s].f = 2

\* Steps that write neither Hf nor Hx
LEMMA SumsRest ==
  ASSUME UNCHANGED <<job, hsize, Hf, Hx>>, Given' = Given
  PROVE  AddsOrKeeps
<1>1. SlotIndices' = SlotIndices /\ \A r : RowAt(r)' = RowAt(r)
  BY DEF SlotIndices, RowAt, UseGustavson
<1>2. \A k \in Rows : SumOf(k)' = SumOf(k)
  BY <1>1, SumSame
<1> QED
  BY <1>2, KeepSumOf DEF AddsOrKeeps

LEMMA NoValues ==
  ASSUME \A s \in SlotIndices : Hx[s] = {Garbage}, NEW k
  PROVE  SumOf(k) = {}
BY SumNone

LEMMA ScatterWrites ==
  ASSUME NEW t \in Team, SkipFalse(t) \/ HashScatter(t) \/ GusScatter(t), WInv
  PROVE  WInv' /\ AddsOrKeeps
<1>1. /\ UNCHANGED <<job, hsize, phase, Hx>> /\ phase = "scatter"
      /\ \A s \in SlotIndices : Hx[s] = {Garbage}
  BY DEF SkipFalse, HashScatter, GusScatter, WInv
<1>2. SlotIndices' = SlotIndices /\ Garbage' = Garbage
  BY <1>1 DEF SlotIndices, Garbage
<1>3. WInv'
  BY <1>1, <1>2 DEF WInv
<1>4. ASSUME NEW k
      PROVE  SumOf(k)' = {}
  <2>1. {s \in SlotIndices' : RowAt(s)' = k /\ Hx'[s] # {Garbage}} = {}
    BY <1>1, <1>2
  <2> QED
    BY <2>1 DEF SumOf, Garbage
<1>5. \A k \in Rows : SumOf(k)' = SumOf(k)
  BY <1>1, <1>4, NoValues
<1> QED
  BY <1>1, <1>3, <1>5, NothingGiven, KeepSumOf DEF AddsOrKeeps

\* A step from one phase after phase 2 to another, or within one
LEMMA LaterWrites ==
  ASSUME WInv, UNCHANGED <<job, hsize, Hf, Hx>>,
         phase \notin {"scatter", "numeric"}, phase' \notin {"scatter", "numeric"}
  PROVE  WInv'
BY DEF WInv, SlotIndices, Garbage

LEMMA EndScatterWrites ==
  ASSUME RInv, WInv, EndScatter
  PROVE  WInv' /\ AddsOrKeeps
<1>1. /\ phase = "scatter" /\ phase' = "numeric" /\ UNCHANGED <<job, hsize, pc, Hf, Hx>>
      /\ \A s \in SlotIndices : Hx[s] = {Garbage}
  BY DEF EndScatter, Barrier, locals, WInv
<1>2. \A t \in Team : pc'[t] = "find"
  BY <1>1, Outside DEF RInv, PInv
<1>3. \A t \in Team : TaskKnown(t)'
  BY <1>2, IdleKnows DEF Idle
<1>4. Known'
  BY <1>1, <1>3 DEF Known, SlotIndices, Garbage
<1>5. AddsOrKeeps
  BY <1>1, NothingGiven, SumsRest
<1> QED
  BY <1>1, <1>4, <1>5 DEF WInv

LEMMA EndNumericWrites ==
  ASSUME RInv, WInv, EndNumeric
  PROVE  WInv' /\ AddsOrKeeps
<1>1. /\ phase = "numeric" /\ phase' = "count" /\ UNCHANGED <<job, hsize, Hf, Hx>>
      /\ \A t \in Team : ~Running(t)
      /\ Known
  BY DEF EndNumeric, Barrier, WInv
<1>2. \A t \in Team : \A s : ~Holder(t, s)
  BY <1>1 DEF Holder, InNumeric
<1>3. \A s \in SlotIndices : Hx[s] = {Garbage} \/ Hf[s].f = 2
  BY <1>1, <1>2 DEF Known, Holds
<1>4. WInv'
  BY <1>1, <1>3 DEF WInv, SlotIndices, Garbage
<1>5. AddsOrKeeps
  BY <1>1, NothingGiven, SumsRest
<1> QED
  BY <1>4, <1>5

\* What the workspace holds after phase 2 are the sums
LEMMA SumsAreFinal ==
  ASSUME Typed, FinalOK, NEW i \in Rows,
         \A s \in SlotIndices : Hx[s] = {Garbage} \/ Hf[s].f = 2
  PROVE  /\ i \in Wanted => IF job.monoid.any THEN \E c \in Terms(i) : SumOf(i) = {c}
                            ELSE SumOf(i) = Terms(i)
         /\ i \notin Wanted => SumOf(i) = {}
<1>1. ASSUME i \notin Wanted
      PROVE  SumOf(i) = {}
  <2>1. \A s \in SlotIndices : RowAt(s) = i => Hx[s] = {Garbage}
    BY <1>1 DEF FinalOK
  <2> QED
    BY <2>1, SumNone
<1>2. ASSUME i \in Wanted
      PROVE  IF job.monoid.any THEN \E c \in Terms(i) : SumOf(i) = {c}
             ELSE SumOf(i) = Terms(i)
  <2>1. PICK s \in SlotIndices : Hf[s].f = 2 /\ RowAt(s) = i
    BY <1>2 DEF FinalOK
  <2>2. \A r \in SlotIndices : r # s /\ RowAt(r) = i => Hx[r] = {Garbage}
    BY <2>1 DEF FinalOK
  <2>3. Settled(s, i)
    BY <2>1 DEF FinalOK
  <2>4. Garbage \notin Terms(i) /\ Terms(i) # {}
    <3>1. ASSUME NEW u \in Team, NEW p \in DOMAIN job.work[u]
          PROVE  <<u, p>> # Garbage
      <4>1. p \in 1 .. Len(job.work[u]) /\ Len(job.work[u]) \in Nat
        BY JobFields, LenProperties DEF Typed
      <4> QED
        BY <4>1 DEF Garbage
    <3>2. \A c \in Terms(i) : \E u \in Team : \E p \in DOMAIN job.work[u] : c = <<u, p>>
      BY TermsAre
    <3> QED
      BY <1>2, <3>1, <3>2 DEF Wanted
  <2>5. Hx[s] # {Garbage}
    BY <2>3, <2>4 DEF Settled
  <2>6. SumOf(i) = Hx[s]
    <3>1. {r \in SlotIndices : RowAt(r) = i /\ Hx[r] # {Garbage}} = {s}
      BY <2>1, <2>2, <2>5
    <3> QED
      BY <3>1 DEF SumOf
  <2> QED
    BY <2>3, <2>6 DEF Settled
<1> QED
  BY <1>1, <1>2

\* The end of phase 5 publishes the sums
LEMMA EndGatherPublishes ==
  ASSUME RInv, RInv', WInv, EndGather
  PROVE  Sums!Publish
<1>1. /\ phase = "gather" /\ phase' = "done" /\ UNCHANGED <<job, hsize, Hf, Hx, C>>
      /\ \A s \in SlotIndices : Hx[s] = {Garbage} \/ Hf[s].f = 2
      /\ Typed /\ FinalOK /\ job \in Jobs
  BY DEF EndGather, Barrier, WInv, RInv, PInv, LInv, Typed
<1>2. ResultRight'
  BY ResultOfInvariant, PTL
<1>3. /\ \A k : Terms(k)' = Terms(k) /\ (MaskAllows(k)' <=> MaskAllows(k))
      /\ SlotIndices' = SlotIndices /\ \A s : RowAt(s)' = RowAt(s)
  BY <1>1 DEF Terms, MaskAllows, SlotIndices, RowAt, UseGustavson
<1>4. Wanted' = Wanted
  BY <1>3 DEF Wanted
<1>5. /\ {C[p].i : p \in DOMAIN C} = Wanted
      /\ \A p \in DOMAIN C : IF job.monoid.any THEN \E c \in Terms(C[p].i) : C[p].x = {c}
                             ELSE C[p].x = Terms(C[p].i)
  <2>1. /\ {C'[p].i : p \in DOMAIN C'} = Wanted'
        /\ \A p \in DOMAIN C' : IF job'.monoid.any
                                THEN \E c \in Terms(C[p].i)' : C'[p].x = {c}
                                ELSE C'[p].x = Terms(C[p].i)'
    BY <1>1, <1>2 DEF ResultRight
  <2>2. \A p : Terms(C[p].i)' = Terms(C[p].i)
    BY <1>1, <1>3
  <2> QED
    BY <1>1, <1>4, <2>1, <2>2
<1>6. \A k \in Rows : SumOf(k)' = SumOf(k)
  BY <1>1, <1>3, SumSame
<1>7. \A k \in Rows : /\ k \in Wanted =>
                           IF job.monoid.any THEN \E c \in Terms(k) : SumOf(k) = {c}
                           ELSE SumOf(k) = Terms(k)
                      /\ k \notin Wanted => SumOf(k) = {}
  BY <1>1, SumsAreFinal
<1>8. RowsWithTerms \subseteq Rows /\ Wanted \subseteq RowsWithTerms
  BY <1>1, RowsConstant, HasTerms DEF Wanted
<1>9. \A k \in RowsWithTerms : ToDo(k) = {}
  <2>1. SUFFICES ASSUME NEW k \in RowsWithTerms
                 PROVE  ToDo(k) = {}
    OBVIOUS
  <2>2. CASE k \in Wanted
    <3>1. MaskAllows(k) /\ Seen(Terms(k)) = Seen(SumOf(k))
      BY <1>7, <1>8, <2>2 DEF Wanted, Seen
    <3> QED
      BY <3>1 DEF ToDo
  <2>3. CASE k \notin Wanted
    BY <1>8, <2>3 DEF Wanted, ToDo, Seen
  <2> QED
    BY <2>2, <2>3
<1>10. \A k \in RowsWithTerms : ToDoOfRows[k] = {} /\ SumOfRows[k] = Seen(SumOf(k))
  BY <1>9 DEF ToDoOfRows, SumOfRows
<1>11. Given = NotGiven
  BY <1>1 DEF Given
<1>12. Given' = {<<k, SumOfRows[k]>> : k \in {k \in RowsWithTerms : SumOfRows[k] # {}}}
  <2>1. Given' = {<<C[p].i, Seen(C[p].x)>> : p \in DOMAIN C}
    BY <1>1 DEF Given, Seen, AnyTerm
  <2>2. \A k \in RowsWithTerms : SumOfRows[k] # {} <=> k \in Wanted
    BY <1>7, <1>8, <1>10 DEF Wanted, Seen
  <2>3. \A p \in DOMAIN C : C[p].i \in Wanted /\ Seen(C[p].x) = SumOfRows[C[p].i]
    <3>1. SUFFICES ASSUME NEW p \in DOMAIN C, NEW k, k = C[p].i
                   PROVE  k \in Wanted /\ Seen(C[p].x) = SumOfRows[k]
      OBVIOUS
    <3>2. k \in Wanted
      BY <1>5, <3>1
    <3>3. Seen(C[p].x) = Seen(SumOf(k))
      BY <1>5, <1>7, <1>8, <3>1, <3>2 DEF Seen
    <3> QED
      BY <1>8, <1>10, <3>2, <3>3
  <2>4. \A k \in Wanted : \E p \in DOMAIN C : C[p].i = k
    BY <1>5
  <2>5. Given' = {<<k, SumOfRows[k]>> : k \in Wanted}
    BY <2>1, <2>3, <2>4
  <2>6. {k \in RowsWithTerms : SumOfRows[k] # {}} = Wanted
    BY <1>8, <2>2
  <2> QED
    BY <2>5, <2>6
<1>13. UNCHANGED <<ToDoOfRows, SumOfRows>>
  <2>1. \A k \in RowsWithTerms : Seen(SumOf(k))' = Seen(SumOf(k)) /\ ToDo(k)' = ToDo(k)
    BY <1>1, <1>3, <1>6, <1>8 DEF Seen, ToDo, AnyTerm
  <2>2. RowsWithTerms' = RowsWithTerms
    BY RowsConstant
  <2> QED
    BY <2>1, <2>2 DEF ToDoOfRows, SumOfRows
<1> QED
  BY <1>10, <1>11, <1>12, <1>13 DEF Sums!Publish

LEMMA TaskPhase ==
  ASSUME NEW t \in Team, Task(t)
  PROVE  phase' = phase
BY DEF Task, SkipFalse, HashTask, HashScatter, HashSkip, HashFind, HashLock,
   HashUnlock, HashRestore, GusTask, GusScatter, GusFindAny, GusFlagAny, GusPutAny,
   GusFind, GusLock, GusUnlock, AccessHx, WriteHx, UpdateHx, StoreHx, FastUpdateHx,
   Count, Gather

LEMMA KnownSame ==
  ASSUME Known, UNCHANGED <<job, hsize, phase, pos, pc, probe, hf, Hf, Hx>>
  PROVE  Known'
<1>1. SlotIndices' = SlotIndices /\ (UseGustavson' <=> UseGustavson)
      /\ Garbage' = Garbage /\ \A s : RowAt(s)' = RowAt(s)
  BY DEF SlotIndices, UseGustavson, RowAt, Garbage
<1>2. \A t : /\ Running(t)' <=> Running(t)
             /\ Index(t)' = Index(t) /\ Slot(t)' = Slot(t) /\ Term(t)' = Term(t)
             /\ InNumeric(t)' <=> InNumeric(t)
  BY <1>1 DEF Running, Trips, Index, Slot, ToScatter, Term, UseGustavson, InNumeric
<1>3. \A t : RowHeld(t)' = RowHeld(t) /\ \A s : Holder(t, s)' <=> Holder(t, s)
  BY <1>2 DEF RowHeld, Holder
<1>4. \A s, k : Holds(s, k)' <=> Holds(s, k)
  BY <1>1, <1>3 DEF Holds
<1>5. ASSUME NEW t, TaskKnown(t)
      PROVE  TaskKnown(t)'
  <2>1. PICK s : s = Slot(t)
    OBVIOUS
  <2> QED
    BY <1>2, <1>5, <2>1 DEF TaskKnown
<1> QED
  BY <1>1, <1>2, <1>4, <1>5 DEF Known

LEMMA InitSums == Init => WInv /\ Sums!Init
<1> SUFFICES ASSUME Init
             PROVE  WInv /\ Sums!Init
  OBVIOUS
<1>1. /\ phase = "scatter" /\ job \in Jobs /\ 0 \in Team
      /\ \A s \in SlotIndices : Hx[s] = {Garbage}
  BY TeamAssumption DEF Init, Team
<1>2. \A k : SumOf(k) = {} /\ Seen(SumOf(k)) = {}
  BY <1>1, NoValues DEF Seen
<1>3. \A k : Terms(k) \subseteq Team \X Nat
  <2>1. ASSUME NEW u \in Team, NEW p \in DOMAIN job.work[u]
        PROVE  <<u, p>> \in Team \X Nat
    <3>1. p \in 1 .. Len(job.work[u]) /\ Len(job.work[u]) \in Nat
      BY <1>1, JobFields, LenProperties
    <3> QED
      BY <3>1
  <2>2. \A k : \A c \in Terms(k) : \E u \in Team : \E p \in DOMAIN job.work[u] : c = <<u, p>>
    BY TermsAre
  <2>3. \A k : \A c \in Terms(k) : c \in Team \X Nat
    BY <2>1, <2>2
  <2> QED
    BY <2>3
<1>4. \A k : ToDo(k) \subseteq Team \X Nat
  BY <1>1, <1>3 DEF ToDo, Seen, AnyTerm
<1>5. ToDoOfRows \in [RowsWithTerms -> SUBSET (Team \X Nat)]
  BY <1>4 DEF ToDoOfRows
<1>6. SumOfRows = [i \in RowsWithTerms |-> {}]
  BY <1>2 DEF SumOfRows
<1>7. Given = NotGiven
  BY <1>1 DEF Given
<1> QED
  BY <1>1, <1>5, <1>6, <1>7 DEF WInv, Sums!Init

LEMMA NextSums ==
  RInv /\ RInv' /\ WInv /\ [Next]_vars => WInv' /\ (AddsOrKeeps \/ Sums!Publish)
<1> SUFFICES ASSUME RInv, RInv', WInv, [Next]_vars
             PROVE  WInv' /\ (AddsOrKeeps \/ Sums!Publish)
  OBVIOUS
<1>1. PInv /\ PInv' /\ Typed /\ phase \in Phases
  BY DEF RInv, PInv, LInv, Typed
<1>2. CASE \E t \in Team : Task(t)
  <2>1. PICK t \in Team : Task(t)
    BY <1>2
  <2>2. CASE phase = "scatter"
    <3>1. SkipFalse(t) \/ HashScatter(t) \/ GusScatter(t)
      BY <2>1, <2>2 DEF Task, HashTask, HashSkip, HashFind, HashLock,
         HashUnlock, HashRestore, GusTask, GusFindAny, GusFlagAny, GusPutAny,
         GusFind, GusLock, GusUnlock, AccessHx, WriteHx, UpdateHx, StoreHx, FastUpdateHx,
         Count, Gather, At, InNumeric
    <3> QED
      BY <3>1, ScatterWrites
  <2>3. CASE phase = "numeric"
    <3>1. Summing /\ Known /\ phase' = "numeric"
      BY <2>1, <2>3, TaskPhase DEF RInv, WInv
    <3>2. Known' /\ AddsOrKeeps
      BY <1>1, <2>1, <3>1, TaskKeepsKnown
    <3> QED
      BY <3>1, <3>2 DEF WInv
  <2>4. CASE phase \notin {"scatter", "numeric"}
    <3>1. Count(t) \/ Gather(t)
      BY <2>1, <2>4 DEF Task, SkipFalse, HashTask, HashScatter, HashSkip, HashFind, HashLock,
         HashUnlock, HashRestore, GusTask, GusScatter, GusFindAny, GusFlagAny, GusPutAny,
         GusFind, GusLock, GusUnlock, AccessHx, WriteHx, UpdateHx, StoreHx, FastUpdateHx,
         At, InNumeric
    <3>2. /\ UNCHANGED <<job, hsize, Hf, Hx>> /\ phase # "done" /\ phase' = phase
      BY <3>1 DEF Count, Gather
    <3> QED
      BY <2>4, <3>2, LaterWrites, NothingGiven, SumsRest
  <2> QED
    BY <2>2, <2>3, <2>4
<1>3. CASE EndScatter \/ EndNumeric
  BY <1>3, EndScatterWrites, EndNumericWrites
<1>4. CASE Cumsum
  <2>1. /\ UNCHANGED <<job, hsize, Hf, Hx>> /\ phase = "count" /\ phase' = "gather"
    BY <1>4 DEF Cumsum, Barrier
  <2> QED
    BY <2>1, LaterWrites, NothingGiven, SumsRest
<1>5. CASE EndGather
  <2>1. /\ UNCHANGED <<job, hsize, Hf, Hx>> /\ phase = "gather" /\ phase' = "done"
    BY <1>5 DEF EndGather, Barrier
  <2> QED
    BY <1>5, <2>1, LaterWrites, EndGatherPublishes
<1>6. CASE UNCHANGED vars
  <2>1. UNCHANGED <<job, hsize, phase, pos, pc, probe, hf, Hf, Hx, C>>
    BY <1>6 DEF vars, locals
  <2>2. Given' = Given
    BY <2>1 DEF Given, NotGiven, Seen, AnyTerm
  <2>3. WInv'
    BY <2>1, KnownSame DEF WInv, SlotIndices, Garbage
  <2> QED
    BY <2>1, <2>2, <2>3, SumsRest
<1> QED
  BY <1>2, <1>3, <1>4, <1>5, <1>6 DEF Next, Master, Finished

\* The fine tasks keep what TermSum promises (GB_AxB_saxpy3): each step adds one
\* term, which the mask allows, to the sum of its row, or changes no sum; no
\* term that has been added is lost; and what is given in the end are the sums,
\* complete, for every team, product and table size.
THEOREM ImplementsSafety == Spec => Sums!Safety
<1>1. Init => WInv /\ Sums!Init
  BY InitSums
<1>2. RInv /\ RInv' /\ WInv /\ [Next]_vars =>
        WInv' /\ [Sums!Add \/ Sums!Publish]_<<ToDoOfRows, SumOfRows, Given>>
  BY NextSums DEF AddsOrKeeps
<1> QED
  BY <1>1, <1>2, ResultInvariant, PTL DEF Spec, Sums!Safety

LEMMA DoneIsGiven == RInv => (phase = "done" => Given # NotGiven)
<1> SUFFICES ASSUME RInv, phase = "done", Given = NotGiven
             PROVE  FALSE
  OBVIOUS
<1>1. {C[p].i : p \in DOMAIN C} = Wanted
  BY ResultOfInvariant DEF ResultRight
<1>2. <<-1, {}>> \in {<<C[p].i, Seen(C[p].x)>> : p \in DOMAIN C}
  BY DEF Given, NotGiven
<1>3. PICK p \in DOMAIN C : C[p].i = -1
  BY <1>2
<1>4. -1 \in Rows
  BY <1>1, <1>3 DEF Wanted
<1> QED
  BY <1>4 DEF Rows

\* The refinement itself (GB_AxB_saxpy3): a team that comes to its end, as TLC
\* finds that it does under the fairness of its threads, implements TermSum.
THEOREM ImplementsAtEnd == Spec /\ Terminates => ImplementsTermSum
BY ImplementsSafety, ResultInvariant, DoneIsGiven, PTL
   DEF Terminates, ImplementsTermSum, Sums!Spec
=============================================================================
