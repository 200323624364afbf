---------------------------- MODULE Saxpy3FineHash ----------------------------
(***************************************************************************)
(* The fine hash tasks of saxpy3: each access to an entry of Hf or Hx by   *)
(* a task is one action.  The table is probed linearly; the two low bits   *)
(* of an entry are its lock.                                               *)
(***************************************************************************)
EXTENDS Saxpy3Fine

\* M(:,j) has been scattered into Hf, and is M or !M
InTable(kind) == job.mask = kind /\ ~job.inPlace

\* Phase 1: put the next true index of the mask into the table.  An entry that
\* was there is taken out by the same swap, and then put elsewhere.
HashScatter(t) ==
  /\ phase = "scatter" /\ Running(t) /\ Index(t) \in job.Mtrue
  /\ ~UseGustavson
  /\ LET i_mine == IF probe[t] = 0 THEN Masked(Index(t)) ELSE hf[t]
         seen   == Hf[Slot(t)]
     IN  /\ SetFlag(t, i_mine)
         /\ \/ seen = Empty /\ Advance(t) /\ UNCHANGED hf
            \/ seen # Empty /\ Rehash(t) /\ hf' = [hf EXCEPT ![t] = seen]
  /\ UNCHANGED <<job, hsize, phase, zold, Hx, my_cjnz, C>>

\* Mutant: only an entry that is empty and not locked is tried
CandidateUnlocked(e, i) == e.h = i + 1 \/ (e = Empty /\ ~InTable("M"))

\* What the entry e of Hf is to a task that looks for index i
CanUpdate(e, i) == job.monoid.atomicUpdate /\ e = Unlocked(i)
Ignored(e, i)   == \/ InTable("M") /\ e = Empty
                   \/ InTable("notM") /\ e = Masked(i)
Candidate(e, i) == e.h = i + 1 \/ (e.h = 0 /\ ~InTable("M"))

\* GB_CHECK_MASK_ij: the mask is read in place
HashSkip(t) ==
  /\ At(t, "find") /\ ~UseGustavson
  /\ job.inPlace /\ ~MaskAllows(Index(t))
  /\ Advance(t)
  /\ UNCHANGED <<job, hsize, phase, hf, zold, Hf, Hx, my_cjnz, C>>

\* Phase 2: read an entry, and decide on what was read
HashFind(t) ==
  /\ At(t, "find") /\ ~UseGustavson
  /\ job.inPlace => MaskAllows(Index(t))
  /\ LET seen == Hf[Slot(t)]
         i    == Index(t)
     IN  \/ CanUpdate(seen, i) /\ job.monoid.any /\ Advance(t)
         \/ CanUpdate(seen, i) /\ ~job.monoid.any /\ Goto(t, "fast")
         \/ Ignored(seen, i) /\ Advance(t)
         \/ /\ Candidate(seen, i) /\ ~CanUpdate(seen, i) /\ ~Ignored(seen, i)
            /\ Goto(t, "lock")
         \/ ~Candidate(seen, i) /\ ~Ignored(seen, i) /\ Rehash(t)
  /\ UNCHANGED <<job, hsize, phase, hf, zold, Hf, Hx, my_cjnz, C>>

\* The owner of the lock has found entry e: it is new, or i's, or another's
IsNew(e)    == IF InTable("M") THEN e.f = 1 ELSE e = Empty
IsMine(e, i) == IF InTable("M") THEN e.f # 1 ELSE e = Unlocked(i)

\* Hf [hash] |= 3, repeated until it was not locked
HashLock(t) ==
  /\ At(t, "lock") /\ ~UseGustavson
  /\ LET seen == Hf[Slot(t)]
         i    == Index(t)
     IN  /\ MayLock(seen)
         /\ SetFlag(t, Locked(seen))
         /\ hf' = [hf EXCEPT ![t] = seen]
         /\ \/ IsNew(seen) /\ Goto(t, "write")
            \/ IsMine(seen, i) /\ Goto(t, IF job.monoid.any THEN "unlock" ELSE "update")
            \/ ~IsNew(seen) /\ ~IsMine(seen, i) /\ Goto(t, "restore")
  /\ UNCHANGED <<job, hsize, phase, zold, Hx, my_cjnz, C>>

\* Unlock the entry, which is now C(i,j)
HashUnlock(t) ==
  /\ At(t, "unlock") /\ ~UseGustavson
  /\ SetFlag(t, Unlocked(Index(t)))
  /\ Advance(t)
  /\ UNCHANGED <<job, hsize, phase, hf, zold, Hx, my_cjnz, C>>

\* Mutants: the entry is left locked, or emptied
HashRestoreForgets(t) ==
  /\ At(t, "restore") /\ ~UseGustavson
  /\ Rehash(t)
  /\ UNCHANGED <<job, hsize, phase, hf, zold, Hf, Hx, my_cjnz, C>>

HashRestoreEmpty(t) ==
  /\ At(t, "restore") /\ ~UseGustavson
  /\ SetFlag(t, Empty)
  /\ Rehash(t)
  /\ UNCHANGED <<job, hsize, phase, hf, zold, Hx, my_cjnz, C>>

\* Unlock with the prior value: the entry has been taken by another index
HashRestore(t) ==
  /\ At(t, "restore") /\ ~UseGustavson
  /\ SetFlag(t, hf[t])
  /\ Rehash(t)
  /\ UNCHANGED <<job, hsize, phase, hf, zold, Hx, my_cjnz, C>>

HashTask(t) ==
  \/ HashScatter(t) \/ HashSkip(t) \/ HashFind(t)
  \/ HashLock(t) \/ HashUnlock(t) \/ HashRestore(t)
=============================================================================
