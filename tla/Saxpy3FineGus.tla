----------------------------- MODULE Saxpy3FineGus -----------------------------
(***************************************************************************)
(* The fine Gustavson tasks of saxpy3: Hf and Hx have one place for each   *)
(* row index, Hf holds only the flag f.                                    *)
(***************************************************************************)
EXTENDS Saxpy3Fine

Flag(f) == Entry(0, f)

\* Phase 1: mark the next true index of the mask (no two tasks have the same)
GusScatter(t) ==
  /\ phase = "scatter" /\ Running(t) /\ Index(t) \in job.Mtrue
  /\ UseGustavson
  /\ SetFlag(t, Flag(1))
  /\ Advance(t)
  /\ UNCHANGED <<job, hsize, phase, hf, zold, Hx, my_cjnz, C>>

\* Mutant: an atomic write is enough
LockFreeAnyMonoid == job.monoid.atomicWrite

\* The ANY monoid with an atomic write does without the lock
LockFree == job.monoid.any /\ job.monoid.atomicWrite

\* Nothing is to be done where the flag is f
MaskedOut(f) == (job.mask = "M" /\ f = 0) \/ (job.mask = "notM" /\ f = 1)

\* Phase 2, ANY monoid: the first task to see the place writes, and any
\* other that is as early.  With a mask the flag is set before the value.
GusFindAny(t) ==
  /\ At(t, "find") /\ UseGustavson /\ LockFree
  /\ LET f == Hf[Slot(t)].f
     IN  \/ (f = 2 \/ MaskedOut(f)) /\ Advance(t)
         \/ ~(f = 2 \/ MaskedOut(f))
              /\ Goto(t, IF job.mask = "none" THEN "write" ELSE "flag")
  /\ UNCHANGED <<job, hsize, phase, hf, zold, Hf, Hx, my_cjnz, C>>

GusFlagAny(t) ==
  /\ At(t, "flag")
  /\ SetFlag(t, Flag(2))
  /\ Goto(t, "put")
  /\ UNCHANGED <<job, hsize, phase, hf, zold, Hx, my_cjnz, C>>

GusPutAny(t) ==
  /\ At(t, "put")
  /\ Hx' = [Hx EXCEPT ![Slot(t)] = {Term(t)}]
  /\ Advance(t)
  /\ UNCHANGED <<job, hsize, phase, hf, zold, Hf, my_cjnz, C>>

\* Phase 2, other monoids: update at once, ignore, or lock
GusFind(t) ==
  /\ At(t, "find") /\ UseGustavson /\ ~LockFree
  /\ LET f == Hf[Slot(t)].f
         canUpdate == job.monoid.atomicUpdate /\ f = 2
     IN  \/ canUpdate /\ Goto(t, "fast")
         \/ MaskedOut(f) /\ Advance(t)
         \/ ~canUpdate /\ ~MaskedOut(f) /\ Goto(t, "lock")
  /\ UNCHANGED <<job, hsize, phase, hf, zold, Hf, Hx, my_cjnz, C>>

\* f = Hf [i], Hf [i] = 3, repeated until it was not locked
GusLock(t) ==
  /\ At(t, "lock") /\ UseGustavson
  /\ LET seen == Hf[Slot(t)]
         new  == IF job.mask = "M" THEN 1 ELSE 0
     IN  /\ MayLock(seen)
         /\ SetFlag(t, Locked(seen))
         /\ hf' = [hf EXCEPT ![t] = seen]
         /\ \/ seen.f = new /\ Goto(t, "write")
            \/ seen.f # new /\ Goto(t, IF job.monoid.any THEN "unlock" ELSE "update")
  /\ UNCHANGED <<job, hsize, phase, zold, Hx, my_cjnz, C>>

GusUnlock(t) ==
  /\ At(t, "unlock") /\ UseGustavson
  /\ SetFlag(t, Flag(2))
  /\ Advance(t)
  /\ UNCHANGED <<job, hsize, phase, hf, zold, Hx, my_cjnz, C>>

GusTask(t) ==
  \/ GusScatter(t) \/ GusFindAny(t) \/ GusFlagAny(t) \/ GusPutAny(t)
  \/ GusFind(t) \/ GusLock(t) \/ GusUnlock(t)
=============================================================================
