# A verification of SuiteSparse:GraphBLAS in TLA+

The library keeps each matrix in one of four structures and defers work: a
matrix may hold *zombies* (deleted entries still in its structure), *pending
tuples* (new entries not yet in it) and *jumbled* vectors (out of order).  The
user sees none of this.  The modules here model that machinery as it is in
`src/Source`, TLC checks it on small matrices, and TLAPS proves its invariants
for matrices of any size.  Assignment (`GrB_assign`, `GxB_subassign`), the
operation that leaves most deferred work behind, is modelled on top of it.  Two
more components are concurrent: the fine tasks of `saxpy3`, threads that compute
one vector of a product together in one shared table, and the JIT, whose table
of kernels all user threads share.

## 1. Inventory

| Component | State | Operations | Correct when |
|---|---|---|---|
| Matrix object (`builtin/include/GB_Matrix_content.h`, `matrix`, `nvals`) | `magic, vlen, vdim, p, h, b, i, x, nvals, nzombies, nvec_nonempty, iso`, settings | new, nnz, nvals, phybix_free | counters agree with the content; a failed object is refused |
| Structures (`convert`) | which of `p, h, b` are there | 12 conversions, hysteresis tests, `GB_conform` | content unchanged, structure allowed by the sparsity control |
| Deferred work (`pending`, `wait`, `transplant`, `builder`) | `Pending`, `nzombies`, `jumbled` | `GB_Pending_add`, `GB_wait`, `GB_unjumble`, `GB_block`, `GrB_Matrix_wait` | finishing the work gives what doing it at once would have |
| Hyperlist and hash (`hyper`) | `A->h`, `A->Y` | build, prune, lookup | the hash finds exactly the current hyperlist |
| Element access (`element`) | none | set, remove, extract | an update is found again, once |
| clear, resize, options (`clear`, `resize`, `get_set`, `iso`) | `sparsity_control, no_hyper_hash, iso` | clear, resize, set | as above, in the new size or structure |
| Assign and subassign (`assign`, `dup`) | that of C | prepare (clear, wait, iso), choose a method, insert, delete, copy, replace | C has the content that the user guide defines, its deferred work stays sound |
| Accumulator and mask (`mask`, `add`, `emult`) | none | `C<M> += T` | C has the specified content |
| Multiply: fine tasks of saxpy3 (`mxm`) | `Hf, Hx` shared by a team, `my_cjnz`, where each task is | scatter the mask, find, lock, update, unlock, count, gather | no update lost, no index twice, no task spins for ever |
| Multiply: the rest (`mxm`) | workspace per task | coarse tasks, slicing, bitmap saxpy, dot, colscale | same result for every number of tasks |
| Builder, sort, cumsum, slicing | workspace per thread | build, sort, cumulative sum | same result for every number of threads |
| JIT (`jitifyer`) | `GB_jit_table`, `GB_jit_control`, a lock, the libraries loaded, the cache folder | lookup, insert, check, open, compile, fail, set the control | the kernel that runs is the current one; no library is lost; a failure stops what failed |
| Context, init, global | engaged context per thread, world context, mode | engage, disengage, set | settings of one thread do not reach another |
| Serialize, import/export, containers, iterators | shallow flags | pack, unpack, attach | each array freed once |
| Types, operators, monoids, semirings, printing | immutable | | |

How they interact: every user function validates its objects, then calls the
internal method.  A method that needs entries in place calls `GB_wait`; it
builds a hypersparse T of the pending tuples, prunes zombies into W and
transplants it back, sorts the vectors, adds T, transplants the sum, and calls
`GB_conform`, which may convert to any structure the sparsity control allows.
A method that produces a result T writes it with `GB_accum_mask` and `GB_mask`
(transplant and conform) and ends in `GB_block`.  An assignment changes C in
place: it decides first whether the work that C has can stay, and adds zombies
and pending tuples of its own.  Any of these allocates memory and may fail in
the middle.  Every method may ask the JIT for a kernel and falls back to a
generic one without it.

Hard behaviours: the order in which the deferred kinds of work are finished;
state that is read before a wait and used after it; hashes and counts that are
cached across a change; iso matrices, whose pending tuples have no values;
errors in the middle; inside the parallel kernels, atomics on shared tables;
and, in the JIT, a table that is searched with and without its lock, libraries
of an earlier definition or an earlier process, and failures that lower the
control other threads have read.  `PROJECT.json` lists them under "hazards", at their lines.

## 2. Modules

| Module | Models | |
|---|---|---|
| `MatrixData` | the matrix record, observers, `GB_phybix_free`, outcomes of a function | |
| `MatrixConvert` | `src/Source/convert` | extends `MatrixData` |
| `MatrixWait` | `pending`, `wait`, `transplant`, `hyper`, the rest of `GB_conform` | extends `MatrixConvert` |
| `MatrixOps` | the user functions as operators | extends `MatrixWait` |
| `MatrixSound` | what must hold between two calls | extends `MatrixData` |
| `MatrixSpec` | `VARIABLES C, reply`, one action per user function | extends both |
| `AbstractMatrix` | what the user is promised: a map from positions to values | on its own |
| `MatrixInvariants` | the properties, the refinement mapping | extends `MatrixSpec` |
| `MCMatrix` | values for TLC | extends `MatrixInvariants` |
| `Matrix*Proofs` | theorems: conversions, waiting, operations, the specification | |
| `MatrixRefinement` | theorem: the specification implements `AbstractMatrix` | extends `MatrixProofs` |
| `MatrixAssign` | `GB_assign_prep`, `GB_subassigner_method`, the methods, `GB_assign`, `GB_subassign` | extends `MatrixOps` |
| `AbstractAssign` | the definition of assign and subassign in the user guide | extends `AbstractMatrix` |
| `MatrixAssignSpec` | the user also assigns; properties, refinement mapping | extends `MatrixInvariants`, `MatrixAssign` |
| `MatrixAssignProofs` | theorems: assignments keep the matrix sound | extends `MatrixAssignSpec`, `MatrixProofs` |
| `MatrixAssignRefinement` | theorem: assignments implement `AbstractAssign` | extends `MatrixAssignProofs`, `MatrixRefinement` |
| `MCAssign` | 18 assignments for TLC, named after the methods they take | extends both |
| `Saxpy3Fine` | what the fine tasks of both methods share: work, workspace, phases, access to `Hx`, count and gather | |
| `Saxpy3FineHash` | the fine hash tasks, one action per access | extends `Saxpy3Fine` |
| `Saxpy3FineGus` | the fine Gustavson tasks, one action per access | extends `Saxpy3Fine` |
| `Saxpy3` | specification with fairness, properties, refinement mapping | extends both |
| `TermSum` | what a team promises: each term added once, then the vector | on its own |
| `MCSaxpy3` | products for TLC | extends `Saxpy3` |
| `Saxpy3Proofs` | theorems about the locks, the updates, the hash table and the result | extends `Saxpy3` |
| `Jitifyer` | `jitifyer/GB_jitifyer.c`: table, lock, control, libraries, cache folder, the user | on its own |
| `MCJitifyer` | kernels for TLC | extends `Jitifyer` |
| `JitifyerProofs` | theorems about the lock, the control, the hash table, the libraries and the code | extends `Jitifyer` |

**State.** `C` is the matrix: a record whose fields are those of
`struct GB_Matrix_opaque`.  The arrays `p, h, i, b, x` are abstracted to
`entry`, a function from positions to a value, `Zombie` or `Absent`, with `fmt`
for which arrays exist and `h` for the hyperlist.  `A->Y` is the set of vectors
the hash finds, which need not be the hyperlist: that is a property.
`unsorted` is the set of vectors that really are out of order, which the code
does not know; it only knows `jumbled`.  A search in an unsorted vector misses
its entry.  `nvals`, `nzombies` and `nvec_nonempty` are kept as counters of
their own, updated where the code updates them.

**Actions.** A user function runs to its end before the next one starts on the
same matrix: the library requires a matrix that is written to be owned by one
thread.  So each user function is one action.  An operator such as
`Wait(A)` is the *set of outcomes* `[m, info]` of the function; an allocation
that fails adds one, with what the code then leaves.  `Then` is the macro
`GB_OK`, `FreeOnError` a `GB_FREE_ALL` that includes `GB_phybix_free`.
`reply` holds the last call, what it returned, and the value.

**Abstracted.** Row or column orientation; the numbers of threads; 32 or 64
bit index arrays (in `GB_resize` a failure to change them has the same outcome
as the failures that are modelled); the switches, which are constants of a run;
shallow components, and the buckets of the hash.  The types of scalars are
kept, as a wrong cast is one of the hazards: `Cast` and `Apply` are constants.
The builder skips its sort when `Pending->sorted` says so: the model takes the
right result, and `WorkSound` says that the flag is right.

**The fine tasks.**  A team computes one C(:,j).  `Hf` is its table: an entry
`[h, f]` is an index plus one, and a flag of two bits, which is 3 while some
task has the entry locked.  Gustavson's dense `Hf [i]` is the same with h = 0.
`Hx` holds the values; a value is the *set of terms* added into it, so that a
lost term, one that is added to the wrong row, and a value never initialised
can all be seen.  `pos` is the place of a task in its loop, `pc` what it does
next in the body, `probe` how often it has rehashed (cut off after a full turn
of the table, as `(hash+1) & hash_bits` does).  Each atomic read, write and
capture of `Hf` and `Hx` is one action: `HashFind` reads without the lock and
decides, `HashLock` is the capture `Hf [hash] |= 3` that succeeds (while it
fails nothing changes and the action is disabled), `HashUnlock` and
`HashRestore` write the entry.  `UpdateHx` is one step where the monoid has an
atomic update and a read followed by `StoreHx` where it has not.  The barriers
of the parallel regions are the actions of `Master`.

Abstracted there: the choice between hash and Gustavson is free when the code
chooses by itself; a compare-and-swap loop is the step that succeeds; the two
atomics of PLUS on complex numbers are one; atomics are sequentially
consistent (`omp/include/GB_atomics.h:113`); the order of the terms of a task
is the one given, which covers the binary search of `GB_SCAN_M_j` (it selects
the same terms); whether C is jumbled; and a team for one vector, since teams
have disjoint parts of the workspace.  C is allocated between phases 4 and 5;
that this may fail is not modelled.

`GB_removeElement` on a full matrix reads through a NULL pointer.  The model
returns `"CRASH"` and stops.  The runs Calls and Options, where full matrices
are allowed, check everything else under `SurvivingSpec`, the behaviours
without that step.

**Assignments.**  An assignment is a record: the region C(I,J), the mask and
its descriptor, the accumulator, and A or a scalar.  `Prepare` is
`GB_assign_prep` up to the wait (early clear, pending tuples dropped,
`MustWait`), `Method` the choice of `GB_subassigner_method`, made again after
the wait, `WithIso` the new iso status of C and of its tuples, `Subassigner`
and `BitmapAssign` the methods, `ReplaceOutside` the second pass of
`GrB_assign` over the rest of C, `Assigned` the whole call with `GB_conform`
and `GB_block`.  The methods 00 to 20, 22 and 23 differ in how they search;
what they do to an entry is the table of four cases in
`GB_assign_shared_definitions.h`, so they are one operator (`Update`:
`UpdateEntries` deletes, undeletes and changes, `InsertTuples` adds the tuples
of all tasks).  `GB_UNJUMBLE` may finish and conform C inside of it; a C that
is then neither sparse nor hypersparse, for which the method was not chosen,
counts as `"CRASH"`.  Methods 21, 24, 05e, 25 and 26 copy structures and have
operators of their own; so have the bitmap methods.  M and A are finished, may
be jumbled, and are given at the positions of C that they are for.

`SoundSpec` leaves out the calls that methods 21 and 26 get wrong
(`KeepsZombies`, `LeavesHash`; Findings 4 and 5), as the rest could not be
checked behind them.  Left out too: C aliased with M or A (methods 05f, 06d,
27 and the copy `Cwork`), transposed A, row and column assign, lists with
duplicates (`GB_assign_prep` sorts and removes them; a contiguous set of
columns is taken as a range, as method 26 asks), and the name of a matrix, which
`GB_dup_worker` copies.  A failed allocation is modelled (`NoMemory`), but in no
run: with it the safety properties hold (these are theorems), `RefinesAssign`
does not, since after a `GB_conform` that ran out of
memory the wait in the middle of a later assignment may make C bitmap (see
`NoCrash` in the proofs).

**The JIT.**  A call of `GB_jitifyer_load` is a thread's way through
`called` (read the control), `probe` (search without the lock, control RUN) or
`wait` and `find` (search under the lock, check a PreJIT kernel or an operator,
free it if stale), `open` (dlopen, check, remove a stale library), `compile`,
`insert` (dlsym and the table), `run`.  `table` has the slots of `GB_jit_table`
with linear probing; it grows by a factor of 4 when a quarter is full.  `lib`
counts the handles of each library in the process, as dlopen does; `disk` is
the cache folder.  A code is the definition that a kernel was compiled from.
The user sets the control and redefines the operator between calls (a new
definition is used by other kernels only after the control has been OFF, as
`GrB_jit.tex` demands; `stale` records it).  `Restart` ends the process at any
step and keeps the folder.  dlopen and the compiler are external; paths,
compilers and flags, and a failure while the PreJIT table is built, are left
out; user-defined types are handled as operators are.

Where a doc says less than the code: `GrB_jit.tex:158-160` says that with the
control LOAD a stale kernel sets the control to RUN; the code
(`GB_jitifyer.c:1979-1985`) removes the library, returns `GrB_NO_VALUE` and
leaves the control.  `GraphBLAS.h:437` says that in blocking mode nothing is
left pending; `removeElement` calls no `GB_block` and leaves a zombie.
`GB_conform.c:14-15` says that the matrix is cleared on failure; it keeps its
entries, which is what `Refines` asks.  `GB_resize` does free the matrix when
its `GB_conform` fails, but has set the new dimensions before: the invalid object
that is left has the new size, and `AbstractMatrix` allows both.

## 3. Properties

Of the matrix:

* `TypeOK`: the type invariant.
* `StructureSound`: entries in range; `nvals`, `nzombies`, `nvec_nonempty`, the
  hyperlist and the hash agree with them.  `GB_matvec_check` asserts part of it
  in debug builds.
* `WorkSound`: pending tuples are for absent positions in range, are sorted if
  marked so and are fewer than the positions; unsorted vectors are announced;
  bitmap and full matrices are idle.
* `IsoSound`: the one value stands for all, and pending tuples of an iso
  matrix have no value and no operator.
* `FreedSound`: a failure that frees the content frees all of it.
* `HeldAsControlled`: the structure is one that the sparsity control allows.
* `JumbledStaysSparse`: a matrix that is not sorted is not due to become bitmap,
  so that finishing it in the middle of an assignment does not change its
  structure.
* `WaitedIsReadOnly` (action property): after `GrB_Matrix_wait` nothing is left
  that a later reader would have to do (so that several threads may read).
* `Refines`: the specification implements `AbstractMatrix` under the mapping
  `AbsOf`, in which a pending position has the value its tuples build.  Every
  value returned, every count, and every outcome of a failure is covered.

Of assignments:

* `RefinesAssign`: with assignments the specification implements
  `AbstractAssign`: every method, with whatever work is deferred before and
  after it, gives what the user guide defines, and no call meets a structure
  that its method cannot work on.
* `JumbledHasNoTuples`: a jumbled matrix has no pending tuples.  A wait
  in the middle of a method (`GB_UNJUMBLE`) has then only zombies to finish.
  (A theorem.)
* `StructureSound`, `WorkSound`, `IsoSound` as above, for all that assignments
  add, copy and delete.
* `DenseIsSettled`, `HashIsCurrent`, `ControlKept`: what the comments say, and
  the code breaks (Findings).

Of the fine tasks of saxpy3:

* `TypeOK`: the type invariant.
* `LockSound`: an entry is marked as locked exactly while one task is in its
  critical section, and never two.
* `UpdateExclusive`: between the read and the write of an update that is not
  atomic nobody else changes the value, with or without the lock.
* `TableSound`: no index is in the table twice, and no empty slot lies between
  the first slot of an index and its place, although the mask was scattered by
  several tasks that displaced each other's entries.
* `ResultRight`: at the end C(:,j) has exactly the rows it should, once each,
  in consecutive positions, with all their terms (one of them for ANY).
* `Terminates` (liveness): every task finds its slot, gets its lock and ends.
* `ImplementsTermSum`: the team implements `TermSum`, in which a term is added
  in one step and the vector is given when none is left.

Of the JIT:

* `TypeOK`: the type invariant.
* `TableSound`: the count of entries is right after every failure and the table
  is never full, so that a lookup ends.
* `HandlesBalanced`: each library is closed as often as it is opened, whatever
  fails in between.
* `KernelRight`: the kernel that runs was compiled from the current definition
  and is still loaded, through redefinitions, PreJIT kernels, stale libraries
  and restarts (for the operators themselves see `OperatorRight`).
* `OperatorsFound`: an operator in the table is found, whatever has been freed
  on its way.  This depends on the hashes: it holds in the run Jit, where no
  PreJIT kernel lies before the operator.
* `OperatorRight`: the operator that the user gets is the one defined now.  It
  holds where `OperatorsFound` does (that is a theorem), and fails in the run
  StaleOperator.
* `ErrorsStop`: no step fails twice before the user sets the control again.
* `LockSound`: one call is in the critical section, and every return leaves it.
* `NoInsertWhileRead` (action property): a search without the lock meets no
  insertion and no move of the table, because only a control below LOAD lets a
  thread search so, and no failure raises the control.
* `ReadersUndisturbed`: what a comment says and the code breaks (Findings).

**Fairness.**  No action of the matrix waits for another, a user may stop
calling, and the code schedules nothing by itself: no fairness is justified
for that component and none is assumed, so it has no liveness property; the
same holds of assignments.  Calls of the JIT come and go as user threads
please; that each ends rests on `TableSound` and `LockSound`, and its liveness
under fairness is too large for TLC.  The
fine tasks run in OpenMP parallel regions whose threads are all scheduled and
run their tasks to the end: weak fairness of each task.  A region ends when its
tasks have, and the next statement follows: weak fairness of `Master`.  Weak
fairness of a task is enough although a lock may be taken many times while it
waits: each taking is the progress of another task, of which there is only a
finite amount.  Tasks that share a thread run one after the other; such a
schedule is one of those modelled, and as an iteration holds a lock only until
its own end, no task of a thread waits for a later one of the same thread.

Deadlock is checked in all runs but RemoveFull, where the crash ends the run;
in the run of the fine tasks it would be tasks that wait for each other.

## 4. Runs

| Run | Constants | Shows |
|---|---|---|
| Calls | 2x2, 1x2, 2x1, 0x1 with resize, two values, NULL and PLUS (addition modulo 2), 14 results T | element updates, waits, resize and C = T in every order |
| Options | 1x2, 2x1, 1x3, NULL and SECOND, all 15 controls, hash, iso, clear, resize | structure changes under deferred work |
| Memory | as Options with the 7 controls without "full", NULL only; any allocation may fail | partial failures |
| Subassign | 2x2, two types, NULL and PLUS, 18 assignments, setElement and removeElement of one position; nothing follows a third pending tuple | every method of assign on a C with any work left |
| FineTasks | three tasks, tables of 8 and 16 places and Gustavson's 32, 12 masks, monoids with and without atomic updates and writes, ANY | the table, the locks, the result, termination, refinement of `TermSum` |
| Jit | two threads, three kernels (plain, operator, PreJIT) whose hashes collide, a table of 2 places that grows to 8 and 32, two definitions, all failures | the table, the libraries, the control |
| RemoveFull, StaleOperator, UnlockedSearch, SplatZombies, StaleHash, SettingsLost | small | the findings below |

**Bounds.** `MaxVlen` and `MaxVdim` bound the dimensions (at most 3).  One
vector, several vectors, fewer hyperlist members than vectors, and a vector
with several entries all occur; the proofs cover larger ones.  The pending list
is bounded by the code (`GB_block`), not by the model, but in Subassign, where a
matrix with more than `MaxTuples` = 2 of them is checked and not continued from.  Two values are enough
to tell iso from non-iso and PLUS from SECOND; a cast from the second type
flips the value, so that a tuple cast with the wrong type is seen.  In
Subassign 2x2 is enough for a region that is part of a vector, a whole one and
all of C; the assignments were chosen so that each method, the early clear, the
empty mask, the second pass of replace and each reason to wait happen (seen by
making each a false invariant in turn).
`HyperSwitch` is 1/4 (1/16 in the code), `BitmapSwitch` 1/2 and `HyperHash` 0
(1024 in the code), so that each conversion and the hash happen on such small
matrices.  `Indices` has positions too far in each direction (in Options and
Memory those of the other sizes); in Calls, where
an accum operator and the assignments multiply the pending lists, calls name
three positions of 2x2 (two in one vector, two vectors) and one too far, and the
fourth is filled by the assigned T.

For the fine tasks `VLen` is 32 and the rows are chosen, not enumerated: 15 and
31 have the same first slot, the last one of a table of 8 or of 16, and 16 has
the slot after it, so entries collide, are displaced and wrap around.  The jobs
`Wide` and `Tall` are those where the flops alone (of C, or of the scan of
B(:,j)) choose a larger table or Gustavson.  Each task has at most two terms
(or scans six entries of B(:,j)): enough for two tasks to meet at one entry
while a third passes by or moves on to the next slot.  The theorems about the
locks, the updates and the table hold for any number of tasks and terms.

Of the JIT two threads are enough for one to search without the lock while the
other holds it; the third kernel makes the table grow, as 2 entries of 8 are
a quarter.  `errors` counts up to 1, since a second error is a violation.  The
theorems about the JIT hold for any number of threads and
kernels.

**View.** `VIEW View` (the matrix alone) merges states that differ in `reply`.
No guard reads `reply` but the one that stops after a crash, action properties
are checked on every transition generated, and no invariant of these runs reads
`reply` except `TypeOK`, whose theorem is proved without the view.

## 5. Findings

1. *RemoveFull.*  `GB_Matrix_removeElement` waits for pending tuples and then
   searches again; the wait may have made the matrix full, and the search reads
   `C->p`, which is then NULL.  `GrB_Matrix_removeElement.c:32` asserts that it
   never is.
2. *StaleOperator.*  Freeing a stale PreJIT kernel empties a slot in the middle
   of a chain of linear probing, and a lookup takes an empty slot as the end
   (`GB_jitifyer.c:2152`, `:2316`).  An operator behind it is no longer found;
   its library, still loaded through the lost entry, is what dlopen gives for
   the new definition too, and the user gets the old function.
3. *UnlockedSearch.*  With the control RUN a stale PreJIT kernel is freed inside
   the critical section (`GB_jitifyer.c:1741`) while another thread may compare
   its suffix in a search that needs no critical section (`:1627`).
4. *SplatZombies.*  `C(:,:) = scalar` (method 21) calls
   `GB_convert_any_to_full` and does not reset `nzombies` and `jumbled`, as
   method 24 does.  The full matrix still counts zombies, so that `GrB_Matrix_nvals`
   is too small and the assertion of `GB_wait.c:74` fails.
5. *StaleHash.*  Method 26 appends to the hyperlist in place and keeps `C->Y`;
   `extractElement` then does not find the new entries.
6. *SettingsLost.*  Methods 05e and 25 make C a copy of the mask with
   `GB_dup_worker`, which takes the mask's `sparsity_control` along; method 24
   restores the one of C.

Runs 4 to 6 agree with the behaviour of the built library on the same calls.

## 6. Proofs

`MatrixProofs` proves, for every value of the constants that the ASSUMEs allow
(any dimensions, values, types, operators, switches, with or without blocking
and memory failures, any results that are sound themselves):

* `Invariant`: `Spec => []Inv`, where `Inv` is `Good(C)` (the type, and
  structure, work and iso soundness of a valid matrix or emptiness of a freed
  one), `Orderly(C)` (fewer pending tuples than positions, and none in a jumbled
  matrix), and the type of `reply`;
* `TypeCorrect`, `StructureIsSound`, `WorkIsSound`, `IsoIsSound`,
  `FreedIsSound`: the invariants of the runs, from `Inv`;
* `CountedInvariant`: `nvec_nonempty` is known between two calls, and no call
  runs out of memory where none may; `WaitIsComplete`: the action property
  `WaitedIsReadOnly`; `ControlIsHeld` and `ControlHeldWithMemory`:
  `HeldAsControlled` as long as no call has run out of memory;
* `JumbledIsSparse`: `JumbledStaysSparse`, under the same hypothesis.

`MatrixRefinement` proves `ImplementsMap`: `SurvivingSpec => Refines`, the
implementation of `AbstractMatrix`, with memory failures and for any constants.

The four parts are proved together since none is inductive alone: that a
conversion keeps the counters right needs that pending tuples and zombies are
as announced, and that the merge of pending tuples is right needs that they are
disjoint from the entries.  `Orderly` is kept out of
`Good`: `GB_Pending_add` breaks the bound and `GB_block` restores it within one
call.
`Safe(A, S)` is the contract of an internal function: every outcome is good,
has the size of A, and has no deferred work that A has not.  `Keeps(S)` is the
contract of a user function.  The chain is `MatrixWaitProofs` (each
conversion, `GB_conform`, assembly of the tuples, zombies, merge, `GB_wait`,
`GB_block`), `MatrixOpsProofs` (each user function), `MatrixProofs` (each
action).  The value that pending tuples build is defined
with CHOOSE over functions on the places of the list; that such a function
exists is proved with a least counterexample (`LeastNat`, `BuiltUpTo`), as
induction principles with an operator parameter are not usable here.

The last theorems of `MatrixProofs` are about the header of the matrix only
(`Header`: `vdim`, `fmt`, `nne`, `control`), so they need no soundness.
`Follows(A, B)` says that B has the settings of A and its vectors counted if
those of A are, `Obeys(A, r)` that an internal function keeps this whether it
fails or not, and `Minds(A, S)` that a user function ends held as controlled if
it succeeds.  A call that fails may not: `GxB_SPARSITY_CONTROL` is set before
`GB_conform` runs out of memory, and the matrix then stays in a structure that
the new control forbids, until a later call conforms it.  So the theorem has the
hypothesis that no call has failed in this way; the run Memory does not check
`HeldAsControlled` for the same reason.

The refinement is proved in three layers.  `View(A)` is what the user sees of A.
First, an internal function leaves it alone: conversions, pruning and hashing
keep the live entries and the tuples (`Alike`, `Retains`), and `GB_wait` gives
each position the value that its tuples build (`Keeping`).  Second, a user
function given A shows the view that the abstract call asks for, or fails with
the old view, the new one, or an invalid object (`Shows(A, V, r)`).  The
difficult ones are `setElement`, where a tuple is added behind others of the same
position (`Longer`: the values that the list has built so far stay), or the iso
value is spread over the pending tuples; and `resize`, which cuts the columns
before the rows and may convert in between (`Cropped`).  Third, one step lemma
per action turns this into a step of `AbstractMatrix`.  Here the invariant `Inv`
is needed throughout: that an entry which is not found is not there needs the
hash, the hyperlist and the jumbled flag to be right, and that a tuple does not
hide an entry needs them to be disjoint.  `SecondAssumption` is used where tuples
with the operators NULL and SECOND are mixed: both keep the last value, cast from
its type, and a value of the type of the matrix is cast to itself.

While this was proved the specification was found to be wrong in one place:
`AbstractMatrix` allowed an invalid object of the old size only, and no run had
`resize` together with failures of memory.  The run Memory has it now.

`MatrixAssignProofs` proves `AssignInvariant`: `SoundSpec => []Intact`, where
`Intact` is `Good(C) /\ Orderly(C)`, and from it `AssignStructure`, `AssignWork`,
`AssignIso`, `AssignFreed` and `AssignNoTuples`, for any set of assignments that
`AssignmentsAssumption` allows (any regions, masks, accumulators, scalars and
matrices that are finished and sound themselves, where a full A has an entry
for each position of C(I,J)), with or without memory failures.  Only the two calls of Findings 4 and 5 are excluded, and each
exclusion is used at one place: `KeepsZombies` where the method 21 writes over
C, `LeavesHash` where method 26 appends to the hyperlist.  The proof follows
the code.  `Kept` is what a user function promises, as in `MatrixOpsProofs`;
`Tidy` the same before `GB_block`, without the bound.  `Loose` is a sound matrix
whose iso status has been set by `WithIso` before its entries follow.
`Asked` is what `GB_assign_prep` has made of the arguments, and `Fed(D, q, m)`
what method m may be given: for all but `"update"` a C without tuples, for
`"21"` one that is iso and has no zombies, for `"26"` one without a hash, and so
on.  `KeptPrepare` shows that the early
clear and the wait keep this, `FedWithIso` that the new iso status does,
`TidyMethod` that each method ends in a good matrix, and `KeptAssigned` puts
them together with `ReplaceOutside`, `GB_conform` and `GB_block`.  Three facts
need more than the code shows at their place.  The tuples that the tasks add
are in order and stay so behind those of an earlier assignment only if these
were (`InOrderSorted`, by the rank of each position).  `GB_UNJUMBLE` may finish C
in the middle of a method: what the method was chosen for remains since a
jumbled C has no tuples (`FedUnjumbled`); where the structure changes all the
same the model ends with `"CRASH"`, of which these theorems say nothing but
that the matrix is sound (see `NoCrash` below).
And `LeavesHash` speaks of C at the
call, whereas method 26 runs after a wait and a conversion: `OldHash` shows that
nothing in between builds a hash, so a C that has one then had it before.

`Invariant` did not contain "a jumbled matrix has no tuples" before this; the
functions of `MatrixOps` keep it too, and it is now part of `Orderly` for
all of them.  The proof also found the specification wrong in one place: when
`GB_bitmap_assign` runs out of memory its `GB_FREE_ALL` frees C, which the
model had left intact.

`MatrixAssignRefinement` proves `ImplementsAssign`: `SoundSpec` implements
`AbstractAssign`, with memory failures and for any assignments, as long as no
call has ended in `"CRASH"`.  It uses the layers of `MatrixRefinement`; the
middle one is new, since an assignment changes all positions of C, in several
passes.  `Turns(A, V, r)` is the contract of a pass: if it succeeds the user sees
V.  `Wanted(V, q)` is the view that the user guide defines (`WantedAbstract`),
`Inner` what the method makes of C(I,J); `ReplaceOutside` does the rest.  `Meant`
is what the user is meant to see while C has its new iso status and the entries
do not follow yet, and `Agreed` what the choice of the method guarantees: all
values that will be written are the iso value, and tuples are added to a list
with the same operator and type.  The lazy methods are the core
(`UpdatedView`): a position that an earlier assignment left pending gets a
second tuple behind the first, one that is an entry or a zombie gets none, and
what the list then builds is what the accumulator makes of the old view
(`InsertedView`; `BuiltSecond` where the operator is NULL).  The methods that
copy a structure (21, 24, 05e, 25, 26) and the bitmap methods show it position
by position.  `TurnsPrepare` shows that the early clear, the tuples dropped and
the wait change nothing of what is wanted.

`NoCrash` removes the hypothesis as far as it can be: no call crashes as long as
none has run out of memory, and so `ImplementsWithMemory`, that `SoundSpec`
implements `AbstractAssign` where memory does not fail.  What has to be shown is
that the wait in `GB_UNJUMBLE` leaves C sparse or hypersparse, although it
conforms C.  That C has no tuples then (`AssignNoTuples`) is not enough, as
`GB_conform` may choose bitmap.  It does not because C has been conformed before,
when it had at least as many entries: `Calm(A)` says that an unsorted A is not due
to become bitmap (`JumbledStaysSparse`, of any matrix), and removing zombies keeps
this (`SparselyThinner`, `ZombiesThinner`, `WaitStaysSparse`).  That every call
leaves C calm follows where it ends in `GB_conform` (`CalmConform`), is sorted
first (`Sorted`), or changes nothing that `GB_conform` looks at (`CalmSame`); this is
`CalmNext` and, of assignments, `EndsAssigned`, where `Ends(r)` says that a part of
a call does not crash.  Memory matters: a `GxB_SPARSITY_CONTROL` that fails has set
the control already, and leaves a matrix that may be unsorted and due to become
bitmap.  So the hypothesis is needed: method 25 leaves C jumbled with zombies,
`GxB_SPARSITY_CONTROL` "bitmap" returns `GrB_OUT_OF_MEMORY`, and an assignment by
method 01 takes the path for a sparse C before the `GB_UNJUMBLE` of
`GB_subref.c:201` makes it bitmap.  TLC finds this in the specification with
`MemoryMayFail`, and the built library ends in a segmentation fault on these calls;
`GB_subassign_symbolic.c:98` takes for granted that C is not bitmap there.

`Saxpy3Proofs` proves, for every team, set of products and table size:

* `LockInvariant`: `Spec => []LInv`, where `LInv` is the type of the variables
  the locks depend on, `Labelled(t)` (a task is in the middle of an iteration
  only in the numeric phase, at a label its kernel has, and what it has put
  aside is unlocked) and `LockSound`.  `LockSound` is not inductive without
  `Labelled`: `HashRestore` writes what the task has put aside, and a task of
  the lock-free kernel must never come to a label of the others;
* `LocksAreSound`, and `UpdatesAreExclusive`, which needs in addition that
  only monoids without an atomic update reach `StoreHx`, and that these have
  no fast path (`Suited`).
* `TableInvariant`: `Spec => []TInv`, and from it `TableIsSound`.  `TableSound`
  speaks of the entries that are in the table and holds by what is on its way
  into it.  In phase 1 (`ScatterOK`) each index of the mask is in one place: in
  the table, in the hand of one task (`Hand`: the next index of its share, or an
  entry it has displaced), or in what a task will scatter later (`Rest`).  The
  atomic exchange of a task moves one index into the table and another one out
  of it, and whoever is displaced goes on at the next slot after its own.  In
  phase 2 (`NumericOK`) every slot that a task has passed on its way is taken by
  another index (`Probed`), and an entry with an index never becomes empty
  again; so a task that finds an empty slot and gets its lock knows that its
  index is nowhere (`NotFound`): a place of it would lie on the way to the empty
  slot, or the empty slot on the way to it.  `MayTake` says what a task may find
  behind the lock that it waits for, and why writing back what it has put aside
  (`HashRestore`) loses nothing.

The way of an index goes round the end of the table: `StretchShape` gives the
slots between two of them, from lemmas on `%` that the provers do not know, and
`ScatterOnce` says that the shares of the tasks do not overlap.

`StepInv`, `TakeLock`, `GiveUpLock` and `KeepLocks` say what a step of one task
does to the locks; each action is an instance.  `TableAssumption` (the table
has a positive size) is checked by TLC and assumed in the proofs, as powers of
two and sums over sets are beyond the provers.

* `ResultInvariant`: `Spec => []RInv`, and from it `TypeIsRight` and
  `ResultIsRight`, that C(:,j) is what was asked for.  `RInv` puts the invariants
  above together with one for each phase.  In phase 1 `ScatterMask`: every true
  index of the mask is in the workspace or with a task, and nothing else is in
  the workspace; that the shares of the tasks leave out no index is `SharesCover`.
  In phase 2 `MaskOK` (what a task reads of the mask stays true although Hf is
  overwritten: with M nothing else comes in, with !M what is marked stays marked)
  and `SumsOK`.  `Holds(s, i)` says that C(i,j) is in slot s: it is marked so, or
  a task that has the lock knows it.  `Added(i)` is the set of the terms of row i
  whose task has gone on, or has yet to unlock.  `SumsOK` says that the value in
  the slot of i is `Added(i)` (for the ANY monoid: one of the terms, or a task is
  about to write one), that a row with a term added has a slot, and what each task
  knows where it stands.  After phase 2 `FinalOK`: each wanted row is in one slot,
  with all its terms.  In phases 3 to 5 `CountOK` and `GatherOK`: the position of an
  entry is the number of entries before it (`Rank`), so the tasks copy to places of
  their own that leave no gap (`RanksFill`, `PlaceIsRank`, `BeforeCounts`).

The step that a test would hardly reach is the first term of a row: two tasks
have both seen an empty slot, at once and perhaps for the same row, one takes it
and the other waits.  That no two slots are then the place of one row, and no slot
of two, is `OnePlace` and `OneRow`; they follow from the invariants of the locks and
of the table, `HoldsIsPlace` makes them say that a value has one slot, and `SumsStep`
uses them for each of the actions.

* `ImplementsSafety`: `Spec => Sums!Safety`, every step of the team is a step of
  `TermSum` or changes no sum; and `ImplementsAtEnd`:
  `Spec /\ Terminates => ImplementsTermSum`, where `Terminates` is the liveness
  that TLC checks.  A term counts as added when its value is in Hx and the entry
  has the index of the row.  For a new entry of the hash table this is not the
  write of the value but the unlock, which also stores the index; in a table
  with the mask the index is there already, and it is the write.  So
  the proof needs to know what Hx holds in between (`Known`): a value is only
  where a row has its place, and a task about to unlock a new entry has written
  its own term and nobody another one (`TaskKnown`).  `HoldsKept` says that a
  place once known stays the place of its row, and `SumsAreFinal` that at the end
  of phase 5 nothing is to be added any more.

`JitifyerProofs` proves, for any threads, kernels, hashes, failures and table
sizes, from `ControlInvariant`: the lock is held exactly by the thread at a
label of the critical section, a thread that searches without the lock does so
while the control is at most RUN, one that compiles or inserts while it is at
least what its step needs, and the control lies below the level of every
failure since the user last set it.  `LockIsSound`, `ErrorsDoStop` and
`ReadersSeeNoInsertion` follow.  `ErrorsStop` alone is not inductive: a step may
fail again unless the control has been lowered under it, and it stays lowered
only as long as nobody else raises it.

`TableInvariant` adds the counts: the types, `Counted` (the counter is the number
of entries, and a table has at least two slots and an empty one) and `Balanced`
(the handles of a library are those of its entries, and one more while the
owner of the lock is about to insert it).  `TypeCorrect`, `TableIsSound` and
`HandlesAreBalanced` follow.  That a call closes a library at most as often as it
is open needs `Balanced`; that `Balanced` survives the growth of the table needs
that every entry is moved, once, and nothing else appears: `RehashKeeps` carries a bijection between the entries of the two tables
through the loop of the rehash, and `ProbeReaches` says that linear probing from
any slot comes to every slot.  Loops are recursive functions there; that they
exist, and what they keep, is proved with a least counterexample (`LeastNat`).

`CodeInvariant` says which code an entry, a library and a call may have.  Six
parts are needed together: an entry with a handle has the code of its library;
an entry that will not be checked again, and a library that is loaded, have the
current code unless the user has redefined the operator since the control was
OFF; while it is OFF nothing is left that could become stale; a call wants what
is defined now; and a kernel that runs is in the table.  `KernelIsRight` follows,
for all hashes.  `OperatorIsRight` is `Spec /\ []OperatorsFound =>
[]OperatorRight`: a call that loads an operator has not found it, so it is not
there, so its library is not loaded and dlopen gives the new one.  This bounds
the finding StaleOperator from the other side: an operator hidden behind a
freed slot is the only way to the wrong one.

Only model-checked: of the fine tasks `Terminates`; of the JIT `OperatorsFound`, which holds for some hashes only.  Out
of the prover's reach and left to TLC: liveness under fairness, ENABLED, the
library's induction theorems (which take an operator as a parameter; least
counterexamples stand in for them), and anything about RECURSIVE operators
(there are none).

## 7. Plan

1. *Done*: the matrix component, its runs and its safety theorems.
2. *Done*: the fine tasks of saxpy3, their runs and the theorems about their
   locks, updates, table and result.
3. *Done*: the JIT and the theorems about its lock, control, table, libraries
   and code.
4. *Done*: assign and subassign on a C with deferred work.  Left: aliased
   arguments, `GB_accum_mask` with a mask, and `GB_masker`.
   Parallel cumulative sum with overflow (`GB_cumsum.c:62`), the shared flag of
   `GB_wait.c:409` and other early exits, the fine tasks of bitmap saxpy, shallow
   components.
5. *Done*: the theorems about the sparsity control and the counts, the
   refinements of `AbstractMatrix`, `TermSum` and `AbstractAssign`, the safety
   of assignments, and that they do not crash.

## 8. Not modelled

CUDA and GPU code (hardware semantics), FactoryKernels (generated), vendored
libraries, the MATLAB interface, demos and tests; serialization and printing
(format conversions); other numerical kernels, whose results enter as the `T` of an
assignment; contexts (the engaged one is private to a user thread, and the two
settings of the world context are single atomic reads and writes).
`PROJECT.json` gives every component with its reason.
