------------------------------- MODULE Jitifyer -------------------------------
(***************************************************************************)
(* The JIT of kernels (src/Source/jitifyer/GB_jitifyer.c): a hash table of *)
(* loaded kernels that all user threads share, a folder of compiled        *)
(* libraries that outlives the process, and a control that both the user   *)
(* and a failure of the JIT itself may lower.                              *)
(*                                                                         *)
(* A kernel is what a call asks for: its hash, its encoding and its        *)
(* suffix.  A code is what a kernel has been compiled from: the definition *)
(* of the user-defined operator that it uses, or BuiltIn.                  *)
(***************************************************************************)
EXTENDS Integers, Sequences, FiniteSets, FiniteSetsExt

CONSTANTS
  Threads,        \* the user threads
  Kernels,
  Hash,           \* kernel -> its hash code
  UserDefined,    \* the kernels with a suffix: they use the user's operator
  UserOps,        \* those that are the operator itself (GB_jit_user_op_family)
  Definitions,    \* the definitions the user gives to the operator
  BuiltIn,        \* the code of a kernel without user-defined operators
  PreJIT,         \* <<kernel, code>> of the kernels compiled into the library
  InitialSize,    \* GB_JITIFIER_INITIAL_SIZE
  MayFail,        \* what may fail: "compile", "dlsym", "memory"
  Nobody, NoCode

\* A table of one slot would be full with its first entry
ASSUME HashAssumption == Hash \in [Kernels -> Nat] /\ InitialSize \in Nat \ {0, 1}
ASSUME KernelAssumption ==
  /\ UserOps \subseteq UserDefined /\ UserDefined \subseteq Kernels
  /\ BuiltIn \notin Definitions /\ NoCode \notin Definitions \cup {BuiltIn}
  /\ Nobody \notin Threads \cup Kernels

Codes == Definitions \cup {BuiltIn}
ASSUME PreJITAssumption == PreJIT \in Seq(Kernels \X Codes)

\* GxB_JIT_Control
OFF   == 0
PAUSE == 1
RUN   == 2
LOAD  == 3
ON    == 4

VARIABLES
  table,          \* GB_jit_table: slot -> entry; << >> before the first insert
  populated,      \* GB_jit_table_populated
  control,        \* GB_jit_control
  lock,           \* who has set lock 1
  disk,           \* kernel -> code of its library in the cache folder
  lib,            \* kernel -> its library in this process: code, handles
  call,           \* the call that each thread is in
  definition,     \* the definition of the user's operator
  stale,          \* it has changed since the control was OFF
  errors          \* failures since the user last set the control

tableVars  == <<table, populated>>
userVars   == <<definition, stale>>
vars == <<tableVars, control, lock, disk, lib, call, userVars, errors>>
-----------------------------------------------------------------------------
(* The hash table *)

\* An entry; without a handle it is a PreJIT kernel, which may be unchecked
Entry(k, c, handle, unchecked) ==
  [kernel |-> k, code |-> c, handle |-> handle, unchecked |-> unchecked]
NoEntry == Entry(Nobody, NoCode, FALSE, FALSE)      \* dl_function is NULL

Size(tab)    == Cardinality(DOMAIN tab)             \* GB_jit_table_size
Entries(tab) == {s \in DOMAIN tab : tab[s] # NoEntry}
EmptyTable(n) == [s \in 0 .. n - 1 |-> NoEntry]

\* The first slot on the way of kernel k (k & GB_jit_table_bits) in S
FirstIn(S, k, n) ==
  (Hash[k] + Min({d \in 0 .. n - 1 : (Hash[k] + d) % n \in S})) % n

\* GB_jitifyer_lookup ends at an entry of k or at an empty slot
Stops(tab, k)  == {s \in DOMAIN tab : tab[s] = NoEntry \/ tab[s].kernel = k}
Lookup(tab, k) == FirstIn(Stops(tab, k), k, Size(tab))
Found(tab, k)  == tab # << >> /\ tab[Lookup(tab, k)] # NoEntry

\* Mutant of Place: the hash code of the entry is lost
PlaceUnhashed(tab, e) == [tab EXCEPT ![Min(DOMAIN tab \ Entries(tab))] = e]

\* Put an entry into the first empty slot of its kernel
Place(tab, e) ==
  [tab EXCEPT ![FirstIn(DOMAIN tab \ Entries(tab), e.kernel, Size(tab))] = e]

\* The entries in the order of their slots, into a table of size n
Rehash(tab, n) ==
  LET moved[k \in 0 .. Size(tab)] ==
        IF k = 0 THEN EmptyTable(n)
        ELSE IF tab[k - 1] = NoEntry THEN moved[k - 1]
        ELSE Place(moved[k - 1], tab[k - 1])
  IN  moved[Size(tab)]

\* Mutant of Roomy: the table grows when it is full
RoomyWhenFull(tab, pop) ==
  IF tab = << >> THEN EmptyTable(InitialSize)
  ELSE IF pop >= Size(tab) THEN Rehash(tab, 4 * Size(tab))
  ELSE tab

\* GB_jitifyer_insert: the table, with room
Roomy(tab, pop) ==
  IF tab = << >> THEN EmptyTable(InitialSize)
  ELSE IF 4 * pop >= Size(tab) THEN Rehash(tab, 4 * Size(tab))
  ELSE tab

Insert(e) ==
  /\ table' = Place(Roomy(table, populated), e)
  /\ populated' = populated + 1

\* It runs out of memory: for the table, or for the suffix of the entry
InsertFails(k) ==
  \/ Roomy(table, populated) # table /\ UNCHANGED tableVars
  \/ /\ k \in UserDefined
     /\ table' = Roomy(table, populated)
     /\ UNCHANGED populated

-----------------------------------------------------------------------------
(* Libraries: dlopen gives the copy that is already loaded, if any *)

Unloaded == [code |-> NoCode, handles |-> 0]
Opened(k, file) == IF lib[k] = Unloaded THEN [code |-> file, handles |-> 1]
                   ELSE [lib[k] EXCEPT !.handles = @ + 1]
Closed(k, n)    == IF lib[k].handles = n THEN Unloaded
                   ELSE [lib[k] EXCEPT !.handles = @ - n]

\* Mutant of EntryFree: a PreJIT kernel is closed like the others
EntryFreeCloses(s) ==
  /\ table' = [table EXCEPT ![s] = NoEntry]
  /\ populated' = populated - 1
  /\ lib' = [lib EXCEPT ![table[s].kernel] = Closed(table[s].kernel, 1)]

\* GB_jitifyer_entry_free
EntryFree(s) ==
  /\ table' = [table EXCEPT ![s] = NoEntry]
  /\ populated' = populated - 1
  /\ lib' = IF table[s].handle
            THEN [lib EXCEPT ![table[s].kernel] = Closed(table[s].kernel, 1)]
            ELSE lib

\* GB_jitifyer_table_free (false): kernels go, but PreJIT kernels and the
\* operators of the user stay; a PreJIT kernel is to be checked again
Kept(e) == ~e.handle \/ e.kernel \in UserOps

\* Mutant of Remains: a PreJIT kernel that has been checked stays so
RemainsChecked(e) == IF e = NoEntry \/ ~Kept(e) THEN NoEntry ELSE e

Remains(e) ==
  IF e = NoEntry \/ ~Kept(e) THEN NoEntry
  ELSE [e EXCEPT !.unchecked = ~e.handle]
TableFree ==
  LET gone(k) == {s \in Entries(table) : table[s].kernel = k /\ ~Kept(table[s])}
      left == [s \in DOMAIN table |-> Remains(table[s])]
  IN  /\ populated' = populated - Cardinality(UNION {gone(k) : k \in Kernels})
      /\ table' = IF populated' = 0 THEN << >> ELSE left
      /\ lib' = [k \in Kernels |-> Closed(k, Cardinality(gone(k)))]

-----------------------------------------------------------------------------
(* A call of GB_jitifyer_load, for a kernel of some method *)

\* Where the call is, its kernel, the code it is about, and the entry found
InCall(label, k, c, e) ==
  [pc |-> label, kernel |-> k, want |-> c, dl_function |-> e]
NoCall == InCall("idle", Nobody, NoCode, NoEntry)
At(t, label)   == call[t].pc = label
KernelOf(t)    == call[t].kernel
Want(t)        == call[t].want
Goto(t, label) == call' = [call EXCEPT ![t].pc = label]

\* The call has its kernel and runs it (GrB_SUCCESS) ...
Runs(t, e) ==
  call' = [call EXCEPT ![t] = InCall("run", KernelOf(t), Want(t), e)]

\* ... or the caller uses its generic method (GrB_NO_VALUE) or gives up
Leaves(t) == call' = [call EXCEPT ![t] = NoCall]

\* What a call is about; a definition that has changed is not used before the
\* control has been OFF, except to create the operator
CodeOf(k) == IF k \in UserDefined THEN definition ELSE BuiltIn
MayCall(k) == stale => k \notin UserDefined \ UserOps

\* The control is neither OFF nor PAUSE
Call(t, k) ==
  /\ At(t, "idle") /\ MayCall(k)
  /\ control > PAUSE
  /\ call' = [call EXCEPT ![t] = InCall("called", k, CodeOf(k), NoEntry)]
  /\ UNCHANGED <<tableVars, control, lock, disk, lib, userVars, errors>>

\* Mutant of ReadControl: with LOAD and ON the table is searched so, too
ReadControlAlways(t) ==
  /\ At(t, "called")
  /\ Goto(t, IF KernelOf(t) \notin UserOps THEN "probe" ELSE "wait")
  /\ UNCHANGED <<tableVars, control, lock, disk, lib, userVars, errors>>

\* With RUN the table is searched without the critical section
ReadControl(t) ==
  /\ At(t, "called")
  /\ Goto(t, IF control = RUN /\ KernelOf(t) \notin UserOps THEN "probe" ELSE "wait")
  /\ UNCHANGED <<tableVars, control, lock, disk, lib, userVars, errors>>

Probe(t) ==
  /\ At(t, "probe")
  /\ IF ~Found(table, KernelOf(t)) THEN Leaves(t)
     ELSE LET e == table[Lookup(table, KernelOf(t))]
          IN  IF e.unchecked THEN Goto(t, "wait")
              ELSE Runs(t, e)
  /\ UNCHANGED <<tableVars, control, lock, disk, lib, userVars, errors>>

SetLock(t) ==
  /\ At(t, "wait") /\ lock = Nobody
  /\ lock' = t
  /\ Goto(t, "find")
  /\ UNCHANGED <<tableVars, control, disk, lib, userVars, errors>>

\* Mutant of Checked: an operator is not checked again
CheckedOnce(t, e) == e.unchecked => e.code = Want(t)

\* GB_jitifyer_load2_worker.  A PreJIT kernel is checked once; an operator is
\* checked each time, and freed if it has changed
Checked(t, e) == (e.unchecked \/ KernelOf(t) \in UserOps) => e.code = Want(t)

FindUsable(t) ==
  /\ At(t, "find") /\ Found(table, KernelOf(t))
  /\ LET s == Lookup(table, KernelOf(t))
         e == [table[s] EXCEPT !.unchecked = FALSE]
     IN  /\ Checked(t, table[s])
         /\ table' = [table EXCEPT ![s] = e]
         /\ Runs(t, e)
  /\ lock' = Nobody
  /\ UNCHANGED <<populated, control, disk, lib, userVars, errors>>

\* Mutants of FindNone: RUN goes on as well; a return in the middle keeps the
\* lock
FindNoneRun(t) ==
  /\ At(t, "find")
  /\ IF Found(table, KernelOf(t))
     THEN LET s == Lookup(table, KernelOf(t))
          IN  ~Checked(t, table[s]) /\ EntryFree(s)
     ELSE UNCHANGED <<tableVars, lib>>
  /\ IF control < RUN THEN Leaves(t) /\ lock' = Nobody
     ELSE Goto(t, "open") /\ UNCHANGED lock
  /\ UNCHANGED <<control, disk, userVars, errors>>

FindNoneLocked(t) ==
  /\ At(t, "find")
  /\ IF Found(table, KernelOf(t))
     THEN LET s == Lookup(table, KernelOf(t))
          IN  ~Checked(t, table[s]) /\ EntryFree(s)
     ELSE UNCHANGED <<tableVars, lib>>
  /\ IF control <= RUN THEN Leaves(t) ELSE Goto(t, "open")
  /\ UNCHANGED <<lock, control, disk, userVars, errors>>

\* Not found, or found and freed: only LOAD and ON go on
FindNone(t) ==
  /\ At(t, "find")
  /\ IF Found(table, KernelOf(t))
     THEN LET s == Lookup(table, KernelOf(t))
          IN  ~Checked(t, table[s]) /\ EntryFree(s)
     ELSE UNCHANGED <<tableVars, lib>>
  /\ IF control <= RUN THEN Leaves(t) /\ lock' = Nobody
     ELSE Goto(t, "open") /\ UNCHANGED lock
  /\ UNCHANGED <<control, disk, userVars, errors>>

\* GB_jitifyer_load_worker: the library in the cache folder is used if its
\* definitions match, and is removed if they do not
OpenCurrent(t) ==
  /\ At(t, "open")
  /\ LET library == Opened(KernelOf(t), disk[KernelOf(t)])
     IN  /\ library.code = Want(t)
         /\ lib' = [lib EXCEPT ![KernelOf(t)] = library]
  /\ Goto(t, "insert")
  /\ UNCHANGED <<tableVars, control, lock, disk, userVars, errors>>

OpenNone(t) ==
  /\ At(t, "open")
  /\ Opened(KernelOf(t), disk[KernelOf(t)]).code # Want(t)
  /\ disk' = [disk EXCEPT ![KernelOf(t)] = NoCode]
  /\ IF control < ON THEN Leaves(t) /\ lock' = Nobody
     ELSE Goto(t, "compile") /\ UNCHANGED lock
  /\ UNCHANGED <<tableVars, control, lib, userVars, errors>>

\* The library is compiled and opened; its definition is not checked again.
\* If nothing comes out of the compiler, a library still loaded will do
Compile(t) ==
  /\ At(t, "compile")
  /\ \/ disk' = [disk EXCEPT ![KernelOf(t)] = Want(t)]
     \/ "compile" \in MayFail /\ lib[KernelOf(t)] # Unloaded /\ UNCHANGED disk
  /\ lib' = [lib EXCEPT ![KernelOf(t)] = Opened(KernelOf(t), Want(t))]
  /\ Goto(t, "insert")
  /\ UNCHANGED <<tableVars, control, lock, userVars, errors>>

\* A failure lowers the control, removes the library and returns
Fail(t, kind, level) ==
  /\ kind \in MayFail
  /\ errors' = [errors EXCEPT ![kind] = @ + 1]
  /\ control' = level
  /\ disk' = [disk EXCEPT ![KernelOf(t)] = NoCode]
  /\ Leaves(t)
  /\ lock' = Nobody

\* Nothing comes out of the compiler
CompileFails(t) ==
  /\ At(t, "compile") /\ lib[KernelOf(t)] = Unloaded
  /\ Fail(t, "compile", LOAD)
  /\ UNCHANGED <<tableVars, lib, userVars>>

\* GB_jit_kernel is in the library, and there is room for it in the table
InsertKernel(t) ==
  /\ At(t, "insert")
  /\ LET e == Entry(KernelOf(t), lib[KernelOf(t)].code, TRUE, FALSE)
     IN  Insert(e) /\ Runs(t, e)
  /\ lock' = Nobody
  /\ UNCHANGED <<control, disk, lib, userVars, errors>>

\* Mutant of CloseLibrary: it stays open
CloseLibraryNever(t) == lib' = lib

CloseLibrary(t) == lib' = [lib EXCEPT ![KernelOf(t)] = Closed(KernelOf(t), 1)]

DlsymFails(t) ==
  /\ At(t, "insert")
  /\ CloseLibrary(t)
  /\ Fail(t, "dlsym", RUN)
  /\ UNCHANGED <<tableVars, userVars>>

OutOfMemory(t) ==
  /\ At(t, "insert")
  /\ InsertFails(KernelOf(t))
  /\ CloseLibrary(t)
  /\ Fail(t, "memory", PAUSE)
  /\ UNCHANGED <<userVars>>

\* The kernel has done its work
Return(t) ==
  /\ At(t, "run")
  /\ Leaves(t)
  /\ UNCHANGED <<tableVars, control, lock, disk, lib, userVars, errors>>

-----------------------------------------------------------------------------
(* The user, between calls, and the process *)

Quiet == \A t \in Threads : At(t, "idle")
NoErrors == [kind \in {"compile", "dlsym", "memory"} |-> 0]

\* GB_jitifyer_set_control
SetControl(c) ==
  /\ Quiet
  /\ control' = c
  /\ errors' = NoErrors
  /\ IF c = OFF THEN TableFree /\ stale' = FALSE
     ELSE UNCHANGED <<tableVars, lib, stale>>
  /\ UNCHANGED <<lock, disk, call, definition>>

\* The operator is freed and created anew, with the same name
Redefine(d) ==
  /\ Quiet /\ d # definition
  /\ definition' = d
  /\ stale' = (control # OFF)
  /\ UNCHANGED <<tableVars, control, lock, disk, lib, call, errors>>

\* GB_jitifyer_init: the PreJIT kernels, unchecked, without duplicates
InitTable ==
  LET first(i) == \A j \in 1 .. i - 1 : PreJIT[j][1] # PreJIT[i][1]
      filled[i \in 0 .. Len(PreJIT)] ==
        IF i = 0 THEN << << >>, 0 >>
        ELSE LET tab == filled[i - 1][1]
                 pop == filled[i - 1][2]
             IN  IF first(i)
                 THEN << Place(Roomy(tab, pop),
                               Entry(PreJIT[i][1], PreJIT[i][2], FALSE, TRUE)),
                         pop + 1 >>
                 ELSE filled[i - 1]
  IN  filled[Len(PreJIT)]

NoLibraries == [k \in Kernels |-> Unloaded]
NoCalls     == [t \in Threads |-> NoCall]

Init ==
  /\ table = InitTable[1] /\ populated = InitTable[2]
  /\ control \in {RUN, ON}             \* RUN if there is no cache folder
  /\ lock = Nobody /\ lib = NoLibraries
  /\ call = NoCalls
  /\ definition \in Definitions /\ stale = FALSE
  /\ errors = NoErrors
  /\ disk = [k \in Kernels |-> NoCode]

\* The process ends at any moment, and starts again with the same folder
Restart ==
  /\ table' = InitTable[1] /\ populated' = InitTable[2]
  /\ control' \in {RUN, ON}
  /\ lock' = Nobody /\ lib' = NoLibraries
  /\ call' = NoCalls
  /\ definition' \in Definitions /\ stale' = FALSE
  /\ errors' = NoErrors
  /\ UNCHANGED disk

Step(t) ==
  \/ ReadControl(t) \/ Probe(t) \/ SetLock(t)
  \/ FindUsable(t) \/ FindNone(t) \/ OpenCurrent(t) \/ OpenNone(t)
  \/ Compile(t) \/ CompileFails(t)
  \/ InsertKernel(t) \/ DlsymFails(t) \/ OutOfMemory(t)
  \/ Return(t)

Next ==
  \/ \E t \in Threads : Step(t) \/ \E k \in Kernels : Call(t, k)
  \/ \E c \in OFF .. ON : SetControl(c)
  \/ \E d \in Definitions : Redefine(d)
  \/ Restart

Spec == Init /\ [][Next]_vars
-----------------------------------------------------------------------------
(* Properties *)

\* The variables have their types (the declarations at GB_jitifyer.c:36-103)
Labels == {"idle", "called", "probe", "wait", "find", "open", "compile",
           "insert", "run"}
EntrySet == [kernel : Kernels, code : Codes, handle : BOOLEAN,
             unchecked : BOOLEAN] \cup {NoEntry}
TypeOK ==
  /\ DOMAIN table = 0 .. Size(table) - 1
  /\ \A s \in DOMAIN table : table[s] \in EntrySet
  /\ populated \in Nat
  /\ control \in OFF .. ON
  /\ lock \in Threads \cup {Nobody}
  /\ disk \in [Kernels -> Codes \cup {NoCode}]
  /\ \A k \in Kernels : /\ lib[k].code \in Codes \cup {NoCode}
                        /\ lib[k].handles \in Nat
  /\ call \in [Threads -> [pc : Labels, kernel : Kernels \cup {Nobody},
                          want : Codes \cup {NoCode}, dl_function : EntrySet]]
  /\ definition \in Definitions /\ stale \in BOOLEAN

\* The counter is right (the ASSERT of check_table, GB_jitifyer.c:120) and
\* the table is never full, so that a lookup, which has no other end than an
\* entry or an empty slot (GB_jitifyer.c:2146-2170), always ends.
TableSound ==
  /\ populated = Cardinality(Entries(table))
  /\ table # << >> => populated < Size(table)

\* Each open library is closed once: its handles are those of the entries of
\* the table, and of a call about to insert it, whatever fails in between
\* (GB_jitifyer.c:1961, 2088, 2102, 2322).
HandlesBalanced ==
  \A k \in Kernels :
    lib[k].handles =
      Cardinality({s \in DOMAIN table : table[s].kernel = k /\ table[s].handle})
      + Cardinality({t \in Threads : At(t, "insert") /\ KernelOf(t) = k})

\* A kernel that runs has been compiled from the current definitions, and its
\* library is still loaded, through redefinitions, stale libraries in the
\* cache folder, PreJIT kernels, failures and restarts (GrB_jit.tex:77-82,
\* 202-214).  For the operators themselves see OperatorRight.
KernelRight ==
  \A t \in Threads : At(t, "run") =>
    LET e == call[t].dl_function
    IN  /\ e.kernel = KernelOf(t)
        /\ e.kernel \in UserOps \/ e.code = Want(t)
        /\ e.handle /\ e.code = Want(t) => lib[KernelOf(t)] # Unloaded

\* An entry that is freed leaves a hole that ends the way to the entries behind
\* it (GB_jitifyer.c:2316).  None of those is an operator: an operator in the
\* table is found.
OperatorsFound ==
  \A s \in Entries(table) :
    table[s].kernel \in UserOps => Lookup(table, table[s].kernel) = s

\* A failure disables the step that failed: nothing fails twice before the
\* user sets the control again ("to avoid repeated compilation errors",
\* GB_jitifyer.c:2059, 2089, 2103).
ErrorsStop == \A kind \in DOMAIN errors : errors[kind] <= 1

\* While a thread searches the table outside the critical section, no other
\* inserts a kernel or moves the table ("critical section not required",
\* GB_jitifyer.c:1627), because the control is not raised again by a failure.
NoInsertWhileRead ==
  [][\A t \in Threads : At(t, "probe") /\ call'[t].pc = "probe" =>
       /\ DOMAIN table' = DOMAIN table
       /\ Entries(table') \subseteq Entries(table)]_vars

\* One call at a time is in the critical section, and every return leaves it,
\* those in the middle of the work too (GB_jitifyer.c:1666-1671): a lock kept
\* would stop all later calls.
LockSound ==
  \A t \in Threads :
    lock = t <=> call[t].pc \in {"find", "open", "compile", "insert"}

\* An entry that a thread may be reading outside the critical section is not
\* touched ("critical section not required", GB_jitifyer.c:1627).
ReadersUndisturbed ==
  [][\A t \in Threads : At(t, "probe") /\ call'[t].pc = "probe" =>
       \A s \in Entries(table) : table'[s] # NoEntry]_vars

\* The operator that the user gets is the one defined now: a kernel whose
\* definition has changed is "discarded and recompiled" (GrB_jit.tex:79).
OperatorRight ==
  \A t \in Threads : At(t, "run") /\ KernelOf(t) \in UserOps =>
    call[t].dl_function.code = Want(t)
=============================================================================
