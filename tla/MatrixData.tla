------------------------------ MODULE MatrixData ------------------------------
(***************************************************************************)
(* The content of one GrB_Matrix (struct GB_Matrix_opaque,                 *)
(* src/Source/builtin/include/GB_Matrix_content.h) and the observers that  *)
(* every other module is written with.                                     *)
(*                                                                         *)
(* A matrix has vdim vectors of length vlen; a position <<i, j>> is index  *)
(* i of vector j (row i, column j when the matrix is held by column).  The *)
(* arrays A->p, A->h, A->i, A->b and A->x are abstracted to "entry", which *)
(* says for each position whether the structure holds it: a value, a       *)
(* zombie (deleted, still in A->i), or Absent.                             *)
(***************************************************************************)
EXTENDS Integers, Sequences, FiniteSets

CONSTANTS
  MaxVlen, MaxVdim,      \* bounds on the dimensions
  Val,                   \* the values of the matrix type and of the scalars
  Types, CType,          \* scalar types, and the type of the matrix (A->type)
  Cast(_, _),            \* Cast(t, s): the scalar s of type t as a CType value
  Ops, NoOp, Second,     \* accum operators; NULL, and SECOND of CType
  Apply(_, _, _, _),     \* Apply(op, x, t, s): op applied to x and (t) s
  Absent, Zombie,        \* not in the structure; in it, but deleted
  NotIso, NoScalar,      \* not iso-valued; Pending->x is NULL
  HyperSwitch,           \* A->hyper_switch as a fraction [num, den]
  BitmapSwitch,          \* A->bitmap_switch as a fraction [num, den]
  HyperHash,             \* GB_Global_hyper_hash: Y is built above this nvec
  Blocking,              \* GB_Global_mode is GrB_BLOCKING
  MemoryMayFail          \* malloc may return NULL

Pos     == (0 .. MaxVlen - 1) \X (0 .. MaxVdim - 1)
Vectors == 0 .. MaxVdim - 1
Formats == {"hyper", "sparse", "bitmap", "full"}

ASSUME DimsAssumption == MaxVlen \in Nat /\ MaxVdim \in Nat

ASSUME ValAssumption ==
  /\ {Absent, Zombie, NotIso, NoScalar} \cap Val = {}
  /\ Absent # Zombie

ASSUME OpAssumption ==
  /\ CType \in Types /\ NoOp \in Ops
  /\ \A t \in Types, s \in Val : Cast(t, s) \in Val
  /\ \A op \in Ops, x \in Val, t \in Types, s \in Val : Apply(op, x, t, s) \in Val

\* A scalar of the type of the matrix is not changed, and NULL is SECOND where
\* GB_builder merges tuples: the later value replaces the one before.
ASSUME SecondAssumption ==
  /\ \A s \in Val : Cast(CType, s) = s
  /\ \A op \in {NoOp, Second}, x \in Val, t \in Types, s \in Val :
       Apply(op, x, t, s) = Cast(t, s)

ASSUME SwitchAssumption ==
  /\ HyperSwitch \in [num : Nat, den : Nat \ {0}]
  /\ BitmapSwitch \in [num : Nat, den : Nat \ {0}]
  /\ HyperHash \in Nat
  /\ {Blocking, MemoryMayFail} \subseteq BOOLEAN

\* A->Y is NULL: a value that no set of vectors has
NoHash == {-1}

-----------------------------------------------------------------------------
(* Pending tuples.  tup = <<>> stands for A->Pending = NULL.               *)

NoPending == [op |-> NoOp, type |-> CType, sorted |-> TRUE, tup |-> <<>>]

Tuples == [pos : Pos, s : Val \cup {NoScalar}]

PendingLists == [op : Ops, type : Types, sorted : BOOLEAN, tup : Seq(Tuples)]

Matrices ==
  [valid    : BOOLEAN,              \* A->magic is GB_MAGIC, not GB_MAGIC2
   vlen     : 0 .. MaxVlen,
   vdim     : 0 .. MaxVdim,
   fmt      : Formats,              \* which of p, h, b are not NULL
   entry    : [Pos -> Val \cup {Absent, Zombie}],
   iso      : Val \cup {NotIso},    \* the iso value, if A->iso
   nvals    : Nat,                  \* A->nvals (0 for a full matrix: unused)
   nzombies : Nat,
   nne      : Nat \cup {-1},        \* A->nvec_nonempty, -1 if not known
   h        : SUBSET Vectors,       \* the hyperlist
   Y        : (SUBSET Vectors) \cup {NoHash},  \* the hyperlist hashed in A->Y
   jumbled  : BOOLEAN,              \* A->jumbled
   unsorted : SUBSET Vectors,       \* the vectors that really are unsorted
   pend     : PendingLists,
   control  : (SUBSET Formats) \ {{}},         \* A->sparsity_control
   nohash   : BOOLEAN]              \* A->no_hyper_hash

-----------------------------------------------------------------------------
(* Observers *)

InRange(A, p) == p[1] < A.vlen /\ p[2] < A.vdim
Dense(A)      == A.vlen * A.vdim

Held(A)       == {p \in Pos : A.entry[p] # Absent}
Live(A)       == {p \in Pos : A.entry[p] \in Val}
Zombies(A)    == {p \in Pos : A.entry[p] = Zombie}
Nonempty(A)   == {p[2] : p \in Held(A)}

AllVectors(A) == IF A.vlen = 0 THEN 0 ELSE A.vdim

\* GB_nnz: zombies are counted, pending tuples are not
Nnz(A) == IF A.fmt = "full" THEN Dense(A) ELSE A.nvals

\* GB_nvec_nonempty and GB_nvec_nonempty_update
NvecNonempty(A) ==
  IF A.fmt \in {"bitmap", "full"} THEN AllVectors(A) ELSE Cardinality(Nonempty(A))

UpdateNne(A) == [A EXCEPT !.nne = IF @ >= 0 THEN @ ELSE NvecNonempty(A)]

HasPending(A)     == A.pend.tup # <<>>
AnyPendingWork(A) == HasPending(A) \/ A.nzombies > 0 \/ A.jumbled

\* GB_as_if_full: all entries are present and nothing is left to do
AsIfFull(A) == A.fmt = "full" \/ (~AnyPendingWork(A) /\ Nnz(A) = Dense(A))

\* The positions of the pending tuples
PendingPos(A) == {A.pend.tup[k].pos : k \in DOMAIN A.pend.tup}

\* GB_hyper_hash_need
HyperHashNeed(A) ==
  A.fmt = "hyper" /\ ~A.nohash /\ A.Y = NoHash /\ Cardinality(A.h) > HyperHash

-----------------------------------------------------------------------------
(* Constructors *)

EmptyEntry == [p \in Pos |-> Absent]

\* Mutant of PhybixFree: the list of pending tuples is not freed
PhybixFreeKeepsPending(A) ==
  [A EXCEPT !.valid = FALSE, !.fmt = "full", !.entry = EmptyEntry,
            !.iso = NotIso, !.nvals = 0, !.nzombies = 0, !.nne = 0,
            !.h = {}, !.Y = NoHash, !.jumbled = FALSE, !.unsorted = {}]

\* GB_phybix_free: only the header is left, and A->magic is GB_MAGIC2
PhybixFree(A) ==
  [A EXCEPT !.valid = FALSE, !.fmt = "full", !.entry = EmptyEntry,
            !.iso = NotIso, !.nvals = 0, !.nzombies = 0, !.nne = 0,
            !.h = {}, !.Y = NoHash, !.jumbled = FALSE, !.unsorted = {},
            !.pend = NoPending]

\* GB_hyper_hash_free
HyperHashFree(A) == [A EXCEPT !.Y = NoHash]

-----------------------------------------------------------------------------
(* The outcomes of a function that may run out of memory: a set of records *)
(* with the resulting matrix and the GrB_Info returned.                    *)

Outcomes == [m : Matrices, info : {"SUCCESS", "OUT_OF_MEMORY", "INVALID_INDEX", "CRASH"}]

Done(A) == {[m |-> A, info |-> "SUCCESS"]}

NoMemory(A) ==
  IF MemoryMayFail THEN {[m |-> A, info |-> "OUT_OF_MEMORY"]} ELSE {}

\* GB_OK: go on with the outcomes "next" if r succeeded, return r's error if not
Then(r, next) == IF r.info = "SUCCESS" THEN next ELSE {r}

\* Mutant of FreeOnError: the half-finished matrix is left to the user
FreeOnErrorNever(r) == r

\* GB_OK where GB_FREE_ALL includes GB_phybix_free
FreeOnError(r) == IF r.info = "SUCCESS" THEN r ELSE [r EXCEPT !.m = PhybixFree(@)]
=============================================================================
