--------------------------- MODULE MatrixInvariants ---------------------------
(***************************************************************************)
(* The properties of a GrB_Matrix that is driven by user calls.            *)
(***************************************************************************)
EXTENDS MatrixSpec

\* The results T that operations computed elsewhere (GrB_mxm, ...) assign are
\* sound matrices of their own, without pending tuples.
ASSUME ResultsAssumption ==
  \A T \in Results : T \in Matrices /\ T.valid /\ T.pend = NoPending /\ MatrixOK(T)

-----------------------------------------------------------------------------
(* Between two user calls the matrix is sound, whatever was deferred *)

\* The entries are in range, and A->nvals, A->nzombies, A->nvec_nonempty, the
\* hyperlist A->h and the hash A->Y all agree with them.
StructureSound == C.valid => StructureOK(C)

\* The pending tuples, the zombies and the jumbled flag are such that finishing
\* the work can only give the matrix the user expects.
WorkSound == C.valid => WorkOK(C) /\ PendingBounded(C)

\* An iso matrix, and its pending tuples, are as if each had the iso value.
IsoSound == C.valid => IsoOK(C)

\* A failure that frees the matrix (GB_phybix_free) frees all of it.
FreedSound == ~C.valid => Freed(C)

\* The structure is one that the sparsity control allows; if only "full" is
\* allowed and entries are missing it is bitmap (GxB_SPARSITY_CONTROL).
HeldAsControlled ==
  C.valid => \/ C.fmt \in SparsityControl(C)
             \/ C.fmt = "bitmap" /\ C.control = {"full"}

\* A matrix that is not sorted is not due to become bitmap: GB_wait, which conforms
\* it when it prunes the zombies, leaves it sparse or hypersparse, as the methods
\* that sort it first have been chosen for (GB_UNJUMBLE).
JumbledStaysSparse == C.valid /\ C.jumbled => ConformTarget(C) # {"bitmap"}

\* Once GrB_Matrix_wait has succeeded nothing is left to do: functions that
\* only read the matrix do not write to it, so that user threads may share it.
WaitedIsReadOnly ==
  [][reply'.call[1] = "wait" /\ reply'.info = "SUCCESS" =>
       ~AnyPendingWork(C)' /\ ~HyperHashNeed(C)' /\ C'.nne >= 0]_vars

-----------------------------------------------------------------------------
(* What comments and assertions of the source say of the code *)

\* ASSERT (!GB_IS_FULL (C)) of GB_removeElement: it is never called on a full
\* matrix, which has no C->p to search.
RemoveNeverSearchesFull == reply.info # "CRASH"

-----------------------------------------------------------------------------
(* The user's view of the matrix *)

AbsOf(A) ==
  [valid |-> A.valid, vlen |-> A.vlen, vdim |-> A.vdim,
   val |-> [p \in Pos |-> IF p \in PendingPos(A) THEN Assembled(A, p)
                          ELSE IF A.entry[p] \in Val THEN A.entry[p] ELSE NoVal]]

Abstract ==
  INSTANCE AbstractMatrix WITH A <- AbsOf(C), Contents <- [T \in Results |-> AbsOf(T)]

\* However the work is deferred, the user sees a map from positions to values
\* that each call updates at once.
Refines == Abstract!Spec
=============================================================================
