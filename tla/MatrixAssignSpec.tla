--------------------------- MODULE MatrixAssignSpec ---------------------------
(***************************************************************************)
(* The matrix C of MatrixSpec, whose user also calls GrB_assign and        *)
(* GxB_subassign, and what must be true of it.                             *)
(***************************************************************************)
EXTENDS MatrixInvariants, MatrixAssign

CONSTANT Assignments

\* The masks and the matrices A
Operands == (UNION {{q.M, q.A} : q \in Assignments}) \ {NoMatrix}

\* What GB_assign_prep makes of the arguments.  The mask and A have no pending
\* tuples and no zombies, and are sound themselves; they have the dimensions of C
\* if the assignment is to all of C.  A full A has an entry for each position of
\* C(I,J), as it has the dimensions of C(I,J).
ASSUME AssignmentsAssumption ==
  /\ Assignments \subseteq
       [kind : {"assign", "subassign"}, dims : NewDims, region : SUBSET Pos,
        M : Matrices \cup {NoMatrix}, comp : BOOLEAN, struct : BOOLEAN,
        replace : BOOLEAN, accum : Ops, A : Matrices \cup {NoMatrix}, s : Val,
        type : Types]
  /\ \A T \in Operands :
       /\ T.valid /\ T.pend = NoPending /\ T.nzombies = 0 /\ Zombies(T) = {}
       /\ Cardinality(Held(T)) = Nnz(T) /\ WorkOK(T) /\ IsoOK(T)
  /\ \A q \in Assignments :
       /\ \A p \in q.region : p[1] < q.dims[1] /\ p[2] < q.dims[2]
       /\ q.A # NoMatrix => Live(q.A) \subseteq q.region
       /\ q.A # NoMatrix /\ q.A.fmt = "full" => q.region \subseteq Live(q.A)
       /\ Whole(q) => \A T \in {q.M, q.A} \ {NoMatrix} :
                         <<T.vlen, T.vdim>> = q.dims /\ StructureOK(T)

\* GrB_assign or GxB_subassign with one of the arguments in S
GrB_Matrix_assign(S) ==
  \E q \in S :
    q.dims = <<C.vlen, C.vdim>> /\ Perform(<<"assignment", q>>, Assigned(C, q))

AssignSpec == Init /\ [][Next \/ GrB_Matrix_assign(Assignments)]_vars

\* The behaviours without the calls that the code gets wrong (see README,
\* Findings): what the rest of it does is checked on these
KeepsZombies(q) == Splat(q) /\ Scalar(q) /\ (C.nzombies > 0 \/ C.jumbled)
LeavesHash(q)   == Appends(C, q) /\ C.Y # NoHash

SoundAssign ==
  GrB_Matrix_assign({q \in Assignments : ~KeepsZombies(q) /\ ~LeavesHash(q)})

SoundSpec == Init /\ [][SurvivingNext \/ SoundAssign]_vars

-----------------------------------------------------------------------------
(* Properties *)

\* A matrix that is not sorted has no pending tuples.  Where an assignment sorts
\* C and has to finish its zombies too, no tuple that it then would have to take
\* into account, or that would change the structure of C, is assembled with them
\* (GB_UNJUMBLE after the method has been chosen).
JumbledHasNoTuples == C.valid /\ C.jumbled => ~HasPending(C)

-----------------------------------------------------------------------------
(* What comments and the documentation say of the code *)

\* "full and bitmap matrices never have any pending work" (GB_wait.c).
DenseIsSettled == C.valid => DenseSettled(C)

\* "If j = Ah [k], then k = Y (j,f (j))" (GB_Matrix_content.h): the hash, if there
\* is one, finds every vector of the hyperlist.
HashIsCurrent == C.valid => HashMatches(C)

\* GxB_SPARSITY_CONTROL is a setting of the matrix that its user makes, not one
\* of the values assigned to it.
ControlKept ==
  [][C.valid /\ C'.valid /\ reply'.call[1] # "control" => C'.control = C.control]_vars

-----------------------------------------------------------------------------
(* The user's view *)

AbstractAssigned ==
  INSTANCE AbstractAssign WITH
    A <- AbsOf(C), Contents <- [T \in Results \cup Operands |-> AbsOf(T)]

\* However an assignment is done, with zombies and tuples or by copying
\* structures, the user sees the assignment that the user guide defines.
RefinesAssign == AbstractAssigned!AssignSpec
=============================================================================
