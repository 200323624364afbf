---------------------------- MODULE AbstractAssign ----------------------------
(***************************************************************************)
(* What GrB_assign and GxB_subassign promise of a GrB_Matrix, seen as in   *)
(* AbstractMatrix: the formal definition of the user guide, with no        *)
(* methods, no zombies and no pending tuples.  One that runs out of memory *)
(* may leave any entries behind, or an invalid object.                     *)
(***************************************************************************)
EXTENDS AbstractMatrix

CONSTANTS
  Assignments,         \* the assignments (see MatrixAssign) ...
  NoMatrix, False      \* ... whose M and A are in Contents, or are NoMatrix

\* The mask, complemented or not, is true at p
Through(q, p) ==
  LET m == Contents[q.M].val[p]
  IN  (q.M # NoMatrix => m # NoVal /\ (q.struct \/ m # False)) # q.comp

Given(q, p) == IF q.A = NoMatrix THEN q.s ELSE Contents[q.A].val[p]

\* C(p) inside of C(I,J)
Inside(q, p) ==
  LET given == Given(q, p)
  IN  CASE ~Through(q, p) -> IF q.replace THEN NoVal ELSE A.val[p]
        [] Through(q, p) /\ given = NoVal -> IF q.accum = NoOp THEN NoVal ELSE A.val[p]
        [] OTHER -> IF q.accum = NoOp \/ ~Present(p) THEN Cast(q.type, given)
                    ELSE Apply(q.accum, A.val[p], q.type, given)

\* Outside of it only GrB_assign with replace changes anything
Outside(q, p) ==
  IF q.kind = "assign" /\ q.replace /\ ~Through(q, p) THEN NoVal ELSE A.val[p]

Assignment(q) ==
  LET call == <<"assignment", q>>
  IN  /\ \/ /\ Reply(call, "SUCCESS", NoVal)
            /\ A' = [A EXCEPT !.val = [p \in Pos |-> IF p \in q.region THEN Inside(q, p)
                                                     ELSE Outside(q, p)]]
         \/ /\ Reply(call, "OUT_OF_MEMORY", NoVal)
            /\ A' = [A EXCEPT !.val = A'.val] \/ A' = Invalid(A)
      /\ q.dims = <<A.vlen, A.vdim>>

RefuseAssignment(q) ==
  Reply(<<"assignment", q>>, "INVALID_OBJECT", NoVal) /\ A' = A

AssignNext ==
  \/ Next
  \/ A.valid /\ \E q \in Assignments : Assignment(q)
  \/ ~A.valid /\ \E q \in Assignments : RefuseAssignment(q)

AssignSpec == Init /\ [][AssignNext]_<<A, reply>>
=============================================================================
