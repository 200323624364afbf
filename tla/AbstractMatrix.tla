---------------------------- MODULE AbstractMatrix ----------------------------
(***************************************************************************)
(* What a GrB_Matrix promises its user: a partial function from positions  *)
(* to values.  There is no structure, no deferred work and no order of     *)
(* evaluation here: a call has its whole effect at once, and every value   *)
(* that is returned is the one the calls so far have given.  A call that   *)
(* reports GrB_OUT_OF_MEMORY has had its effect, has had none, or has left *)
(* an invalid object, which no later call accepts.                         *)
(***************************************************************************)
EXTENDS Integers, FiniteSets

CONSTANTS MaxVlen, MaxVdim, Val, Types, Cast(_, _), Ops, NoOp, Apply(_, _, _, _),
          NoVal, NewDims, Indices, Controls,
          Results,             \* what C = T may assign ...
          Contents             \* ... and the content of each: [vlen, vdim, val]

VARIABLES A, reply

Pos == (0 .. MaxVlen - 1) \X (0 .. MaxVdim - 1)

NoContent == [p \in Pos |-> NoVal]

Reply(call, info, val) == reply' = [call |-> call, info |-> info, val |-> val]

InRange(p) == p[1] < A.vlen /\ p[2] < A.vdim
Present(p) == A.val[p] # NoVal

Invalid(B) == [B EXCEPT !.valid = FALSE, !.val = NoContent]

\* A call that runs out of memory, and would otherwise take the matrix to B.
\* An invalid object may have the old size or the new one.
Fail(call, B) ==
  Reply(call, "OUT_OF_MEMORY", NoVal) /\ A' \in {A, B, Invalid(A), Invalid(B)}

\* The call takes the matrix to B
Update(call, B) ==
  \/ Reply(call, "SUCCESS", NoVal) /\ A' = B
  \/ Fail(call, B)

\* The call returns info and v
Observe(call, info, v) ==
  \/ Reply(call, info, v) /\ A' = A
  \/ Fail(call, A)

Set(p, s, t, accum) ==
  LET call == <<"set", p, s, t, accum>>
      v    == IF accum # NoOp /\ Present(p) THEN Apply(accum, A.val[p], t, s)
              ELSE Cast(t, s)
  IN  IF InRange(p) THEN Update(call, [A EXCEPT !.val[p] = v])
      ELSE Reply(call, "INVALID_INDEX", NoVal) /\ A' = A

Remove(p) ==
  LET call == <<"remove", p>>
  IN  IF InRange(p) THEN Update(call, [A EXCEPT !.val[p] = NoVal])
      ELSE Observe(call, "INVALID_INDEX", NoVal)

Extract(p) ==
  LET call == <<"extract", p>>
  IN  IF ~InRange(p) THEN Observe(call, "INVALID_INDEX", NoVal)
      ELSE IF ~Present(p) THEN Observe(call, "NO_VALUE", NoVal)
      ELSE Observe(call, "SUCCESS", A.val[p])

Nvals == Observe(<<"nvals">>, "SUCCESS", Cardinality({p \in Pos : Present(p)}))

Clear == Update(<<"clear">>, [A EXCEPT !.val = NoContent])

Resize(d) ==
  Update(<<"resize", d>>,
    [A EXCEPT !.vlen = d[1], !.vdim = d[2],
              !.val = [p \in Pos |-> IF p[1] < d[1] /\ p[2] < d[2]
                                     THEN @[p] ELSE NoVal]])

Assign(T) ==
  /\ Contents[T].vlen = A.vlen /\ Contents[T].vdim = A.vdim
  /\ Update(<<"assign", T>>, [A EXCEPT !.val = Contents[T].val])

\* How the matrix is held is not visible
Settings == {<<"wait">>} \cup ({"control"} \X Controls) \cup ({"hash", "iso"} \X BOOLEAN)

Requests ==
  Settings \cup {<<"nvals">>, <<"clear">>}
    \cup ({"set"} \X Indices \X Val \X Types \X Ops)
    \cup ({"remove", "extract"} \X Indices)
    \cup ({"resize"} \X NewDims)
    \cup ({"assign"} \X Results)

Init ==
  /\ \E d \in NewDims :
       A = [valid |-> TRUE, vlen |-> d[1], vdim |-> d[2], val |-> NoContent]
  /\ reply = [call |-> <<"new">>, info |-> "SUCCESS", val |-> NoVal]

\* A valid matrix serves every call, an invalid one refuses them all
Serve ==
  \/ \E p \in Indices, s \in Val, t \in Types, accum \in Ops : Set(p, s, t, accum)
  \/ \E p \in Indices : Remove(p) \/ Extract(p)
  \/ Nvals
  \/ Clear
  \/ \E d \in NewDims : Resize(d)
  \/ \E T \in Results : Assign(T)
  \/ \E call \in Settings : Update(call, A)

Refuse ==
  \E call \in Requests : Reply(call, "INVALID_OBJECT", NoVal) /\ A' = A

Next == (A.valid /\ Serve) \/ (~A.valid /\ Refuse)

Spec == Init /\ [][Next]_<<A, reply>>
=============================================================================
