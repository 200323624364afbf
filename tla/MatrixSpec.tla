------------------------------ MODULE MatrixSpec ------------------------------
(***************************************************************************)
(* One GrB_Matrix C driven by user calls.  A user function runs to its end *)
(* before the next one starts (the matrix is owned by one user thread), so *)
(* each is one action; a call that may run out of memory has several       *)
(* outcomes, which say what it then leaves behind.                         *)
(***************************************************************************)
EXTENDS MatrixOps, MatrixSound

CONSTANTS
  NewDims,        \* the <<vlen, vdim>> of GrB_Matrix_new and GrB_Matrix_resize
  NewControls,    \* the sparsity controls of a new matrix (see Init)
  Controls,       \* the sparsity controls the user sets
  Results,        \* the matrices T assigned by operations computed elsewhere
  Calls,          \* the user functions that are called
  Indices,        \* the <<i, j>> of a call, some of them out of range
  NoVal           \* no value is returned

ASSUME CallsAssumption ==
  /\ NewDims \subseteq (0 .. MaxVlen) \X (0 .. MaxVdim)
  /\ NewControls \cup Controls \subseteq (SUBSET Formats) \ {{}}
  /\ Indices \subseteq Nat \X Nat
  /\ NoVal \notin Val \cup Nat

VARIABLES
  C,              \* the matrix
  reply           \* the last call, and what it returned

vars == <<C, reply>>

\* A call: the name of the user function, and its arguments
Requests ==
  {<<"new">>, <<"nvals">>, <<"wait">>, <<"clear">>}
    \cup ({"set"} \X Indices \X Val \X Types \X Ops)
    \cup ({"remove", "extract"} \X Indices)
    \cup ({"resize"} \X NewDims)
    \cup ({"control"} \X Controls)
    \cup ({"hash", "iso"} \X BOOLEAN)
    \cup ({"assign"} \X Results)

Infos == {"SUCCESS", "NO_VALUE", "INVALID_INDEX", "OUT_OF_MEMORY",
          "INVALID_OBJECT", "CRASH"}

Replies == [call : Requests, info : Infos, val : Val \cup Nat \cup {NoVal}]

TypeOK == C \in Matrices /\ reply \in Replies

-----------------------------------------------------------------------------
(* The frame of a user function *)

Reply(call, info, val) == reply' = [call |-> call, info |-> info, val |-> val]

\* GB_WHERE: an object left invalid by an earlier failure is refused
Refuse(call) == ~C.valid /\ C' = C /\ Reply(call, "INVALID_OBJECT", NoVal)

\* A call is not made after the process has crashed
Called(call) == call[1] \in Calls /\ reply.info # "CRASH"

Perform(call, outcomes) ==
  /\ Called(call)
  /\ \/ C.valid /\ \E r \in outcomes : C' = r.m /\ Reply(call, r.info, NoVal)
     \/ Refuse(call)

-----------------------------------------------------------------------------
(* The user functions *)

GrB_Matrix_setElement ==
  \E p \in Indices, s \in Val, t \in Types, accum \in Ops :
    Perform(<<"set", p, s, t, accum>>, SetElement(C, p, s, t, accum))

GrB_Matrix_removeElement ==
  \E p \in Indices : Perform(<<"remove", p>>, RemoveElement(C, p))

GrB_Matrix_extractElement ==
  \E p \in Indices :
    LET call == <<"extract", p>>
    IN  /\ Called(call)
        /\ \/ Refuse(call)
           \/ /\ C.valid
              /\ \E r \in WaitIf(AnyPendingWork(C), C) :
                   LET info == IF r.info = "SUCCESS" THEN ExtractInfo(r.m, p) ELSE r.info
                   IN  /\ C' = r.m
                       /\ Reply(call, info,
                                IF info = "SUCCESS" THEN r.m.entry[p] ELSE NoVal)

GrB_Matrix_nvals ==
  LET call == <<"nvals">>
  IN  /\ Called(call)
      /\ \/ Refuse(call)
         \/ /\ C.valid
            /\ \E r \in WaitIf(HasPending(C), C) :
                 /\ C' = r.m
                 /\ Reply(call, r.info,
                          IF r.info = "SUCCESS" THEN Nnz(r.m) - r.m.nzombies ELSE NoVal)

GrB_Matrix_wait == Perform(<<"wait">>, MatrixWait(C))

GrB_Matrix_clear == Perform(<<"clear">>, Clear(C))

GrB_Matrix_resize ==
  \E d \in NewDims : Perform(<<"resize", d>>, Resize(C, d[1], d[2]))

GxB_SPARSITY_CONTROL ==
  \E c \in Controls : Perform(<<"control", c>>, SetSparsityControl(C, c))

GxB_HYPER_HASH ==
  \E wanted \in BOOLEAN : Perform(<<"hash", wanted>>, SetHyperHash(C, wanted))

GxB_ISO ==
  \E wanted \in BOOLEAN : Perform(<<"iso", wanted>>, SetIso(C, wanted))

\* GrB_mxm and the other operations: C = T
Assign ==
  \E T \in {T \in Results : T.vlen = C.vlen /\ T.vdim = C.vdim} :
    Perform(<<"assign", T>>, AssignResult(C, T))

\* A new matrix, and what it is once its user has set another sparsity control
\* than the default one, GxB_AUTO_SPARSITY
Created(vlen, vdim, c) ==
  LET A == NewMatrix(vlen, vdim)
  IN  IF c = A.control THEN {A}
      ELSE {r.m : r \in {q \in SetSparsityControl(A, c) : q.info = "SUCCESS"}}

Init == /\ \E d \in NewDims, c \in NewControls : C \in Created(d[1], d[2], c)
        /\ reply = [call |-> <<"new">>, info |-> "SUCCESS", val |-> NoVal]

\* Every user function but GrB_Matrix_removeElement
OtherCall ==
  \/ GrB_Matrix_setElement
  \/ GrB_Matrix_extractElement
  \/ GrB_Matrix_nvals
  \/ GrB_Matrix_wait
  \/ GrB_Matrix_clear
  \/ GrB_Matrix_resize
  \/ GxB_SPARSITY_CONTROL
  \/ GxB_HYPER_HASH
  \/ GxB_ISO
  \/ Assign

Next == GrB_Matrix_removeElement \/ OtherCall

Spec == Init /\ [][Next]_vars

\* The behaviours in which GrB_Matrix_removeElement is not called where it
\* crashes (see README, Findings): what the rest of the code does is checked
\* on these
SurvivingNext == (GrB_Matrix_removeElement /\ reply'.info # "CRASH") \/ OtherCall

SurvivingSpec == Init /\ [][SurvivingNext]_vars
=============================================================================
