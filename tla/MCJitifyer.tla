------------------------------ MODULE MCJitifyer ------------------------------
(***************************************************************************)
(* Instances of the JIT for TLC: kernels whose hash codes collide, in a    *)
(* table of 2 slots that grows to 8 and 32, and two definitions of the     *)
(* operator.                                                               *)
(***************************************************************************)
EXTENDS Jitifyer, TLC

CONSTANTS plain, user, op, pre, d1, d2, t1, t2

MCThreads == {t1, t2}
MCDefinitions == {d1, d2}

\* The operator comes first: no other kernel is on its way
HashCodes == (op :> 6) @@ (pre :> 7) @@ (user :> 7) @@ (plain :> 15)
MCHash == [k \in Kernels |-> HashCodes[k]]
MCPreJIT == << <<pre, d1>> >>

\* The PreJIT kernel is on the way of the operator
MCHashBehind == [MCHash EXCEPT ![op] = 7]
=============================================================================
