------------------------------- MODULE MCAssign -------------------------------
(***************************************************************************)
(* A few assignments to a 2-by-2 matrix for TLC, chosen so that between    *)
(* them they reach every method and every branch of GB_assign_prep.        *)
(***************************************************************************)
EXTENDS MatrixAssignSpec, MCMatrix

CONSTANT Fp

All     == Inside(<<2, 2>>)
Column0 == {<<0, 0>>, <<1, 0>>}
Column1 == {<<0, 1>>, <<1, 1>>}
Row1    == {<<1, 0>>, <<1, 1>>}

\* C(region) = 1: the rest of a request is added with EXCEPT
Plain(region) ==
  [kind |-> "subassign", dims |-> <<2, 2>>, region |-> region, M |-> NoMatrix,
   comp |-> FALSE, struct |-> FALSE, replace |-> FALSE, accum |-> NoOp,
   A |-> NoMatrix, s |-> 1, type |-> CType]

Sparse(f) == Made(<<2, 2>>, "sparse", Content(f))

\* One entry is true and one false, in different columns
ValuedMask == Sparse(<<0, 0>> :> 1 @@ <<1, 1>> :> 0)

JumbledMask ==
  [Sparse(<<0, 0>> :> 1 @@ <<1, 0>> :> 1) EXCEPT !.jumbled = TRUE, !.unsorted = {0}]

BitmapMask == Made(<<2, 2>>, "bitmap", Content(<<1, 0>> :> 1 @@ <<1, 1>> :> 0))

\* A single column: its dimensions are not those of C
ColumnOf(j, f) == [Made(<<2, 1>>, "sparse", Content(f)) EXCEPT !.nne = 1]
RowFull == Made(<<1, 2>>, "full", Content(<<1, 0>> :> 1 @@ <<1, 1>> :> 0))

\* Each is named after the methods that it may take
M01 == Plain(Column0)
M02 == [Plain(Row1) EXCEPT !.A = Sparse(<<1, 0>> :> 1)]
M03 == [Plain(Row1) EXCEPT !.s = 0, !.type = Fp, !.accum = Plus]
M05 == [Plain(All) EXCEPT !.M = ValuedMask, !.kind = "assign"]
M06 == [Plain(Column0) EXCEPT !.M = JumbledMask, !.A = Sparse(<<1, 0>> :> 1),
                              !.type = Fp]
M11 == [Plain(Column0) EXCEPT !.M = ValuedMask, !.kind = "assign", !.replace = TRUE,
                              !.accum = Plus]
M18 == [Plain(Row1) EXCEPT !.M = BitmapMask, !.comp = TRUE, !.replace = TRUE, !.A = RowFull]
M14 == [Plain(All) EXCEPT !.M = ValuedMask, !.comp = TRUE, !.replace = TRUE,
                          !.A = Sparse(<<0, 1>> :> 0 @@ <<1, 0>> :> 1)]
M04 == [Plain(All) EXCEPT !.accum = Plus, !.A = Sparse(<<0, 1>> :> 0), !.type = Fp]
M21 == Plain(All)
M24a == [Plain(All) EXCEPT !.A = JumbledResult]
M24b == [Plain(All) EXCEPT !.A = FullResult(<<2, 2>>)]
M05e == [Plain(All) EXCEPT !.M = JumbledMask, !.struct = TRUE]
M25 == [Plain(All) EXCEPT !.M = JumbledMask, !.struct = TRUE, !.A = BitmapResult]
M25b == [Plain(All) EXCEPT !.M = BitmapMask, !.struct = TRUE, !.A = BitmapResult]
M26 == [Plain(Column1) EXCEPT !.A = ColumnOf(1, <<1, 1>> :> 1 @@ <<0, 1>> :> 0)]
M00 == [Plain(Row1) EXCEPT !.comp = TRUE, !.replace = TRUE]
Clr == [Plain(Row1) EXCEPT !.comp = TRUE, !.replace = TRUE, !.kind = "assign"]

\* setElement and removeElement work on one position: outside of the first
\* column, and before the second row's entry of its own column
SetIndices == {<<0, 1>>}

\* Nothing more is done to a matrix with more pending tuples than these
MaxTuples == 2
FewTuples == C.valid /\ HasPending(C) => Len(C.pend.tup) <= MaxTuples

OnlyM21 == {M21}
OnlyM26 == {M26}
OnlyM05e == {M05e}
MCAssignments ==
  {M01, M02, M03, M04, M05, M06, M11, M14, M18, M21, M24a, M24b, M05e, M25, M25b, M26, M00, Clr}
=============================================================================
