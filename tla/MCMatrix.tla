------------------------------- MODULE MCMatrix -------------------------------
(***************************************************************************)
(* A small matrix for TLC: two values, two scalar types, and the operators *)
(* NULL, SECOND and PLUS, where PLUS is addition modulo 2.                 *)
(***************************************************************************)
EXTENDS MatrixInvariants, TLC

CONSTANT Plus

MCVal == {0, 1}
OneVal == {0}

\* A scalar of the other type is cast to the opposite value, so that a tuple
\* that is assembled with the wrong type shows
MCCast(t, s) == IF t = CType THEN s ELSE 1 - s

MCApply(op, x, t, s) == IF op = Plus THEN (x + MCCast(t, s)) % 2 ELSE MCCast(t, s)

HalfSwitch    == [num |-> 1, den |-> 2]
QuarterSwitch == [num |-> 1, den |-> 4]

AllControls  == (SUBSET Formats) \ {{}}
NonFullControls == (SUBSET (Formats \ {"full"})) \ {{}}
DefaultControl == {Formats}
HyperOnly    == {{"hyper"}}
NonFull      == {Formats \ {"full"}}

Dims22 == {<<2, 2>>}
Dims12 == {<<1, 2>>, <<2, 1>>, <<1, 3>>}
CallDims == {<<2, 2>>, <<1, 2>>, <<2, 1>>, <<0, 1>>}

\* Every position, and one too far in each direction
MCIndices == Pos \cup {<<MaxVlen, 0>>, <<0, MaxVdim>>}

\* The positions of the matrices of Dims12: each is out of range of some other
Indices12 == {<<0, 0>>, <<0, 1>>, <<0, 2>>, <<1, 0>>}

\* Three positions of two vectors, and one too far
CallIndices == {<<0, 0>>, <<1, 0>>, <<0, 1>>, <<0, MaxVdim>>}

\* No action depends on the reply of the one before, unless it was a crash:
\* states that differ in the reply alone are explored once
View == C

\* The results of other operations.  Made(d, fmt, entry) is a finished matrix.
Made(d, fmt, entry) ==
  LET A == [NewMatrix(d[1], d[2]) EXCEPT !.fmt = fmt, !.entry = entry]
      vecs == Nonempty(A)
  IN  [A EXCEPT !.h = IF fmt = "hyper" THEN vecs ELSE {},
                !.nvals = IF fmt = "full" THEN 0 ELSE Cardinality(Held(A)),
                !.nzombies = Cardinality(Zombies(A)),
                !.nne = NvecNonempty(A)]

Content(f) == [p \in Pos |-> IF p \in DOMAIN f THEN f[p] ELSE Absent]
Inside(d)  == (0 .. d[1] - 1) \X (0 .. d[2] - 1)

\* saxpy leaves vectors out of order
JumbledResult ==
  [Made(<<2, 2>>, "hyper", Content(<<0, 0>> :> 0 @@ <<1, 0>> :> 1)) EXCEPT
     !.jumbled = TRUE, !.unsorted = {0}]

\* ... and of more entries than a sparse matrix may have
CrowdedResult ==
  [Made(<<2, 2>>, "hyper", Content(<<0, 0>> :> 0 @@ <<1, 0>> :> 1 @@ <<0, 1>> :> 1)) EXCEPT
     !.jumbled = TRUE, !.unsorted = {0}]

\* dot3 leaves zombies
ZombieResult == Made(<<2, 2>>, "sparse", Content(<<0, 0>> :> Zombie @@ <<1, 1>> :> 1))

\* a copy of a matrix that has a hyper_hash
HashedResult == [Made(<<2, 2>>, "hyper", Content(<<0, 1>> :> 1)) EXCEPT !.Y = {1}]

BitmapResult == Made(<<2, 2>>, "bitmap", Content(<<0, 0>> :> 1 @@ <<0, 1>> :> 0))

FullResult(d) ==
  Made(d, "full", Content([p \in Inside(d) |-> IF p[2] = 0 THEN 0 ELSE 1]))

IsoResult(d) ==
  [Made(d, "full", Content([p \in Inside(d) |-> 1])) EXCEPT !.iso = 1]

EmptyResult(d) == NewMatrix(d[1], d[2])

NoResults  == {}
MCResults  == {JumbledResult, CrowdedResult, ZombieResult, HashedResult, BitmapResult,
               FullResult(<<2, 2>>), IsoResult(<<2, 2>>), EmptyResult(<<2, 2>>)}
Dims21 == {<<2, 1>>}
ResizeResults ==
  MCResults \cup UNION {{FullResult(d), IsoResult(d)} : d \in {<<1, 2>>, <<2, 1>>, <<1, 1>>}}
=============================================================================
