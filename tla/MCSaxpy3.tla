------------------------------- MODULE MCSaxpy3 -------------------------------
(***************************************************************************)
(* Values for TLC.  Rows 15 and 31 have the same first slot, the last one  *)
(* of a table of 8 or 16, and row 16 has the slot after it.                *)
(***************************************************************************)
EXTENDS Saxpy3

\* What a task works on: row indices of its terms, and the number of columns
\* A(:,k) they are from (a column has an index once)
Slice(rows, n) == [rows |-> rows, n |-> n]
Slices == <<Slice(<<15, 31>>, 1), Slice(<<31, 15>>, 1), Slice(<<16, 15>>, 1),
            Slice(<<15, 15>>, 2), Slice(<<>>, 0)>>

\* Three tasks: one without work (the tasks of a team are alike, so that the
\* order of the two others does not matter); all on rows of their own; all on
\* one row after a scan of many entries of B(:,j); on two rows
Pairs   == {[t \in 0 .. 2 |-> Slices[IF t = 0 THEN k ELSE IF t = 1 THEN n ELSE 5]] :
              <<k, n>> \in {p \in (1 .. 4) \X (1 .. 5) : p[1] <= p[2]}}
Wide    == [t \in 0 .. 2 |-> Slice(<<CASE t = 0 -> 7 [] t = 1 -> 9 [] t = 2 -> 23>>, 1)]
Tall    == [t \in 0 .. 2 |-> Slice(<<15>>, 6)]
Triples == {Wide, Tall} \cup
           {[t \in 0 .. 2 |-> IF t = 0 THEN Slice(<<31, 15>>, 1)
                              ELSE IF t = 1 THEN Slice(<<i>>, 1)
                              ELSE Slice(<<15>>, 1)] : i \in {15, 31}}

Mask(kind, pattern, true, inPlace) ==
  [mask |-> kind, Mj |-> pattern, Mtrue |-> true, inPlace |-> inPlace]

Masks ==
  {Mask("none", <<>>, {}, FALSE)} \cup
  {Mask(kind, pattern, true, FALSE) :
     kind \in {"M", "notM"},
     pattern \in {<<15, 31>>, <<16, 31, 15>>},
     true \in {{15, 31}, {31}}} \cup
  {Mask("notM", <<16, 31, 15>>, {15, 16, 31}, FALSE)} \cup
  {Mask(kind, [p \in 1 .. VLen |-> p - 1], {15}, TRUE) : kind \in {"M", "notM"}}

Monoid(any, write, update) ==
  [any |-> any, atomicWrite |-> write, atomicUpdate |-> update]

Job(w, m, hash, monoid) ==
  [work |-> [t \in Team |-> w[t].rows],
   bjnz |-> MapThenSumSet(LAMBDA t : w[t].n, Team),
   hash |-> hash, monoid |-> monoid,
   mask |-> m.mask, Mj |-> m.Mj, Mtrue |-> m.Mtrue, inPlace |-> m.inPlace]

JobsWith(works, monoids) ==
  {J \in {Job(w, m, h, z) : w \in works, m \in Masks, h \in BOOLEAN, z \in monoids} :
     J.inPlace => J.hash}

Adding == {Monoid(FALSE, TRUE, TRUE), Monoid(FALSE, FALSE, FALSE)}
AnyOne == {Monoid(TRUE, TRUE, TRUE), Monoid(TRUE, FALSE, FALSE)}

MCJobs == JobsWith(Pairs, Adding) \cup JobsWith(Triples, Adding \cup AnyOne)
=============================================================================
