---------------------------- MODULE JitifyerProofs ----------------------------
(***************************************************************************)
(* Proofs about the JIT, for any number of threads and kernels. Lemmas     *)
(* about the hash table come first: the search for a slot, the insertion,  *)
(* and the growth of the table, which keeps every entry. Then there are    *)
(* three parts: the critical section, the control and the search outside,  *)
(* to which it does not matter what the table holds (ControlInv); the      *)
(* counts of the table and of the libraries (TableInv); and the code of    *)
(* the kernel that a call runs (CodeInv, OperatorInv).                     *)
(***************************************************************************)
EXTENDS Jitifyer, FiniteSetTheorems, TLAPS

-----------------------------------------------------------------------------
(* Arithmetic *)

\* Every set of natural numbers that is not empty has a least element.
LEMMA LeastNat ==
  ASSUME NEW S \in SUBSET Nat, S # {}
  PROVE  Min(S) \in S /\ \A m \in S : Min(S) <= m
  <1> DEFINE T == {0 .. k : k \in S}
             R == StrictSubsetOrdering(Nat)
  <1>1. IsWellFoundedOn(R, FiniteSubsetsOf(Nat))
    BY FS_StrictSubsetOrderingWellFounded
  <1>2. \A k \in S : 0 .. k \in FiniteSubsetsOf(Nat)
    <2> SUFFICES ASSUME NEW k \in S PROVE 0 .. k \in FiniteSubsetsOf(Nat)
      OBVIOUS
    <2>1. k \in Int /\ 0 \in Int /\ 0 .. k \subseteq Nat
      OBVIOUS
    <2> QED BY <2>1, FS_Interval DEF FiniteSubsetsOf
  <1>3. T \subseteq FiniteSubsetsOf(Nat) /\ T # {}
    BY <1>2
  <1>4. PICK x \in T : \A y \in T : <<y, x>> \notin R
    BY <1>1, <1>3, WFMin
  <1>5. PICK m \in S : x = 0 .. m
    BY <1>4
  <1>6. ASSUME NEW k \in S, k < m
        PROVE  FALSE
    <2>1. 0 .. k \in T /\ 0 .. k \subseteq 0 .. m /\ 0 .. k # 0 .. m
      <3>1. m \in 0 .. m /\ m \notin 0 .. k
        BY <1>6
      <3> QED BY <1>6, <3>1
    <2>2. <<0 .. k, 0 .. m>> \in R
      BY <2>1 DEF StrictSubsetOrdering
    <2> QED BY <1>4, <1>5, <2>1, <2>2
  <1>7. \E x1 \in S : \A y \in S : x1 <= y
    BY <1>6
  <1> QED BY <1>7 DEF Min

LEMMA SmallMultiple ==
  ASSUME NEW n \in Nat \ {0}, NEW x \in Int, -n < n * x, n * x < n
  PROVE  x = 0
  <1>1. x >= 1 => n * x >= n
    OBVIOUS
  <1>2. x <= -1 => n * x <= -n
    OBVIOUS
  <1> QED BY <1>1, <1>2

LEMMA RemainderOfSum ==
  ASSUME NEW n \in Nat \ {0}, NEW q \in Int, NEW s \in 0 .. n - 1
  PROVE  (n * q + s) % n = s
  <1> DEFINE v == n * q + s
             d == v \div n
             r == v % n
  <1>1. v \in Int
    OBVIOUS
  <1> HIDE DEF v
  <1>2. v = n * d + r /\ r \in 0 .. n - 1 /\ d \in Int
    BY <1>1
  <1> HIDE DEF d, r
  <1>3. n * (q - d) = r - s
    BY <1>2 DEF v
  <1>4. q - d = 0
    BY <1>2, <1>3, SmallMultiple
  <1> QED BY <1>3, <1>4, <1>2 DEF r, v

\* Probing a table linearly, from any slot, comes to every slot.
LEMMA ProbeReaches ==
  ASSUME NEW n \in Nat \ {0}, NEW h \in Nat, NEW s \in 0 .. n - 1
  PROVE  \E d \in 0 .. n - 1 : (h + d) % n = s
  <1> DEFINE q == h \div n
             r == h % n
  <1>1. h = n * q + r /\ r \in 0 .. n - 1 /\ q \in Int
    OBVIOUS
  <1> HIDE DEF q, r
  <1>2. CASE s >= r
    <2>1. h + (s - r) = n * q + s /\ s - r \in 0 .. n - 1
      BY <1>1, <1>2
    <2>2. (h + (s - r)) % n = s
      BY <2>1, <1>1, RemainderOfSum
    <2> QED BY <2>1, <2>2
  <1>3. CASE s < r
    <2> DEFINE d == s - r + n
    <2>1. h + d = n * (q + 1) + s /\ d \in 0 .. n - 1 /\ q + 1 \in Int
      BY <1>1, <1>3
    <2>2. (h + d) % n = s
      BY <2>1, RemainderOfSum
    <2> QED BY <2>1, <2>2
  <1> QED BY <1>1, <1>2, <1>3

\* The first slot in S on the way of a kernel is in S.
LEMMA FirstIsIn ==
  ASSUME NEW n \in Nat \ {0}, NEW S \in SUBSET (0 .. n - 1), S # {}, NEW k \in Kernels
  PROVE  FirstIn(S, k, n) \in S
  <1> DEFINE D == {d \in 0 .. n - 1 : (Hash[k] + d) % n \in S}
  <1>1. Hash[k] \in Nat
    BY HashAssumption
  <1>2. D # {}
    <2>1. PICK s \in S : s \in 0 .. n - 1
      OBVIOUS
    <2>2. PICK d \in 0 .. n - 1 : (Hash[k] + d) % n = s
      BY <1>1, <2>1, ProbeReaches
    <2> QED BY <2>1, <2>2
  <1>3. D \subseteq Nat
    OBVIOUS
  <1>4. Min(D) \in D
    BY <1>2, <1>3, LeastNat
  <1> QED BY <1>4 DEF FirstIn

-----------------------------------------------------------------------------
(* Tables *)

IsTable(tab) == \E n \in Nat : tab \in [0 .. n - 1 -> EntrySet]
Real == EntrySet \ {NoEntry}

LEMMA RealEntry ==
  /\ Real = [kernel : Kernels, code : Codes, handle : BOOLEAN, unchecked : BOOLEAN]
  /\ NoEntry \in EntrySet
  <1>1. NoEntry \notin [kernel : Kernels, code : Codes, handle : BOOLEAN, unchecked : BOOLEAN]
    BY KernelAssumption DEF NoEntry, Entry
  <1> QED BY <1>1 DEF Real, EntrySet

LEMMA TableShape ==
  ASSUME NEW tab, IsTable(tab)
  PROVE  /\ Size(tab) \in Nat /\ tab \in [0 .. Size(tab) - 1 -> EntrySet]
         /\ DOMAIN tab = 0 .. Size(tab) - 1
         /\ IsFiniteSet(DOMAIN tab) /\ IsFiniteSet(Entries(tab))
         /\ Entries(tab) \subseteq DOMAIN tab
         /\ Cardinality(Entries(tab)) \in Nat
         /\ Cardinality(Entries(tab)) <= Size(tab)
         /\ \A s \in Entries(tab) : tab[s] \in Real
  <1>1. PICK n \in Nat : tab \in [0 .. n - 1 -> EntrySet]
    BY DEF IsTable
  <1>2. IsFiniteSet(0 .. n - 1) /\ Cardinality(0 .. n - 1) = n
    <2>1. 0 \in Int /\ n - 1 \in Int
      OBVIOUS
    <2> QED BY <2>1, FS_Interval
  <1>3. Size(tab) = n /\ DOMAIN tab = 0 .. n - 1
    BY <1>1, <1>2 DEF Size
  <1>4. Entries(tab) \in SUBSET (DOMAIN tab)
    BY DEF Entries
  <1>5. IsFiniteSet(Entries(tab)) /\ Cardinality(Entries(tab)) <= n
    BY <1>2, <1>3, <1>4, FS_Subset
  <1>6. \A s \in Entries(tab) : tab[s] \in Real
    BY <1>1, <1>3 DEF Entries, Real
  <1>7. Cardinality(Entries(tab)) \in Nat
    BY <1>5, FS_CardinalityType
  <1> QED BY <1>1, <1>2, <1>3, <1>4, <1>5, <1>6, <1>7

LEMMA NoTable == IsTable(<< >>) /\ Size(<< >>) = 0 /\ Entries(<< >>) = {}
  <1>1. << >> \in [0 .. 0 - 1 -> EntrySet]
    OBVIOUS
  <1>2. Size(<< >>) = 0
    BY FS_EmptySet DEF Size
  <1> QED BY <1>1, <1>2 DEF IsTable, Entries

LEMMA EmptyTableShape ==
  ASSUME NEW n \in Nat
  PROVE  /\ IsTable(EmptyTable(n)) /\ Size(EmptyTable(n)) = n
         /\ Entries(EmptyTable(n)) = {}
  <1>1. EmptyTable(n) \in [0 .. n - 1 -> EntrySet]
    BY RealEntry DEF EmptyTable
  <1>2. Cardinality(0 .. n - 1) = n
    <2>1. 0 \in Int /\ n - 1 \in Int
      OBVIOUS
    <2> QED BY <2>1, FS_Interval
  <1> QED BY <1>1, <1>2 DEF IsTable, Size, Entries, EmptyTable

\* An entry is put into a slot that was empty.
LEMMA PlaceAdds ==
  ASSUME NEW tab, IsTable(tab), Cardinality(Entries(tab)) < Size(tab), NEW e \in Real
  PROVE  /\ IsTable(Place(tab, e)) /\ Size(Place(tab, e)) = Size(tab)
         /\ \E s \in DOMAIN tab \ Entries(tab) :
              /\ Place(tab, e) = [tab EXCEPT ![s] = e]
              /\ Entries(Place(tab, e)) = Entries(tab) \cup {s}
  <1> DEFINE n == Size(tab)
             S == DOMAIN tab \ Entries(tab)
             s == FirstIn(S, e.kernel, n)
  <1>1. /\ n \in Nat /\ tab \in [0 .. n - 1 -> EntrySet] /\ DOMAIN tab = 0 .. n - 1
        /\ IsFiniteSet(DOMAIN tab) /\ Cardinality(DOMAIN tab) = n
    BY TableShape DEF Size
  <1>2. S # {}
    <2>1. SUFFICES ASSUME S = {} PROVE FALSE
      OBVIOUS
    <2>2. Entries(tab) = DOMAIN tab
      BY <2>1 DEF Entries
    <2> QED BY <1>1, <2>2
  <1>3. n \in Nat \ {0} /\ S \in SUBSET (0 .. n - 1)
    BY <1>1, <1>2
  <1>4. e.kernel \in Kernels /\ e \in EntrySet /\ e # NoEntry
    <2>1. e \in [kernel : Kernels, code : Codes, handle : BOOLEAN, unchecked : BOOLEAN]
      BY RealEntry
    <2> QED BY <2>1 DEF Real
  <1> HIDE DEF n, S
  <1>5. s \in S
    BY <1>2, <1>3, <1>4, FirstIsIn
  <1>6. Place(tab, e) = [tab EXCEPT ![s] = e]
    BY DEF Place, S, n
  <1> HIDE DEF s
  <1>7. Place(tab, e) \in [0 .. n - 1 -> EntrySet] /\ DOMAIN Place(tab, e) = DOMAIN tab
    BY <1>1, <1>4, <1>6
  <1>8. Entries(Place(tab, e)) = Entries(tab) \cup {s}
    BY <1>1, <1>4, <1>5, <1>6, <1>7 DEF Entries, S
  <1> QED
    BY <1>1, <1>5, <1>6, <1>7, <1>8 DEF IsTable, S, n, Size

-----------------------------------------------------------------------------
(* Two tables with the same entries in other slots *)

\* b gives the slot in new of each entry of tab in the slots S
Moves(b, S, tab, new) ==
  /\ b \in [S -> Entries(new)]
  /\ \A r, s \in S : b[r] = b[s] => r = s
  /\ \A q \in Entries(new) : \E s \in S : b[s] = q
  /\ \A s \in S : new[b[s]] = tab[s]

SameEntries(tab, new) == \E b : Moves(b, Entries(tab), tab, new)

Handled(tab, k) == {s \in DOMAIN tab : tab[s].kernel = k /\ tab[s].handle}

LEMMA HandledEntries ==
  ASSUME NEW tab, IsTable(tab), NEW k
  PROVE  /\ Handled(tab, k) = {s \in Entries(tab) : tab[s].kernel = k /\ tab[s].handle}
         /\ IsFiniteSet(Handled(tab, k)) /\ Cardinality(Handled(tab, k)) \in Nat
  <1>1. Handled(tab, k) = {s \in Entries(tab) : tab[s].kernel = k /\ tab[s].handle}
    BY DEF Handled, Entries, NoEntry, Entry
  <1>2. IsFiniteSet(Entries(tab)) /\ Handled(tab, k) \in SUBSET Entries(tab)
    BY <1>1, TableShape
  <1>3. IsFiniteSet(Handled(tab, k))
    BY <1>2, FS_Subset
  <1> QED BY <1>1, <1>3, FS_CardinalityType

LEMMA SameCounts ==
  ASSUME NEW tab, NEW new, IsTable(tab), IsTable(new), SameEntries(tab, new)
  PROVE  /\ Cardinality(Entries(new)) = Cardinality(Entries(tab))
         /\ \A k : Cardinality(Handled(new, k)) = Cardinality(Handled(tab, k))
         /\ \A s \in Entries(tab) : \E q \in Entries(new) : new[q] = tab[s]
         /\ \A q \in Entries(new) : \E s \in Entries(tab) : new[q] = tab[s]
  <1>1. PICK b : Moves(b, Entries(tab), tab, new)
    BY DEF SameEntries
  <1>2. Cardinality(Entries(new)) = Cardinality(Entries(tab))
    <2>1. IsFiniteSet(Entries(tab))
      BY TableShape
    <2>2. b \in Bijection(Entries(tab), Entries(new))
      BY <1>1 DEF Moves, Bijection, Injection, Surjection, IsInjective
    <2> QED BY <2>1, <2>2, FS_Bijection DEF ExistsBijection
  <1>3. ASSUME NEW k
        PROVE  Cardinality(Handled(new, k)) = Cardinality(Handled(tab, k))
    <2> DEFINE S == Handled(tab, k)
               Q == Handled(new, k)
               c == [s \in S |-> b[s]]
    <2>1. /\ S = {s \in Entries(tab) : tab[s].kernel = k /\ tab[s].handle}
          /\ Q = {s \in Entries(new) : new[s].kernel = k /\ new[s].handle}
          /\ IsFiniteSet(S)
      BY HandledEntries
    <2> HIDE DEF S, Q
    <2>2. /\ b \in [Entries(tab) -> Entries(new)]
          /\ \A r, s \in Entries(tab) : b[r] = b[s] => r = s
          /\ \A q \in Entries(new) : \E s \in Entries(tab) : b[s] = q
          /\ \A s \in Entries(tab) : new[b[s]] = tab[s]
      BY <1>1 DEF Moves
    <2>3. c \in [S -> Q]
      BY <2>1, <2>2
    <2>4. \A r, s \in S : c[r] = c[s] => r = s
      BY <2>1, <2>2
    <2>5. \A q \in Q : \E s \in S : c[s] = q
      <3> SUFFICES ASSUME NEW q \in Q PROVE \E s \in S : c[s] = q
        OBVIOUS
      <3>1. PICK s \in Entries(tab) : b[s] = q
        BY <2>1, <2>2
      <3>2. s \in S
        BY <2>1, <2>2, <3>1
      <3> QED BY <3>1, <3>2
    <2>6. c \in Bijection(S, Q)
      <3> HIDE DEF c
      <3> QED BY <2>3, <2>4, <2>5 DEF Bijection, Injection, Surjection, IsInjective
    <2> QED BY <2>1, <2>6, FS_Bijection DEF ExistsBijection, S, Q
  <1>4. \A s \in Entries(tab) : \E q \in Entries(new) : new[q] = tab[s]
    BY <1>1 DEF Moves
  <1>5. \A q \in Entries(new) : \E s \in Entries(tab) : new[q] = tab[s]
    BY <1>1 DEF Moves
  <1> QED BY <1>2, <1>3, <1>4, <1>5

\* One more entry has been put into the new table.
LEMMA MovesOne ==
  ASSUME NEW tab, NEW new, NEW S, NEW b, Moves(b, S, tab, new), NEW s, s \notin S,
         NEW q, q \in DOMAIN new, q \notin Entries(new), tab[s] # NoEntry,
         NEW next, next = [new EXCEPT ![q] = tab[s]],
         Entries(next) = Entries(new) \cup {q}
  PROVE  \E c : Moves(c, S \cup {s}, tab, next)
  <1> DEFINE c == [r \in S \cup {s} |-> IF r = s THEN q ELSE b[r]]
  <1>1. /\ b \in [S -> Entries(new)]
        /\ \A r, u \in S : b[r] = b[u] => r = u
        /\ \A v \in Entries(new) : \E u \in S : b[u] = v
        /\ \A u \in S : new[b[u]] = tab[u]
    BY DEF Moves
  <1>2. c \in [S \cup {s} -> Entries(next)]
    BY <1>1
  <1>3. \A r, u \in S \cup {s} : c[r] = c[u] => r = u
    BY <1>1
  <1>4. \A v \in Entries(next) : \E u \in S \cup {s} : c[u] = v
    <2> SUFFICES ASSUME NEW v \in Entries(next) PROVE \E u \in S \cup {s} : c[u] = v
      OBVIOUS
    <2>1. CASE v = q
      BY <2>1
    <2>2. CASE v # q
      <3>1. PICK u \in S : b[u] = v
        BY <1>1, <2>2
      <3> QED BY <3>1
    <2> QED BY <2>1, <2>2
  <1>5. \A u \in S \cup {s} : next[c[u]] = tab[u]
    <2> SUFFICES ASSUME NEW u \in S \cup {s} PROVE next[c[u]] = tab[u]
      OBVIOUS
    <2>1. CASE u = s
      BY <2>1
    <2>2. CASE u # s
      <3>1. b[u] \in Entries(new) /\ b[u] # q /\ c[u] = b[u] /\ u \in S
        BY <1>1, <2>2
      <3>2. next[b[u]] = new[b[u]]
        BY <3>1 DEF Entries
      <3> QED BY <1>1, <3>1, <3>2
    <2> QED BY <2>1, <2>2
  <1> HIDE DEF c
  <1> QED BY <1>2, <1>3, <1>4, <1>5 DEF Moves

-----------------------------------------------------------------------------
(* The growth of the table *)

\* What the loop of Rehash has made of the first k slots
Rehashed(tab, n, f, k) ==
  IF k = 0 THEN EmptyTable(n)
  ELSE IF tab[k - 1] = NoEntry THEN f[k - 1]
  ELSE Place(f[k - 1], tab[k - 1])

LEMMA RehashLoop ==
  ASSUME NEW N \in Nat, NEW tab, NEW n
  PROVE  \E f : f = [k \in 0 .. N |-> Rehashed(tab, n, f, k)]
  <1> DEFINE Exists(m) == \E f : f = [k \in 0 .. m |-> Rehashed(tab, n, f, k)]
             Bad == {m \in Nat : ~Exists(m)}
  <1>1. Exists(0)
    <2> DEFINE f == [k \in 0 .. 0 |-> EmptyTable(n)]
    <2>1. f = [k \in 0 .. 0 |-> Rehashed(tab, n, f, k)]
      BY DEF Rehashed
    <2> QED BY <2>1
  <1>2. ASSUME NEW m \in Nat \ {0}, Exists(m - 1)
        PROVE  Exists(m)
    <2>1. PICK f : f = [k \in 0 .. m - 1 |-> Rehashed(tab, n, f, k)]
      BY <1>2
    <2> DEFINE g == [k \in 0 .. m |-> IF k = m THEN Rehashed(tab, n, f, m) ELSE f[k]]
    <2>2. \A k \in 0 .. m : k # 0 => g[k - 1] = f[k - 1]
      OBVIOUS
    <2>3. \A k \in 0 .. m : Rehashed(tab, n, g, k) = Rehashed(tab, n, f, k)
      BY <2>2 DEF Rehashed
    <2>4. \A k \in 0 .. m - 1 : f[k] = Rehashed(tab, n, f, k)
      BY <2>1
    <2>5. \A k \in 0 .. m : g[k] = Rehashed(tab, n, f, k)
      BY <2>4
    <2>6. g = [k \in 0 .. m |-> Rehashed(tab, n, g, k)]
      BY <2>3, <2>5
    <2> QED BY <2>6
  <1>3. Bad = {}
    <2> SUFFICES ASSUME Bad # {} PROVE FALSE
      OBVIOUS
    <2> HIDE DEF Exists
    <2>1. Min(Bad) \in Bad /\ \A m \in Bad : Min(Bad) <= m
      BY LeastNat
    <2> DEFINE m == Min(Bad)
    <2>2. m \in Nat \ {0} /\ ~Exists(m)
      BY <1>1, <2>1
    <2> HIDE DEF m
    <2>3. m - 1 \notin Bad /\ m - 1 \in Nat
      BY <2>1, <2>2 DEF m
    <2> QED BY <1>2, <2>2, <2>3
  <1> QED BY <1>3

\* Every entry of the table is in a larger one, once, and nothing else is.
LEMMA RehashKeeps ==
  ASSUME NEW tab, IsTable(tab), NEW n \in Nat \ {0}, Size(tab) <= n
  PROVE  /\ IsTable(Rehash(tab, n)) /\ Size(Rehash(tab, n)) = n
         /\ SameEntries(tab, Rehash(tab, n))
  <1> DEFINE N == Size(tab)
             moved == CHOOSE f : f = [k \in 0 .. N |-> Rehashed(tab, n, f, k)]
             Slots(k) == {s \in Entries(tab) : s < k}
             Good(k) == /\ IsTable(moved[k]) /\ Size(moved[k]) = n
                        /\ \E b : Moves(b, Slots(k), tab, moved[k])
             Bad == {k \in 0 .. N : ~Good(k)}
  <1>1. /\ N \in Nat /\ tab \in [0 .. N - 1 -> EntrySet] /\ DOMAIN tab = 0 .. N - 1
        /\ IsFiniteSet(Entries(tab)) /\ Entries(tab) \subseteq 0 .. N - 1
        /\ \A s \in Entries(tab) : tab[s] \in Real
    BY TableShape
  <1>2. Rehash(tab, n) = moved[N]
    BY DEF Rehash, Rehashed
  <1> HIDE DEF N
  <1>3. moved = [k \in 0 .. N |-> Rehashed(tab, n, moved, k)]
    BY <1>1, RehashLoop
  <1> HIDE DEF moved
  <1>4. Good(0)
    <2>1. moved[0] = EmptyTable(n)
      BY <1>1, <1>3 DEF Rehashed
    <2>2. IsTable(moved[0]) /\ Size(moved[0]) = n /\ Entries(moved[0]) = {}
      BY <2>1, EmptyTableShape
    <2>3. Slots(0) = {}
      BY <1>1
    <2>4. Moves([s \in {} |-> s], Slots(0), tab, moved[0])
      BY <2>2, <2>3 DEF Moves
    <2> QED BY <2>2, <2>4
  <1>5. ASSUME NEW k \in 1 .. N, Good(k - 1)
        PROVE  Good(k)
    <2>1. k - 1 \in 0 .. N - 1 /\ k \in 0 .. N
      BY <1>1
    <2>2. moved[k] = IF tab[k - 1] = NoEntry THEN moved[k - 1] ELSE Place(moved[k - 1], tab[k - 1])
      BY <1>1, <1>3, <2>1 DEF Rehashed
    <2>3. PICK b : Moves(b, Slots(k - 1), tab, moved[k - 1])
      BY <1>5
    <2>4. CASE tab[k - 1] = NoEntry
      <3>1. Slots(k) = Slots(k - 1)
        BY <1>1, <2>1, <2>4 DEF Entries
      <3> QED BY <1>5, <2>2, <2>4, <3>1
    <2>5. CASE tab[k - 1] # NoEntry
      <3>1. /\ Slots(k) = Slots(k - 1) \cup {k - 1} /\ k - 1 \notin Slots(k - 1)
            /\ k - 1 \in Entries(tab)
        <4>1. k - 1 \in Entries(tab)
          BY <1>1, <2>1, <2>5 DEF Entries
        <4>2. \A s \in Entries(tab) : s < k <=> (s < k - 1 \/ s = k - 1)
          BY <1>1, <2>1
        <4> QED BY <4>1, <4>2, <2>1
      <3>2. Cardinality(Entries(moved[k - 1])) < Size(moved[k - 1])
        <4>1. IsFiniteSet(Slots(k - 1)) /\ IsFiniteSet(Slots(k)) /\ IsFiniteSet(0 .. N - 1)
          <5>1. IsFiniteSet(0 .. N - 1)
            BY <1>1, TableShape
          <5> QED BY <1>1, <5>1, FS_Subset
        <4>2. Cardinality(Slots(k)) = Cardinality(Slots(k - 1)) + 1
          BY <3>1, <4>1, FS_AddElement
        <4>3. Cardinality(Slots(k)) <= N
          <5>1. Slots(k) \in SUBSET Entries(tab)
            OBVIOUS
          <5>2. Cardinality(Slots(k)) <= Cardinality(Entries(tab))
            BY <1>1, <5>1, FS_Subset
          <5>3. Cardinality(Entries(tab)) <= N /\ Cardinality(Entries(tab)) \in Nat
            BY TableShape DEF N
          <5> HIDE DEF Slots
          <5>4. Cardinality(Slots(k)) \in Nat
            BY <4>1, FS_CardinalityType
          <5> QED BY <1>1, <5>2, <5>3, <5>4
        <4>4. Cardinality(Entries(moved[k - 1])) = Cardinality(Slots(k - 1))
          <5> HIDE DEF Slots
          <5>1. b \in Bijection(Slots(k - 1), Entries(moved[k - 1]))
            BY <2>3 DEF Moves, Bijection, Injection, Surjection, IsInjective
          <5> QED BY <4>1, <5>1, FS_Bijection DEF ExistsBijection
        <4>5. Cardinality(Slots(k - 1)) \in Nat
          <5> HIDE DEF Slots
          <5> QED BY <4>1, FS_CardinalityType
        <4> HIDE DEF Slots
        <4> QED BY <1>1, <1>5, <4>2, <4>3, <4>4, <4>5 DEF N
      <3>3. tab[k - 1] \in Real
        BY <1>1, <3>1
      <3>4. moved[k] = Place(moved[k - 1], tab[k - 1])
        BY <2>2, <2>5
      <3>5. /\ IsTable(moved[k]) /\ Size(moved[k]) = n
            /\ \E q \in DOMAIN moved[k - 1] \ Entries(moved[k - 1]) :
                 /\ moved[k] = [moved[k - 1] EXCEPT ![q] = tab[k - 1]]
                 /\ Entries(moved[k]) = Entries(moved[k - 1]) \cup {q}
        BY <1>5, <3>2, <3>3, <3>4, PlaceAdds
      <3>6. \E c : Moves(c, Slots(k - 1) \cup {k - 1}, tab, moved[k])
        <4> HIDE DEF Slots
        <4> QED BY <2>3, <2>5, <3>1, <3>5, MovesOne
      <3> QED BY <3>1, <3>5, <3>6
    <2> QED BY <2>4, <2>5
  <1>6. Bad = {}
    <2> SUFFICES ASSUME Bad # {} PROVE FALSE
      OBVIOUS
    <2> HIDE DEF Good
    <2> DEFINE k == Min(Bad)
    <2>1. k \in Bad /\ \A m \in Bad : k <= m
      <3>1. Bad \in SUBSET Nat
        BY <1>1
      <3> HIDE DEF Bad
      <3> QED BY <3>1, LeastNat
    <2> HIDE DEF k
    <2>2. k \in 1 .. N /\ ~Good(k)
      BY <1>1, <1>4, <2>1
    <2>3. k - 1 \in 0 .. N /\ k - 1 \notin Bad
      BY <1>1, <2>1, <2>2
    <2> QED BY <1>5, <2>2, <2>3
  <1>7. Good(N)
    <2>1. N \in 0 .. N
      BY <1>1
    <2> HIDE DEF Good
    <2> QED BY <1>6, <2>1
  <1>8. Slots(N) = Entries(tab)
    BY <1>1
  <1> QED BY <1>2, <1>7, <1>8 DEF SameEntries

-----------------------------------------------------------------------------
(* The counter *)

\* The counter is right, and a table has an empty slot
Counted(tab, pop) ==
  /\ IsTable(tab)
  /\ pop = Cardinality(Entries(tab))
  /\ tab # << >> => pop < Size(tab) /\ Size(tab) >= 2

LEMMA SameTable ==
  ASSUME NEW tab
  PROVE  SameEntries(tab, tab)
  <1>1. Moves([s \in Entries(tab) |-> s], Entries(tab), tab, tab)
    BY DEF Moves
  <1> QED BY <1>1 DEF SameEntries

\* The table has room for two more entries before one is put into it.
LEMMA RoomyKeeps ==
  ASSUME NEW tab, NEW pop, Counted(tab, pop)
  PROVE  /\ IsTable(Roomy(tab, pop)) /\ SameEntries(tab, Roomy(tab, pop))
         /\ Cardinality(Entries(Roomy(tab, pop))) = pop
         /\ pop \in Nat /\ pop + 1 < Size(Roomy(tab, pop))
         /\ Size(Roomy(tab, pop)) \in Nat
         /\ Counted(Roomy(tab, pop), pop)
  <1> DEFINE new == Roomy(tab, pop)
  <1>1. /\ IsTable(tab) /\ pop = Cardinality(Entries(tab)) /\ pop \in Nat
        /\ Size(tab) \in Nat
    BY TableShape DEF Counted
  <1>2. CASE tab = << >>
    <2>1. new = EmptyTable(InitialSize) /\ InitialSize \in Nat \ {0, 1} /\ pop = 0
      BY <1>1, <1>2, NoTable, HashAssumption, FS_EmptySet DEF Roomy
    <2>2. /\ IsTable(new) /\ Size(new) = InitialSize /\ Entries(new) = {}
          /\ Entries(tab) = {}
      BY <1>2, <2>1, EmptyTableShape, NoTable
    <2>3. SameEntries(tab, new)
      <3>1. Moves([s \in {} |-> s], Entries(tab), tab, new)
        BY <2>2 DEF Moves
      <3> QED BY <3>1 DEF SameEntries
    <2>4. Cardinality(Entries(new)) = 0
      BY <2>2, FS_EmptySet
    <2> HIDE DEF new
    <2> QED BY <2>1, <2>2, <2>3, <2>4 DEF Counted, new
  <1>3. CASE tab # << >> /\ 4 * pop >= Size(tab)
    <2>1. new = Rehash(tab, 4 * Size(tab))
      BY <1>3 DEF Roomy
    <2>2. 4 * Size(tab) \in Nat \ {0} /\ Size(tab) <= 4 * Size(tab) /\ pop < Size(tab)
      BY <1>1, <1>3 DEF Counted
    <2>3. IsTable(new) /\ Size(new) = 4 * Size(tab) /\ SameEntries(tab, new)
      BY <1>1, <2>1, <2>2, RehashKeeps
    <2>4. Cardinality(Entries(new)) = pop
      BY <1>1, <2>3, SameCounts
    <2>5. pop + 1 < Size(new) /\ Size(new) >= 2 /\ pop < Size(new)
      BY <1>1, <2>2, <2>3
    <2> HIDE DEF new
    <2> QED BY <1>1, <2>3, <2>4, <2>5 DEF Counted, new
  <1>4. CASE tab # << >> /\ ~(4 * pop >= Size(tab))
    <2>1. new = tab
      BY <1>4 DEF Roomy
    <2>2. pop + 1 < Size(tab)
      BY <1>1, <1>4 DEF Counted
    <2> HIDE DEF new
    <2> QED BY <1>1, <2>1, <2>2, SameTable DEF new
  <1> QED BY <1>2, <1>3, <1>4

\* What is in a table after an insertion
Inserted(tab, e, new) ==
  /\ \A s \in Entries(tab) : \E q \in Entries(new) : new[q] = tab[s]
  /\ \A q \in Entries(new) : new[q] = e \/ \E s \in Entries(tab) : new[q] = tab[s]
  /\ \E q \in Entries(new) : new[q] = e
  /\ \A k : Cardinality(Handled(new, k)) =
              Cardinality(Handled(tab, k)) + (IF e.kernel = k /\ e.handle THEN 1 ELSE 0)

LEMMA PlaceCounts ==
  ASSUME NEW tab, NEW pop, Counted(tab, pop), pop \in Nat, pop + 1 < Size(tab),
         NEW e \in Real
  PROVE  Counted(Place(tab, e), pop + 1) /\ Inserted(tab, e, Place(tab, e))
  <1> DEFINE new == Place(tab, e)
  <1>1. IsTable(tab) /\ pop = Cardinality(Entries(tab)) /\ Size(tab) \in Nat
    BY TableShape DEF Counted
  <1>2. Cardinality(Entries(tab)) < Size(tab)
    BY <1>1
  <1>3. IsTable(new) /\ Size(new) = Size(tab)
    BY <1>1, <1>2, PlaceAdds
  <1>4. PICK s \in DOMAIN tab \ Entries(tab) :
          new = [tab EXCEPT ![s] = e] /\ Entries(new) = Entries(tab) \cup {s}
    BY <1>1, <1>2, PlaceAdds
  <1> HIDE DEF new
  <1>5. Counted(new, pop + 1)
    <2>1. Cardinality(Entries(new)) = pop + 1
      BY <1>1, <1>4, TableShape, FS_AddElement
    <2>2. Size(new) >= 2
      BY <1>1, <1>3
    <2> QED BY <1>3, <2>1, <2>2 DEF Counted
  <1>6. ASSUME NEW k
        PROVE  Cardinality(Handled(new, k)) =
                 Cardinality(Handled(tab, k)) + (IF e.kernel = k /\ e.handle THEN 1 ELSE 0)
    <2>1. s \notin Handled(tab, k) /\ IsFiniteSet(Handled(tab, k)) /\ Cardinality(Handled(tab, k)) \in Nat
      BY <1>1, <1>4, HandledEntries
    <2>2. Handled(new, k) = {q \in Entries(new) : new[q].kernel = k /\ new[q].handle}
      BY <1>3, HandledEntries
    <2>3. Handled(tab, k) = {q \in Entries(tab) : tab[q].kernel = k /\ tab[q].handle}
      BY <1>1, HandledEntries
    <2>4. \A q \in Entries(tab) : new[q] = tab[q] /\ q # s
      BY <1>4 DEF Entries
    <2>5. new[s] = e
      BY <1>4
    <2>6. CASE e.kernel = k /\ e.handle
      <3>1. Handled(new, k) = Handled(tab, k) \cup {s}
        BY <1>4, <2>2, <2>3, <2>4, <2>5, <2>6
      <3>2. Cardinality(Handled(new, k)) = Cardinality(Handled(tab, k)) + 1
        BY <2>1, <3>1, FS_AddElement
      <3> QED BY <2>6, <3>2
    <2>7. CASE ~(e.kernel = k /\ e.handle)
      <3>1. \A q \in Entries(new) : q \in Entries(tab) \/ q = s
        BY <1>4
      <3>2. \A q \in Entries(tab) : q \in Entries(new)
        BY <1>4
      <3>3. \A q : q \in Handled(new, k) <=> q \in Handled(tab, k)
        BY <2>2, <2>3, <2>4, <2>5, <2>7, <3>1, <3>2
      <3>4. Handled(new, k) = Handled(tab, k)
        BY <3>3
      <3> QED BY <2>1, <2>7, <3>4
    <2> QED BY <2>6, <2>7
  <1>7. \A q \in Entries(tab) : new[q] = tab[q] /\ q \in Entries(new)
    BY <1>4 DEF Entries
  <1>8. new[s] = e /\ s \in Entries(new)
    BY <1>4
  <1> QED BY <1>4, <1>5, <1>6, <1>7, <1>8 DEF Inserted, new

LEMMA InsertCounts ==
  ASSUME NEW tab, NEW pop, Counted(tab, pop), NEW e \in Real
  PROVE  /\ Counted(Place(Roomy(tab, pop), e), pop + 1)
         /\ Inserted(tab, e, Place(Roomy(tab, pop), e))
  <1> DEFINE mid == Roomy(tab, pop)
             new == Place(mid, e)
  <1>1. /\ IsTable(tab) /\ IsTable(mid) /\ SameEntries(tab, mid)
        /\ pop \in Nat /\ pop + 1 < Size(mid) /\ Counted(mid, pop)
    BY RoomyKeeps DEF Counted
  <1> HIDE DEF mid
  <1>2. Counted(new, pop + 1) /\ Inserted(mid, e, new)
    BY <1>1, PlaceCounts
  <1>3. /\ \A k : Cardinality(Handled(mid, k)) = Cardinality(Handled(tab, k))
        /\ \A s \in Entries(tab) : \E q \in Entries(mid) : mid[q] = tab[s]
        /\ \A q \in Entries(mid) : \E s \in Entries(tab) : mid[q] = tab[s]
    BY <1>1, SameCounts
  <1> HIDE DEF new
  <1>4. Inserted(tab, e, new)
    <2>1. \A s \in Entries(tab) : \E q \in Entries(new) : new[q] = tab[s]
      <3> SUFFICES ASSUME NEW s \in Entries(tab) PROVE \E q \in Entries(new) : new[q] = tab[s]
        OBVIOUS
      <3>1. PICK r \in Entries(mid) : mid[r] = tab[s]
        BY <1>3
      <3>2. PICK q \in Entries(new) : new[q] = mid[r]
        BY <1>2 DEF Inserted
      <3> QED BY <3>1, <3>2
    <2>2. \A q \in Entries(new) : new[q] = e \/ \E s \in Entries(tab) : new[q] = tab[s]
      <3> SUFFICES ASSUME NEW q \in Entries(new), new[q] # e
                   PROVE  \E s \in Entries(tab) : new[q] = tab[s]
        OBVIOUS
      <3>1. PICK r \in Entries(mid) : new[q] = mid[r]
        BY <1>2 DEF Inserted
      <3>2. PICK s \in Entries(tab) : mid[r] = tab[s]
        BY <1>3
      <3> QED BY <3>1, <3>2
    <2>3. \A k : Cardinality(Handled(new, k)) =
                   Cardinality(Handled(tab, k)) + (IF e.kernel = k /\ e.handle THEN 1 ELSE 0)
      BY <1>2, <1>3 DEF Inserted
    <2>4. \E q \in Entries(new) : new[q] = e
      BY <1>2 DEF Inserted
    <2> QED BY <2>1, <2>2, <2>3, <2>4 DEF Inserted
  <1> QED BY <1>2, <1>4 DEF mid, new

Put(tab, s, e) == [tab EXCEPT ![s] = e]

\* An entry is replaced by one of the same kernel, with or without a handle.
LEMMA ReplaceCounts ==
  ASSUME NEW tab, NEW pop, Counted(tab, pop), NEW s \in Entries(tab), NEW e \in Real,
         e.kernel = tab[s].kernel, e.handle = tab[s].handle
  PROVE  /\ Counted(Put(tab, s, e), pop) /\ Entries(Put(tab, s, e)) = Entries(tab)
         /\ \A k : Handled(Put(tab, s, e), k) = Handled(tab, k)
  <1> DEFINE new == Put(tab, s, e)
  <1>0. new = [tab EXCEPT ![s] = e]
    BY DEF Put
  <1> HIDE DEF new
  <1>1. /\ tab \in [0 .. Size(tab) - 1 -> EntrySet] /\ Size(tab) \in Nat /\ s \in DOMAIN tab
        /\ DOMAIN tab = 0 .. Size(tab) - 1
    BY TableShape DEF Counted
  <1>2. e \in EntrySet /\ e # NoEntry
    BY DEF Real
  <1>3. new \in [0 .. Size(tab) - 1 -> EntrySet] /\ DOMAIN new = DOMAIN tab
    BY <1>0, <1>1, <1>2
  <1>4. Entries(new) = Entries(tab)
    BY <1>0, <1>1, <1>2, <1>3 DEF Entries
  <1>5. \A k : Handled(new, k) = Handled(tab, k)
    BY <1>0, <1>1, <1>3 DEF Handled
  <1>6. tab # << >>
    BY NoTable
  <1> QED BY <1>1, <1>3, <1>4, <1>5, <1>6 DEF Counted, IsTable, Size, new

LEMMA FreeCounts ==
  ASSUME NEW tab, NEW pop, Counted(tab, pop), NEW s \in Entries(tab)
  PROVE  /\ Counted(Put(tab, s, NoEntry), pop - 1)
         /\ Entries(Put(tab, s, NoEntry)) = Entries(tab) \ {s}
         /\ \A k : Cardinality(Handled(Put(tab, s, NoEntry), k)) =
              Cardinality(Handled(tab, k)) -
              (IF tab[s].kernel = k /\ tab[s].handle THEN 1 ELSE 0)
  <1> DEFINE new == Put(tab, s, NoEntry)
  <1>0. new = [tab EXCEPT ![s] = NoEntry]
    BY DEF Put
  <1> HIDE DEF new
  <1>1. /\ tab \in [0 .. Size(tab) - 1 -> EntrySet] /\ Size(tab) \in Nat /\ s \in DOMAIN tab
        /\ DOMAIN tab = 0 .. Size(tab) - 1 /\ IsFiniteSet(Entries(tab)) /\ IsTable(tab)
        /\ pop = Cardinality(Entries(tab)) /\ pop \in Nat
    BY TableShape DEF Counted
  <1>2. new \in [0 .. Size(tab) - 1 -> EntrySet] /\ DOMAIN new = DOMAIN tab
    BY <1>0, <1>1, RealEntry
  <1>3. Entries(new) = Entries(tab) \ {s}
    BY <1>0, <1>1, <1>2 DEF Entries
  <1>4. Cardinality(Entries(new)) = pop - 1
    BY <1>1, <1>3, FS_RemoveElement
  <1>5. tab # << >>
    BY NoTable
  <1>6. pop < Size(tab) /\ Size(tab) >= 2
    BY <1>5 DEF Counted
  <1>7. IsTable(new) /\ Size(new) = Size(tab)
    BY <1>1, <1>2 DEF IsTable, Size
  <1>8. ASSUME NEW k
        PROVE  Cardinality(Handled(new, k)) = Cardinality(Handled(tab, k)) -
                 (IF tab[s].kernel = k /\ tab[s].handle THEN 1 ELSE 0)
    <2>1. Handled(new, k) = Handled(tab, k) \ {s}
      BY <1>0, <1>1, <1>2, KernelAssumption DEF Handled, NoEntry, Entry
    <2>2. IsFiniteSet(Handled(tab, k)) /\ Cardinality(Handled(tab, k)) \in Nat
      BY <1>1, HandledEntries
    <2>3. s \in Handled(tab, k) <=> tab[s].kernel = k /\ tab[s].handle
      BY <1>1 DEF Handled
    <2>4. CASE s \in Handled(tab, k)
      <3>1. Cardinality(Handled(new, k)) = Cardinality(Handled(tab, k)) - 1
        BY <2>1, <2>2, <2>4, FS_RemoveElement
      <3> QED BY <2>3, <2>4, <3>1
    <2>5. CASE s \notin Handled(tab, k)
      <3>1. Handled(new, k) = Handled(tab, k)
        BY <2>1, <2>5
      <3> QED BY <2>2, <2>3, <2>5, <3>1
    <2> QED BY <2>4, <2>5
  <1>9. pop - 1 < Size(new) /\ Size(new) >= 2
    BY <1>1, <1>6, <1>7
  <1>10. Counted(new, pop - 1)
    BY <1>4, <1>7, <1>9 DEF Counted
  <1> QED BY <1>3, <1>8, <1>10 DEF new

\* A search ends, at an entry of its kernel or at an empty slot.
LEMMA LookupEnds ==
  ASSUME NEW tab, NEW pop, Counted(tab, pop), tab # << >>, NEW k \in Kernels
  PROVE  /\ Lookup(tab, k) \in DOMAIN tab
         /\ Found(tab, k) => /\ Lookup(tab, k) \in Entries(tab)
                             /\ tab[Lookup(tab, k)].kernel = k
  <1>1. /\ Size(tab) \in Nat /\ DOMAIN tab = 0 .. Size(tab) - 1 /\ IsFiniteSet(DOMAIN tab)
        /\ pop < Size(tab) /\ pop = Cardinality(Entries(tab)) /\ Size(tab) >= 2
    BY TableShape DEF Counted
  <1>2. Stops(tab, k) \in SUBSET (DOMAIN tab)
    BY DEF Stops
  <1>3. Stops(tab, k) # {}
    <2>1. SUFFICES ASSUME Stops(tab, k) = {} PROVE FALSE
      OBVIOUS
    <2>2. Entries(tab) = DOMAIN tab
      BY <2>1 DEF Entries, Stops
    <2> QED BY <1>1, <2>2 DEF Size
  <1>4. Size(tab) \in Nat \ {0}
    BY <1>1
  <1>5. Lookup(tab, k) \in Stops(tab, k)
    BY <1>1, <1>2, <1>3, <1>4, FirstIsIn DEF Lookup
  <1> QED BY <1>5 DEF Stops, Found, Entries

-----------------------------------------------------------------------------
(* The tables at the start, and when the kernels are unloaded *)

\* The entries of kernel k that TableFree closes
Gone(tab, k) == {s \in Entries(tab) : tab[s].kernel = k /\ ~Kept(tab[s])}

LEMMA TableFreeCounts ==
  ASSUME Counted(table, populated), TableFree
  PROVE  /\ Counted(table', populated')
         /\ \A s \in Entries(table') :
              s \in Entries(table) /\ Kept(table[s]) /\ table'[s] = Remains(table[s])
         /\ \A k : Cardinality(Handled(table', k)) =
                     IF k \in UserOps THEN Cardinality(Handled(table, k)) ELSE 0
         /\ \A k : Cardinality(Gone(table, k)) =
                     IF k \in UserOps THEN 0 ELSE Cardinality(Handled(table, k))
         /\ lib' = [k \in Kernels |-> Closed(k, Cardinality(Gone(table, k)))]
  <1> DEFINE n == Size(table)
             G == {s \in Entries(table) : ~Kept(table[s])}
             left == [s \in DOMAIN table |-> Remains(table[s])]
  <1>1. /\ n \in Nat /\ table \in [0 .. n - 1 -> EntrySet] /\ DOMAIN table = 0 .. n - 1
        /\ IsFiniteSet(Entries(table)) /\ IsTable(table)
        /\ \A s \in Entries(table) : table[s] \in Real
        /\ populated = Cardinality(Entries(table)) /\ populated \in Nat
        /\ Entries(table) \subseteq DOMAIN table
    BY TableShape DEF Counted
  <1>2. \A s \in Entries(table) : table[s].kernel \in Kernels
    <2>1. \A e \in Real : e.kernel \in Kernels
      BY RealEntry
    <2> QED BY <1>1, <2>1
  <1>3. UNION {Gone(table, k) : k \in Kernels} = G
    BY <1>2 DEF Gone
  <1>4. /\ populated' = populated - Cardinality(G)
        /\ table' = IF populated' = 0 THEN << >> ELSE left
        /\ lib' = [k \in Kernels |-> Closed(k, Cardinality(Gone(table, k)))]
    BY <1>3 DEF TableFree, Gone
  <1>5. \A e \in Real : Kept(e) => Remains(e) \in Real /\ Remains(e).kernel = e.kernel
                                  /\ Remains(e).handle = e.handle
    <2> SUFFICES ASSUME NEW e \in Real, Kept(e)
                 PROVE  /\ Remains(e) \in Real /\ Remains(e).kernel = e.kernel
                        /\ Remains(e).handle = e.handle
      OBVIOUS
    <2>1. e \in [kernel : Kernels, code : Codes, handle : BOOLEAN, unchecked : BOOLEAN]
      BY RealEntry
    <2>2. Remains(e) = [e EXCEPT !.unchecked = ~e.handle]
      BY DEF Remains, Real
    <2> QED BY <2>1, <2>2, RealEntry
  <1>6. left \in [0 .. n - 1 -> EntrySet] /\ DOMAIN left = DOMAIN table
    <2> SUFFICES ASSUME NEW s \in 0 .. n - 1 PROVE Remains(table[s]) \in EntrySet
      BY <1>1
    <2>1. CASE table[s] = NoEntry \/ ~Kept(table[s])
      BY <2>1, RealEntry DEF Remains
    <2>2. CASE table[s] # NoEntry /\ Kept(table[s])
      BY <1>1, <1>5, <2>2 DEF Real
    <2> QED BY <2>1, <2>2
  <1>7. Entries(left) = Entries(table) \ G
    <2>1. \A s \in DOMAIN table : left[s] = Remains(table[s])
      OBVIOUS
    <2>2. \A s \in DOMAIN table : Remains(table[s]) # NoEntry <=> table[s] # NoEntry /\ Kept(table[s])
      <3> SUFFICES ASSUME NEW s \in DOMAIN table
                   PROVE  Remains(table[s]) # NoEntry <=> table[s] # NoEntry /\ Kept(table[s])
        OBVIOUS
      <3>1. CASE table[s] = NoEntry \/ ~Kept(table[s])
        BY <3>1 DEF Remains
      <3>2. CASE table[s] # NoEntry /\ Kept(table[s])
        <4>1. s \in Entries(table)
          BY <3>2 DEF Entries
        <4> QED BY <1>1, <1>5, <3>2, <4>1 DEF Real
      <3> QED BY <3>1, <3>2
    <2> HIDE DEF left
    <2> QED BY <1>6, <2>1, <2>2 DEF Entries
  <1>8. Cardinality(Entries(left)) = populated' /\ populated' \in Nat /\ populated' <= populated
    <2>1. IsFiniteSet(G) /\ G \in SUBSET Entries(table)
      BY <1>1, FS_Subset
    <2>2. Entries(table) \cap G = G
      OBVIOUS
    <2> HIDE DEF G
    <2>3. Cardinality(Entries(table) \ G) = Cardinality(Entries(table)) - Cardinality(G)
      BY <1>1, <2>2, FS_Difference
    <2>4. Cardinality(G) \in Nat /\ Cardinality(G) <= populated
      BY <1>1, <2>1, FS_Subset, FS_CardinalityType
    <2> HIDE DEF left
    <2> QED BY <1>1, <1>4, <1>7, <2>3, <2>4
  <1>9. Entries(table') = Entries(left) /\ Counted(table', populated')
    <2> HIDE DEF left
    <2>1. CASE populated' = 0
      <3>1. Entries(left) = {}
        <4>1. IsFiniteSet(Entries(left))
          BY <1>1, <1>7, FS_Difference
        <4> QED BY <4>1, <1>8, <2>1, FS_EmptySet
      <3> QED BY <1>4, <2>1, <3>1, NoTable, FS_EmptySet DEF Counted
    <2>2. CASE populated' # 0
      <3>1. table' = left
        BY <1>4, <2>2
      <3>2. IsTable(left) /\ Size(left) = n
        BY <1>1, <1>6 DEF IsTable, Size
      <3>3. table # << >>
        BY <1>1, <1>8, <2>2, NoTable, FS_EmptySet
      <3>4. populated < n /\ n >= 2
        BY <3>3 DEF Counted
      <3> HIDE DEF n
      <3>5. populated' < Size(left) /\ Size(left) >= 2
        BY <1>1, <1>8, <3>2, <3>4
      <3> QED BY <1>8, <3>1, <3>2, <3>5 DEF Counted
    <2> QED BY <2>1, <2>2
  <1>10. \A s \in Entries(table') :
           s \in Entries(table) /\ Kept(table[s]) /\ table'[s] = Remains(table[s])
    <2> SUFFICES ASSUME NEW s \in Entries(table')
                 PROVE s \in Entries(table) /\ Kept(table[s]) /\ table'[s] = Remains(table[s])
      OBVIOUS
    <2>1. s \in Entries(table) /\ Kept(table[s])
      BY <1>7, <1>9
    <2>2. populated' # 0
      BY <1>4, NoTable
    <2> QED BY <1>1, <1>4, <2>1, <2>2
  <1>11. ASSUME NEW k
         PROVE  Handled(table', k) = IF k \in UserOps THEN Handled(table, k) ELSE {}
    <2>1. Handled(table', k) = {s \in Entries(table') : table'[s].kernel = k /\ table'[s].handle}
      BY <1>9, HandledEntries DEF Counted
    <2>2. Handled(table, k) = {s \in Entries(table) : table[s].kernel = k /\ table[s].handle}
      BY <1>1, HandledEntries
    <2>3. \A s \in Entries(table') : /\ table'[s].kernel = table[s].kernel
                                     /\ table'[s].handle = table[s].handle
      BY <1>1, <1>5, <1>10
    <2>4. Entries(table') = {s \in Entries(table) : Kept(table[s])}
      BY <1>7, <1>9
    <2>5. Handled(table', k) = {s \in Entries(table) : Kept(table[s]) /\ table[s].kernel = k /\ table[s].handle}
      BY <2>1, <2>3, <2>4
    <2>6. CASE k \in UserOps
      BY <2>2, <2>5, <2>6 DEF Kept
    <2>7. CASE k \notin UserOps
      BY <2>5, <2>7 DEF Kept
    <2> QED BY <2>6, <2>7
  <1>12. ASSUME NEW k
         PROVE  Gone(table, k) = IF k \in UserOps THEN {} ELSE Handled(table, k)
    <2>1. Handled(table, k) = {s \in Entries(table) : table[s].kernel = k /\ table[s].handle}
      BY <1>1, HandledEntries
    <2> QED BY <2>1 DEF Gone, Kept
  <1>13. Cardinality({}) = 0
    BY FS_EmptySet
  <1> QED BY <1>4, <1>9, <1>10, <1>11, <1>12, <1>13

\* The PreJIT kernels are in the table, not yet checked and without a handle.
LEMMA InitTableCounts ==
  /\ Counted(InitTable[1], InitTable[2])
  /\ \A s \in Entries(InitTable[1]) :
       InitTable[1][s].unchecked /\ ~InitTable[1][s].handle
  <1> DEFINE N == Len(PreJIT)
             First(i) == \A j \in 1 .. i - 1 : PreJIT[j][1] # PreJIT[i][1]
             E(i) == Entry(PreJIT[i][1], PreJIT[i][2], FALSE, TRUE)
             Fill(f, i) == IF i = 0 THEN << << >>, 0 >>
                           ELSE IF First(i)
                           THEN << Place(Roomy(f[i - 1][1], f[i - 1][2]), E(i)),
                                   f[i - 1][2] + 1 >>
                           ELSE f[i - 1]
             Exists(m) == \E f : f = [i \in 0 .. m |-> Fill(f, i)]
             filled == CHOOSE f : f = [i \in 0 .. N |-> Fill(f, i)]
             Good(i) == /\ Counted(filled[i][1], filled[i][2])
                        /\ \A s \in Entries(filled[i][1]) :
                             filled[i][1][s].unchecked /\ ~filled[i][1][s].handle
  <1>1. /\ N \in Nat /\ InitTable = filled[N]
        /\ \A i \in 1 .. N : PreJIT[i] \in Kernels \X Codes
    BY PreJITAssumption DEF InitTable
  <1> HIDE DEF N
  <1>2. \A i \in 1 .. N : E(i) \in Real /\ E(i).unchecked /\ ~E(i).handle
    BY <1>1, RealEntry DEF Entry
  <1> HIDE DEF First, E
  <1>3. \A m \in Nat : Exists(m)
    <2> DEFINE Bad == {m \in Nat : ~Exists(m)}
    <2>1. Exists(0)
      <3> DEFINE f == [i \in 0 .. 0 |-> << << >>, 0 >>]
      <3>1. f = [i \in 0 .. 0 |-> Fill(f, i)]
        OBVIOUS
      <3> QED BY <3>1
    <2>2. ASSUME NEW m \in Nat \ {0}, Exists(m - 1)
          PROVE  Exists(m)
      <3>1. PICK f : f = [i \in 0 .. m - 1 |-> Fill(f, i)]
        BY <2>2
      <3> DEFINE g == [i \in 0 .. m |-> IF i = m THEN Fill(f, m) ELSE f[i]]
      <3>2. \A i \in 0 .. m : i # 0 => g[i - 1] = f[i - 1]
        OBVIOUS
      <3>3. \A i \in 0 .. m : Fill(g, i) = Fill(f, i)
        <4> SUFFICES ASSUME NEW i \in 0 .. m PROVE Fill(g, i) = Fill(f, i)
          OBVIOUS
        <4>1. CASE i = 0
          BY <4>1
        <4>2. CASE i # 0
          <5>1. g[i - 1] = f[i - 1]
            BY <3>2, <4>2
          <5> HIDE DEF g
          <5> QED BY <4>2, <5>1
        <4> QED BY <4>1, <4>2
      <3> HIDE DEF Fill
      <3>4. \A i \in 0 .. m - 1 : f[i] = Fill(f, i)
        BY <3>1
      <3>5. \A i \in 0 .. m : g[i] = Fill(f, i)
        BY <3>4
      <3>6. g = [i \in 0 .. m |-> Fill(g, i)]
        BY <3>3, <3>5
      <3> QED BY <3>6
    <2> HIDE DEF Exists
    <2>3. SUFFICES ASSUME Bad # {} PROVE FALSE
      OBVIOUS
    <2> DEFINE m == Min(Bad)
    <2>4. m \in Bad /\ \A i \in Bad : m <= i
      BY <2>3, LeastNat
    <2> HIDE DEF m
    <2>5. m \in Nat \ {0} /\ ~Exists(m)
      BY <2>1, <2>4
    <2>6. m - 1 \notin Bad /\ m - 1 \in Nat
      BY <2>4, <2>5
    <2> QED BY <2>2, <2>5, <2>6
  <1>4. filled = [i \in 0 .. N |-> Fill(filled, i)]
    <2>1. Exists(N)
      BY <1>1, <1>3
    <2> HIDE DEF Fill
    <2> QED BY <2>1
  <1> HIDE DEF filled
  <1>5. Good(0)
    <2>1. filled[0] = << << >>, 0 >>
      BY <1>1, <1>4
    <2>2. Counted(<< >>, 0) /\ Entries(<< >>) = {}
      BY NoTable, FS_EmptySet DEF Counted
    <2> QED BY <2>1, <2>2
  <1>6. ASSUME NEW i \in 1 .. N, Good(i - 1)
        PROVE  Good(i)
    <2>1. i \in 0 .. N /\ i # 0
      BY <1>1
    <2>2. filled[i] = Fill(filled, i)
      BY <1>4, <2>1
    <2>3. CASE First(i)
      <3> DEFINE tab == filled[i - 1][1]
                 pop == filled[i - 1][2]
                 new == Place(Roomy(tab, pop), E(i))
      <3>1. filled[i] = << new, pop + 1 >>
        BY <2>1, <2>2, <2>3
      <3>2. /\ Counted(tab, pop)
            /\ \A s \in Entries(tab) : tab[s].unchecked /\ ~tab[s].handle
        BY <1>6
      <3> HIDE DEF tab, pop
      <3>3. Counted(new, pop + 1) /\ Inserted(tab, E(i), new)
        BY <1>2, <3>2, InsertCounts
      <3> HIDE DEF new
      <3>4. \A s \in Entries(new) : new[s].unchecked /\ ~new[s].handle
        <4> SUFFICES ASSUME NEW s \in Entries(new) PROVE new[s].unchecked /\ ~new[s].handle
          OBVIOUS
        <4>1. CASE new[s] = E(i)
          BY <1>2, <4>1
        <4>2. CASE \E r \in Entries(tab) : new[s] = tab[r]
          BY <3>2, <4>2
        <4> QED BY <3>3, <4>1, <4>2 DEF Inserted
      <3> QED BY <3>1, <3>3, <3>4
    <2>4. CASE ~First(i)
      <3>1. filled[i] = filled[i - 1]
        BY <2>1, <2>2, <2>4
      <3> QED BY <1>6, <3>1
    <2> QED BY <2>3, <2>4
  <1>7. Good(N)
    <2> HIDE DEF Good
    <2> DEFINE Bad == {i \in 0 .. N : ~Good(i)}
    <2>1. SUFFICES ASSUME Bad # {} PROVE FALSE
      BY <1>1
    <2> DEFINE m == Min(Bad)
    <2>2. m \in Bad /\ \A i \in Bad : m <= i
      <3>1. Bad \in SUBSET Nat
        BY <1>1
      <3> HIDE DEF Bad
      <3> QED BY <2>1, <3>1, LeastNat
    <2> HIDE DEF m
    <2>3. m \in 1 .. N /\ ~Good(m)
      BY <1>1, <1>5, <2>2
    <2>4. m - 1 \in 0 .. N /\ m - 1 \notin Bad
      BY <1>1, <2>2, <2>3
    <2> QED BY <1>6, <2>3, <2>4
  <1> QED BY <1>1, <1>7

-----------------------------------------------------------------------------
(* The critical section *)

Kinds == {"compile", "dlsym", "memory"}

\* The calls are records, one for each thread
Shape ==
  call = [t \in Threads |-> [pc |-> call[t].pc, kernel |-> call[t].kernel,
                             want |-> call[t].want,
                             dl_function |-> call[t].dl_function]]

\* The control allows what a call is doing, and a failure has lowered it
Allowed ==
  \A t \in Threads :
    /\ At(t, "open") \/ At(t, "insert") => control >= LOAD
    /\ At(t, "compile") => control = ON
    /\ At(t, "probe") => control <= RUN
Lowered ==
  /\ errors \in [Kinds -> {0, 1}]
  /\ errors["compile"] = 1 => control <= LOAD
  /\ errors["dlsym"] = 1 => control <= RUN
  /\ errors["memory"] = 1 => control <= PAUSE

ControlInv ==
  /\ Shape
  /\ control \in OFF .. ON
  /\ lock \in Threads \cup {Nobody}
  /\ LockSound
  /\ Allowed
  /\ Lowered

-----------------------------------------------------------------------------
(* A step of a call changes this call alone *)

LEMMA GotoMoves ==
  ASSUME Shape, NEW t \in Threads, NEW label, Goto(t, label)
  PROVE  /\ Shape'
         /\ call'[t].pc = label /\ call'[t].kernel = call[t].kernel
         /\ \A u \in Threads \ {t} : call'[u] = call[u]
  BY DEF Shape, Goto

LEMMA RunsMoves ==
  ASSUME Shape, NEW t \in Threads, NEW e, Runs(t, e)
  PROVE  /\ Shape'
         /\ call'[t].pc = "run" /\ call'[t].kernel = call[t].kernel
         /\ \A u \in Threads \ {t} : call'[u] = call[u]
  BY DEF Shape, Runs, InCall, KernelOf

LEMMA LeavesMoves ==
  ASSUME Shape, NEW t \in Threads, Leaves(t)
  PROVE  /\ Shape'
         /\ call'[t].pc = "idle"
         /\ \A u \in Threads \ {t} : call'[u] = call[u]
  BY DEF Shape, Leaves, NoCall, InCall

LEMMA CallMoves ==
  ASSUME Shape, NEW t \in Threads, NEW k, Call(t, k)
  PROVE  /\ Shape'
         /\ call'[t].pc = "called"
         /\ \A u \in Threads \ {t} : call'[u] = call[u]
  BY DEF Shape, Call, InCall

-----------------------------------------------------------------------------
(* The steps of a call *)

USE DEF OFF, PAUSE, RUN, LOAD, ON

LEMMA CallInv ==
  ASSUME ControlInv, NEW t \in Threads, NEW k, Call(t, k)
  PROVE  ControlInv'
  <1>1. Shape' /\ call'[t].pc = "called" /\ \A u \in Threads \ {t} : call'[u] = call[u]
    BY CallMoves DEF ControlInv
  <1>2. UNCHANGED <<control, lock, errors>> /\ At(t, "idle")
    BY DEF Call
  <1> QED
    BY <1>1, <1>2 DEF ControlInv, LockSound, Allowed, Lowered, At

LEMMA ReadControlInv ==
  ASSUME ControlInv, NEW t \in Threads, ReadControl(t)
  PROVE  ControlInv'
  <1> DEFINE label == IF control = RUN /\ KernelOf(t) \notin UserOps
                      THEN "probe" ELSE "wait"
  <1>1. Shape' /\ call'[t].pc = label /\ \A u \in Threads \ {t} : call'[u] = call[u]
    BY GotoMoves DEF ControlInv, ReadControl
  <1>2. UNCHANGED <<control, lock, errors>> /\ At(t, "called")
    BY DEF ReadControl
  <1>3. label \in {"probe", "wait"} /\ (label = "probe" => control = RUN)
    OBVIOUS
  <1> HIDE DEF label
  <1> QED
    BY <1>1, <1>2, <1>3 DEF ControlInv, LockSound, Allowed, Lowered, At

LEMMA ProbeInv ==
  ASSUME ControlInv, NEW t \in Threads, Probe(t)
  PROVE  ControlInv'
  <1>1. /\ Shape' /\ call'[t].pc \in {"idle", "wait", "run"}
        /\ \A u \in Threads \ {t} : call'[u] = call[u]
    BY LeavesMoves, GotoMoves, RunsMoves DEF ControlInv, Probe
  <1>2. UNCHANGED <<control, lock, errors>> /\ At(t, "probe")
    BY DEF Probe
  <1> QED
    BY <1>1, <1>2 DEF ControlInv, LockSound, Allowed, Lowered, At

LEMMA ReturnInv ==
  ASSUME ControlInv, NEW t \in Threads, Return(t)
  PROVE  ControlInv'
  <1>1. Shape' /\ call'[t].pc = "idle" /\ \A u \in Threads \ {t} : call'[u] = call[u]
    BY LeavesMoves DEF ControlInv, Return
  <1>2. UNCHANGED <<control, lock, errors>> /\ At(t, "run")
    BY DEF Return
  <1> QED
    BY <1>1, <1>2 DEF ControlInv, LockSound, Allowed, Lowered, At

LEMMA SetLockInv ==
  ASSUME ControlInv, NEW t \in Threads, SetLock(t)
  PROVE  ControlInv'
  <1>1. Shape' /\ call'[t].pc = "find" /\ \A u \in Threads \ {t} : call'[u] = call[u]
    BY GotoMoves DEF ControlInv, SetLock
  <1>2. /\ UNCHANGED <<control, errors>> /\ At(t, "wait")
        /\ lock = Nobody /\ lock' = t
    BY DEF SetLock
  <1> QED
    BY <1>1, <1>2, KernelAssumption DEF ControlInv, LockSound, Allowed, Lowered, At

\* A step in the critical section that does not leave it ...
LEMMA WorkInv ==
  ASSUME ControlInv, NEW t \in Threads, NEW label, Goto(t, label),
         lock = t, UNCHANGED <<lock, control, errors>>,
         label \in {"open", "insert"} => control >= LOAD,
         label = "compile" => control = ON,
         label \in {"open", "compile", "insert"}
  PROVE  ControlInv'
  <1>1. Shape' /\ call'[t].pc = label /\ \A u \in Threads \ {t} : call'[u] = call[u]
    BY GotoMoves DEF ControlInv
  <1> QED
    BY <1>1 DEF ControlInv, LockSound, Allowed, Lowered, At

\* ... and one that does
LEMMA LeaveInv ==
  ASSUME ControlInv, NEW t \in Threads, Leaves(t) \/ \E e : Runs(t, e),
         lock = t, lock' = Nobody, UNCHANGED <<control, errors>>
  PROVE  ControlInv'
  <1>1. /\ Shape' /\ call'[t].pc \in {"idle", "run"}
        /\ \A u \in Threads \ {t} : call'[u] = call[u]
    BY LeavesMoves, RunsMoves DEF ControlInv
  <1> QED
    BY <1>1, KernelAssumption DEF ControlInv, LockSound, Allowed, Lowered, At

LEMMA HasLock ==
  ASSUME ControlInv, NEW t \in Threads,
         At(t, "find") \/ At(t, "open") \/ At(t, "compile") \/ At(t, "insert")
  PROVE  lock = t
  BY DEF ControlInv, LockSound, At

LEMMA FailInv ==
  ASSUME ControlInv, NEW t \in Threads, NEW kind \in Kinds, NEW level, Fail(t, kind, level),
         lock = t,
         \/ kind = "compile" /\ level = LOAD /\ control = ON
         \/ kind = "dlsym" /\ level = RUN /\ control >= LOAD
         \/ kind = "memory" /\ level = PAUSE /\ control >= LOAD
  PROVE  ControlInv'
  <1>1. Shape' /\ call'[t].pc = "idle" /\ \A u \in Threads \ {t} : call'[u] = call[u]
    BY LeavesMoves DEF ControlInv, Fail
  <1>2. lock' = Nobody /\ control' = level /\ errors' = [errors EXCEPT ![kind] = @ + 1]
    BY DEF Fail
  <1>3. \A u \in Threads \ {t} : call'[u].pc \notin {"find", "open", "compile", "insert"}
    BY <1>1 DEF ControlInv, LockSound
  <1>4. control' \in OFF .. ON /\ control' <= control
    BY <1>2 DEF ControlInv
  <1>5. LockSound'
    BY <1>1, <1>2, <1>3, KernelAssumption DEF ControlInv, LockSound
  <1>6. Allowed'
    BY <1>1, <1>3, <1>4 DEF ControlInv, Allowed, At
  <1>7. Lowered'
    BY <1>2, <1>4 DEF ControlInv, Lowered, Kinds
  <1> QED
    BY <1>1, <1>2, <1>4, <1>5, <1>6, <1>7 DEF ControlInv

LEMMA StepInv ==
  ASSUME ControlInv, NEW t \in Threads, Step(t)
  PROVE  ControlInv'
  <1>1. CASE ReadControl(t)
    BY <1>1, ReadControlInv
  <1>2. CASE Probe(t)
    BY <1>2, ProbeInv
  <1>3. CASE SetLock(t)
    BY <1>3, SetLockInv
  <1>4. CASE FindUsable(t)
    <2>1. lock = t /\ lock' = Nobody /\ UNCHANGED <<control, errors>> /\ \E e : Runs(t, e)
      BY <1>4, HasLock DEF FindUsable
    <2> QED
      BY <2>1, LeaveInv
  <1>5. CASE FindNone(t)
    <2>1. lock = t /\ UNCHANGED <<control, errors>>
      BY <1>5, HasLock DEF FindNone
    <2>2. CASE control <= RUN
      BY <1>5, <2>1, <2>2, LeaveInv DEF FindNone
    <2>3. CASE ~(control <= RUN)
      <3>1. Goto(t, "open") /\ UNCHANGED lock /\ control >= LOAD
        BY <1>5, <2>3 DEF FindNone, ControlInv
      <3> QED
        BY <2>1, <3>1, WorkInv
    <2> QED
      BY <2>2, <2>3
  <1>6. CASE OpenCurrent(t)
    <2>1. lock = t /\ UNCHANGED <<lock, control, errors>> /\ Goto(t, "insert") /\ control >= LOAD
      BY <1>6, HasLock DEF OpenCurrent, ControlInv, Allowed
    <2> QED
      BY <2>1, WorkInv
  <1>7. CASE OpenNone(t)
    <2>1. lock = t /\ UNCHANGED <<control, errors>>
      BY <1>7, HasLock DEF OpenNone
    <2>2. CASE control < ON
      BY <1>7, <2>1, <2>2, LeaveInv DEF OpenNone
    <2>3. CASE ~(control < ON)
      <3>1. Goto(t, "compile") /\ UNCHANGED lock /\ control = ON
        BY <1>7, <2>3 DEF OpenNone, ControlInv
      <3> QED
        BY <2>1, <3>1, WorkInv
    <2> QED
      BY <2>2, <2>3
  <1>8. CASE Compile(t)
    <2>1. lock = t /\ UNCHANGED <<lock, control, errors>> /\ Goto(t, "insert") /\ control = ON
      BY <1>8, HasLock DEF Compile, ControlInv, Allowed
    <2> QED
      BY <2>1, WorkInv
  <1>9. CASE CompileFails(t)
    <2>1. lock = t /\ control = ON /\ Fail(t, "compile", LOAD)
      BY <1>9, HasLock DEF CompileFails, ControlInv, Allowed
    <2> QED
      BY <2>1, FailInv DEF Kinds
  <1>10. CASE InsertKernel(t)
    <2>1. lock = t /\ lock' = Nobody /\ UNCHANGED <<control, errors>> /\ \E e : Runs(t, e)
      BY <1>10, HasLock DEF InsertKernel
    <2> QED
      BY <2>1, LeaveInv
  <1>11. CASE DlsymFails(t)
    <2>1. lock = t /\ control >= LOAD /\ Fail(t, "dlsym", RUN)
      BY <1>11, HasLock DEF DlsymFails, ControlInv, Allowed
    <2> QED
      BY <2>1, FailInv DEF Kinds
  <1>12. CASE OutOfMemory(t)
    <2>1. lock = t /\ control >= LOAD /\ Fail(t, "memory", PAUSE)
      BY <1>12, HasLock DEF OutOfMemory, ControlInv, Allowed
    <2> QED
      BY <2>1, FailInv DEF Kinds
  <1>13. CASE Return(t)
    BY <1>13, ReturnInv
  <1> QED
    BY <1>1, <1>2, <1>3, <1>4, <1>5, <1>6, <1>7, <1>8, <1>9, <1>10, <1>11,
       <1>12, <1>13 DEF Step

-----------------------------------------------------------------------------
(* The user and the process *)

LEMMA QuietInv ==
  ASSUME ControlInv, Quiet, UNCHANGED <<call, lock>>, control' \in OFF .. ON,
         UNCHANGED <<control, errors>> \/ errors' = NoErrors
  PROVE  ControlInv'
  BY DEF ControlInv, Quiet, Shape, LockSound, Allowed, Lowered, At, NoErrors, Kinds

LEMMA FreshInv ==
  ASSUME lock = Nobody, call = NoCalls, control \in OFF .. ON, errors = NoErrors
  PROVE  ControlInv
  <1>1. \A t \in Threads : call[t] = NoCall
    BY DEF NoCalls
  <1>2. Shape
    BY <1>1 DEF Shape, NoCalls, NoCall, InCall
  <1>3. \A t \in Threads : call[t].pc = "idle"
    BY <1>1 DEF NoCall, InCall
  <1> QED
    BY <1>2, <1>3, KernelAssumption
    DEF ControlInv, LockSound, Allowed, Lowered, At, NoErrors, Kinds

LEMMA InitInv ==
  ASSUME Init
  PROVE  ControlInv
  BY FreshInv DEF Init

LEMMA RestartInv ==
  ASSUME Restart
  PROVE  ControlInv'
  <1>1. /\ lock' = Nobody /\ call' = NoCalls /\ control' \in OFF .. ON
        /\ errors' = NoErrors
    BY DEF Restart
  <1>2. \A t \in Threads : call'[t] = NoCall
    BY <1>1 DEF NoCalls
  <1>3. Shape'
    BY <1>1, <1>2 DEF Shape, NoCalls, NoCall, InCall
  <1>4. \A t \in Threads : call'[t].pc = "idle"
    BY <1>2 DEF NoCall, InCall
  <1> QED
    BY <1>1, <1>3, <1>4, KernelAssumption
    DEF ControlInv, LockSound, Allowed, Lowered, At, NoErrors, Kinds

LEMMA NextInv ==
  ASSUME ControlInv, [Next]_vars
  PROVE  ControlInv'
  <1>1. CASE \E t \in Threads : Step(t) \/ \E k \in Kernels : Call(t, k)
    BY <1>1, StepInv, CallInv
  <1>2. CASE \E c \in OFF .. ON : SetControl(c)
    BY <1>2, QuietInv DEF SetControl
  <1>3. CASE \E d \in Definitions : Redefine(d)
    <2>1. Quiet /\ UNCHANGED <<call, lock, control, errors>>
      BY <1>3 DEF Redefine
    <2> QED
      BY <2>1, QuietInv DEF ControlInv
  <1>4. CASE Restart
    BY <1>4, RestartInv
  <1>5. CASE UNCHANGED vars
    BY <1>5 DEF vars, ControlInv, Shape, LockSound, Allowed, Lowered, At
  <1> QED
    BY <1>1, <1>2, <1>3, <1>4, <1>5 DEF Next

-----------------------------------------------------------------------------

\* Which steps are allowed at which control, and who holds the lock
\* (GB_jitifyer.c:1606-1670)
THEOREM ControlInvariant == Spec => []ControlInv
  <1>1. Init => ControlInv
    BY InitInv
  <1>2. ControlInv /\ [Next]_vars => ControlInv'
    BY NextInv
  <1> QED
    BY <1>1, <1>2, PTL DEF Spec

\* Every return leaves the critical section (GB_jitifyer.c:1665-1670)
THEOREM LockIsSound == Spec => []LockSound
  <1>1. ControlInv => LockSound
    BY DEF ControlInv
  <1> QED
    BY <1>1, ControlInvariant, PTL

\* Nothing fails twice before the user sets the control again
\* (GB_jitifyer.c:2058, 2089, 2104)
THEOREM ErrorsDoStop == Spec => []ErrorsStop
  <1>1. ControlInv => ErrorsStop
    BY DEF ControlInv, Lowered, ErrorsStop, Kinds
  <1> QED
    BY <1>1, ControlInvariant, PTL

-----------------------------------------------------------------------------
(* The search outside the critical section *)

\* The table has its size, and no entry that it did not have
Undisturbed ==
  DOMAIN table' = DOMAIN table /\ Entries(table') \subseteq Entries(table)

LEMMA ReplacedEntry ==
  ASSUME NEW s \in Entries(table), NEW e, table' = [table EXCEPT ![s] = e]
  PROVE  Undisturbed
  BY DEF Undisturbed, Entries

LEMMA StepUndisturbed ==
  ASSUME ControlInv, NEW t \in Threads, At(t, "probe"),
         NEW u \in Threads, Step(u)
  PROVE  Undisturbed
  <1>1. control <= RUN /\ control \in Int
    BY DEF ControlInv, Allowed
  <1>2. ~At(u, "insert")
    BY <1>1 DEF ControlInv, Allowed
  <1>3. table' = table => Undisturbed
    BY DEF Undisturbed
  <1>4. CASE FindUsable(u)
    <2>1. Lookup(table, KernelOf(u)) \in DOMAIN table => Lookup(table, KernelOf(u)) \in Entries(table)
      BY <1>4 DEF FindUsable, Found, Entries
    <2> QED
      BY <1>4, <2>1, ReplacedEntry, <1>3 DEF FindUsable, Undisturbed, Entries
  <1>5. CASE FindNone(u)
    <2>1. CASE Found(table, KernelOf(u))
      <3> DEFINE s == Lookup(table, KernelOf(u))
      <3>1. table' = [table EXCEPT ![s] = NoEntry]
        BY <1>5, <2>1 DEF FindNone, EntryFree
      <3> QED
        BY <3>1 DEF Undisturbed, Entries
    <2>2. CASE ~Found(table, KernelOf(u))
      BY <1>5, <2>2, <1>3 DEF FindNone, tableVars
    <2> QED
      BY <2>1, <2>2
  <1>6. CASE InsertKernel(u) \/ OutOfMemory(u) \/ DlsymFails(u)
    BY <1>2, <1>6 DEF InsertKernel, OutOfMemory, DlsymFails
  <1> QED
    BY <1>3, <1>4, <1>5, <1>6
    DEF Step, ReadControl, Probe, SetLock, OpenCurrent, OpenNone, Compile,
        CompileFails, Return, tableVars

\* The critical section is not required against insertions
\* (GB_jitifyer.c:1627): while a thread searches, the control is RUN or less
\* and so no other one is about to insert
THEOREM ReadersSeeNoInsertion == Spec => NoInsertWhileRead
  <1> DEFINE Reading(t) == At(t, "probe") /\ call'[t].pc = "probe"
  <1>1. ASSUME ControlInv, [Next]_vars, NEW t \in Threads, Reading(t)
        PROVE  Undisturbed
    <2>1. CASE \E u \in Threads : Step(u)
      BY <1>1, <2>1, StepUndisturbed
    <2>2. CASE \E u \in Threads, k \in Kernels : Call(u, k)
      BY <2>2 DEF Call, tableVars, Undisturbed
    <2>3. CASE \E c \in OFF .. ON : SetControl(c)
      BY <1>1, <2>3 DEF SetControl, Quiet, At
    <2>4. CASE \E d \in Definitions : Redefine(d)
      BY <2>4 DEF Redefine, tableVars, Undisturbed
    <2>5. CASE Restart
      BY <1>1, <2>5 DEF Restart, NoCalls, NoCall, InCall
    <2>6. CASE UNCHANGED vars
      BY <2>6 DEF vars, tableVars, Undisturbed
    <2> QED
      BY <1>1, <2>1, <2>2, <2>3, <2>4, <2>5, <2>6 DEF Next
  <1>2. ControlInv /\ [Next]_vars =>
          [\A t \in Threads : At(t, "probe") /\ call'[t].pc = "probe" =>
             /\ DOMAIN table' = DOMAIN table
             /\ Entries(table') \subseteq Entries(table)]_vars
    BY <1>1 DEF Undisturbed
  <1> QED
    BY <1>2, ControlInvariant, PTL DEF Spec, NoInsertWhileRead

-----------------------------------------------------------------------------
(* The counts: their types and their invariant *)

CallSet == [pc : Labels, kernel : Kernels \cup {Nobody},
            want : Codes \cup {NoCode}, dl_function : EntrySet]
LibSet == [code : Codes \cup {NoCode}, handles : Nat]

TypedLibs ==
  /\ lib \in [Kernels -> LibSet]
  /\ \A k \in Kernels : lib[k].code = NoCode <=> lib[k].handles = 0
TypedCalls ==
  /\ call \in [Threads -> CallSet]
  /\ \A t \in Threads : ~At(t, "idle") => KernelOf(t) \in Kernels /\ Want(t) \in Codes
TypedRest ==
  /\ disk \in [Kernels -> Codes \cup {NoCode}]
  /\ definition \in Definitions /\ stale \in BOOLEAN

\* 1 if the owner of the lock is about to insert kernel k
Working(c, owner, k) ==
  IF owner \in Threads /\ c[owner].pc = "insert" /\ c[owner].kernel = k THEN 1 ELSE 0
Balanced ==
  \A k \in Kernels :
    lib[k].handles = Cardinality(Handled(table, k)) + Working(call, lock, k)

TableInv ==
  /\ Counted(table, populated)
  /\ TypedLibs
  /\ TypedCalls
  /\ TypedRest
  /\ Balanced

-----------------------------------------------------------------------------
(* What a step of a call does to the calls and to the libraries *)

\* Only thread t moves; it goes on with its kernel or leaves
Continues(t) ==
  /\ call' \in [Threads -> CallSet]
  /\ \A u \in Threads \ {t} : call'[u] = call[u]
  /\ \/ call'[t].pc = "idle"
     \/ call'[t].kernel = call[t].kernel /\ call'[t].want = call[t].want

LEMMA GotoContinues ==
  ASSUME TypedCalls, NEW t \in Threads, NEW label \in Labels, Goto(t, label)
  PROVE  /\ Continues(t) /\ call'[t].pc = label
         /\ call'[t].kernel = call[t].kernel /\ call'[t].want = call[t].want
         /\ call'[t].dl_function = call[t].dl_function
  <1>1. call[t] \in CallSet /\ call \in [Threads -> CallSet]
    BY DEF TypedCalls
  <1>2. call'[t] = [call[t] EXCEPT !.pc = label]
    BY <1>1 DEF Goto
  <1>3. [call[t] EXCEPT !.pc = label] \in CallSet
    BY <1>1 DEF CallSet
  <1>4. call'[t].pc = label /\ call'[t].kernel = call[t].kernel
        /\ call'[t].want = call[t].want /\ call'[t].dl_function = call[t].dl_function
    BY <1>1, <1>2 DEF CallSet
  <1>5. call' \in [Threads -> CallSet] /\ \A u \in Threads \ {t} : call'[u] = call[u]
    BY <1>1, <1>2, <1>3 DEF Goto
  <1> QED BY <1>4, <1>5 DEF Continues

LEMMA RunsContinues ==
  ASSUME TypedCalls, NEW t \in Threads, NEW e \in EntrySet, Runs(t, e)
  PROVE  /\ Continues(t) /\ call'[t].pc = "run" /\ call'[t].dl_function = e
         /\ call'[t].kernel = call[t].kernel /\ call'[t].want = call[t].want
  <1>1. call[t] \in CallSet /\ call \in [Threads -> CallSet]
    BY DEF TypedCalls
  <1>2. call' = [call EXCEPT ![t] = [pc |-> "run", kernel |-> call[t].kernel,
                                     want |-> call[t].want, dl_function |-> e]]
    BY DEF Runs, InCall, KernelOf, Want
  <1>3. [pc |-> "run", kernel |-> call[t].kernel, want |-> call[t].want,
         dl_function |-> e] \in CallSet
    BY <1>1 DEF CallSet, Labels
  <1> QED BY <1>1, <1>2, <1>3 DEF Continues

LEMMA LeavesContinues ==
  ASSUME TypedCalls, NEW t \in Threads, Leaves(t)
  PROVE  Continues(t) /\ call'[t].pc = "idle"
  <1>1. call \in [Threads -> CallSet]
    BY DEF TypedCalls
  <1>2. NoCall \in CallSet /\ NoCall.pc = "idle"
    BY RealEntry DEF NoCall, InCall, CallSet, Labels
  <1> QED BY <1>1, <1>2 DEF Continues, Leaves

LEMMA ContinuesTyped ==
  ASSUME TypedCalls, NEW t \in Threads, ~At(t, "idle"), Continues(t)
  PROVE  TypedCalls'
  BY DEF TypedCalls, Continues, At, KernelOf, Want

\* Of the threads, only the one that owns the lock may be about to insert.
LEMMA InsertingCount ==
  ASSUME NEW c, NEW owner, NEW k, owner \in Threads \cup {Nobody},
         \A t \in Threads :
           owner = t <=> c[t].pc \in {"find", "open", "compile", "insert"}
  PROVE  Cardinality({t \in Threads : c[t].pc = "insert" /\ c[t].kernel = k})
           = Working(c, owner, k)
  <1> DEFINE S == {t \in Threads : c[t].pc = "insert" /\ c[t].kernel = k}
  <1>1. CASE owner \in Threads /\ c[owner].pc = "insert" /\ c[owner].kernel = k
    <2>1. S = {owner}
      BY <1>1
    <2> HIDE DEF S
    <2> QED BY <1>1, <2>1, FS_Singleton DEF Working, S
  <1>2. CASE ~(owner \in Threads /\ c[owner].pc = "insert" /\ c[owner].kernel = k)
    <2>1. S = {}
      BY <1>2
    <2> HIDE DEF S
    <2> QED BY <1>2, <2>1, FS_EmptySet DEF Working, S
  <1> QED BY <1>1, <1>2

LEMMA HeldNat ==
  ASSUME NEW tab, NEW pop, Counted(tab, pop), NEW k
  PROVE  Cardinality(Handled(tab, k)) \in Nat
  BY HandledEntries DEF Counted

LEMMA OpenedLib ==
  ASSUME TypedLibs, NEW k \in Kernels, NEW file \in Codes \cup {NoCode},
         lib' = [lib EXCEPT ![k] = Opened(k, file)],
         Opened(k, file).code \in Codes
  PROVE  /\ TypedLibs' /\ lib'[k].handles = lib[k].handles + 1
         /\ lib[k] # Unloaded => lib'[k].code = lib[k].code
         /\ lib[k] = Unloaded => lib'[k].code = file
         /\ \A j \in Kernels \ {k} : lib'[j] = lib[j]
  <1>1. /\ lib \in [Kernels -> LibSet] /\ lib[k] \in LibSet
        /\ \A j \in Kernels : lib[j].code = NoCode <=> lib[j].handles = 0
    BY DEF TypedLibs
  <1>2. NoCode \notin Codes
    BY KernelAssumption DEF Codes
  <1>3. CASE lib[k] = Unloaded
    <2>1. Opened(k, file) = [code |-> file, handles |-> 1] /\ lib[k].handles = 0
      BY <1>3 DEF Opened, Unloaded
    <2>2. Opened(k, file) \in LibSet /\ file # NoCode
      BY <1>2, <2>1 DEF LibSet
    <2> QED BY <1>1, <1>3, <2>1, <2>2 DEF TypedLibs
  <1>4. CASE lib[k] # Unloaded
    <2>1. Opened(k, file) = [lib[k] EXCEPT !.handles = @ + 1]
      BY <1>4 DEF Opened
    <2>2. /\ Opened(k, file) \in LibSet /\ Opened(k, file).code = lib[k].code
          /\ Opened(k, file).handles = lib[k].handles + 1
      BY <1>1, <2>1 DEF LibSet
    <2>3. lib'[k] = Opened(k, file)
      BY <1>1
    <2>4. lib' \in [Kernels -> LibSet]
      BY <1>1, <2>2
    <2>5. \A j \in Kernels : lib'[j].code = NoCode <=> lib'[j].handles = 0
      <3>1. lib'[k].code # NoCode /\ lib'[k].handles # 0
        BY <1>1, <1>2, <2>2, <2>3 DEF LibSet
      <3> QED BY <1>1, <3>1
    <2> QED BY <1>1, <1>4, <2>2, <2>3, <2>4, <2>5 DEF TypedLibs
  <1> QED BY <1>3, <1>4

LEMMA ClosedLib ==
  ASSUME TypedLibs, NEW k \in Kernels, NEW n \in Nat, n <= lib[k].handles
  PROVE  /\ Closed(k, n) \in LibSet /\ Closed(k, n).handles = lib[k].handles - n
         /\ Closed(k, n).code = NoCode <=> Closed(k, n).handles = 0
         /\ Closed(k, n) = Unloaded \/ Closed(k, n).code = lib[k].code
  <1>1. lib[k] \in LibSet /\ (lib[k].code = NoCode <=> lib[k].handles = 0)
    BY DEF TypedLibs
  <1>2. CASE lib[k].handles = n
    BY <1>1, <1>2 DEF Closed, Unloaded, LibSet
  <1>3. CASE lib[k].handles # n
    <2>1. Closed(k, n) = [lib[k] EXCEPT !.handles = @ - n]
      BY <1>3 DEF Closed
    <2>2. lib[k].handles \in Nat /\ lib[k].handles - n \in Nat \ {0}
      BY <1>1, <1>3 DEF LibSet
    <2>3. /\ Closed(k, n).handles = lib[k].handles - n
          /\ Closed(k, n).code = lib[k].code
          /\ Closed(k, n) \in LibSet
      BY <1>1, <2>1, <2>2 DEF LibSet
    <2> QED BY <1>1, <2>2, <2>3
  <1> QED BY <1>2, <1>3

\* After some handles of one library have been closed
LEMMA ClosedOne ==
  ASSUME TypedLibs, NEW k \in Kernels, NEW n \in Nat, n <= lib[k].handles,
         lib' = [lib EXCEPT ![k] = Closed(k, n)]
  PROVE  /\ TypedLibs' /\ lib'[k].handles = lib[k].handles - n
         /\ \A j \in Kernels \ {k} : lib'[j] = lib[j]
         /\ lib'[k] = Unloaded \/ lib'[k].code = lib[k].code
  BY ClosedLib DEF TypedLibs

-----------------------------------------------------------------------------
(* The counts stay right *)

\* A step outside the critical section
LEMMA OutsideTable ==
  ASSUME ControlInv, TableInv, NEW t \in Threads, ~At(t, "idle"), Continues(t),
         UNCHANGED <<table, populated, lib, disk, definition, stale>>,
         \/ lock # t /\ lock' = lock
         \/ lock = Nobody /\ lock' = t /\ call'[t].pc # "insert"
  PROVE  TableInv'
  <1>1. TypedCalls'
    BY ContinuesTyped DEF TableInv
  <1>2. \A k : Working(call', lock', k) = Working(call, lock, k)
    BY KernelAssumption DEF Working, Continues
  <1> QED BY <1>1, <1>2 DEF TableInv, TypedLibs, TypedRest, Balanced

\* A step in the critical section: what it does to the counts
LEMMA NotInserting ==
  ASSUME NEW c, NEW owner, owner \in Threads \cup {Nobody},
         owner = Nobody \/ c[owner].pc # "insert"
  PROVE  \A k : Working(c, owner, k) = 0
  BY KernelAssumption DEF Working

LEMMA InsideTable ==
  ASSUME ControlInv, TableInv, NEW t \in Threads, ~At(t, "idle"), Continues(t),
         lock = t, lock' = t \/ (lock' = Nobody /\ call'[t].pc # "insert"),
         Counted(table', populated'), TypedLibs', disk' \in [Kernels -> Codes \cup {NoCode}],
         UNCHANGED <<definition, stale>>,
         \A k \in Kernels :
           lib'[k].handles - Cardinality(Handled(table', k)) - Working(call', lock', k)
             = lib[k].handles - Cardinality(Handled(table, k)) - Working(call, lock, k)
  PROVE  TableInv'
  <1>1. TypedCalls' /\ TypedRest'
    BY ContinuesTyped DEF TableInv, TypedRest
  <1>4. ASSUME NEW k \in Kernels
        PROVE  lib'[k].handles = Cardinality(Handled(table', k)) + Working(call', lock', k)
    <2>1. /\ lib[k].handles \in Nat /\ lib'[k].handles \in Nat
          /\ Cardinality(Handled(table, k)) \in Nat
          /\ Cardinality(Handled(table', k)) \in Nat
      BY HeldNat DEF TableInv, TypedLibs, LibSet
    <2>2. lib[k].handles = Cardinality(Handled(table, k)) + Working(call, lock, k)
      BY DEF TableInv, Balanced
    <2>3. Working(call, lock, k) \in Nat /\ Working(call', lock', k) \in Nat
      BY DEF Working
    <2> QED BY <2>1, <2>2, <2>3
  <1>5. Balanced'
    BY <1>4 DEF Balanced
  <1> QED BY <1>1, <1>5 DEF TableInv

LEMMA FoundEntry ==
  ASSUME TableInv, NEW k \in Kernels, Found(table, k)
  PROVE  /\ Lookup(table, k) \in Entries(table)
         /\ table[Lookup(table, k)] \in Real
         /\ table[Lookup(table, k)].kernel = k
  <1>1. table # << >> /\ Counted(table, populated)
    BY DEF TableInv, Found
  <1> QED BY <1>1, LookupEnds, TableShape DEF Counted

LEMMA FindUsableTable ==
  ASSUME ControlInv, TableInv, NEW t \in Threads, FindUsable(t)
  PROVE  TableInv'
  <1> DEFINE k == KernelOf(t)
             s == Lookup(table, k)
             e == [table[s] EXCEPT !.unchecked = FALSE]
  <1>1. /\ At(t, "find") /\ Found(table, k) /\ table' = [table EXCEPT ![s] = e]
        /\ Runs(t, e) /\ lock' = Nobody
        /\ UNCHANGED <<populated, control, disk, lib, definition, stale>>
    BY DEF FindUsable, userVars
  <1>2. ~At(t, "idle") /\ k \in Kernels /\ lock = t /\ Counted(table, populated)
    BY <1>1, HasLock DEF At, TableInv, TypedCalls
  <1>3. s \in Entries(table) /\ table[s] \in Real
    BY <1>1, <1>2, FoundEntry
  <1>4. e \in Real /\ e.kernel = table[s].kernel /\ e.handle = table[s].handle
    BY <1>3, RealEntry
  <1> HIDE DEF e, s, k
  <1>5. Counted(table', populated') /\ \A j : Handled(table', j) = Handled(table, j)
    <2>1. table' = Put(table, s, e) /\ populated' = populated
      BY <1>1 DEF Put
    <2>2. /\ Counted(Put(table, s, e), populated)
          /\ \A j : Handled(Put(table, s, e), j) = Handled(table, j)
      BY <1>2, <1>3, <1>4, ReplaceCounts
    <2> QED BY <2>1, <2>2
  <1>6. Continues(t) /\ call'[t].pc = "run"
    <2>1. e \in EntrySet
      BY <1>4 DEF Real
    <2> QED BY <1>1, <2>1, RunsContinues DEF TableInv
  <1>7. TypedLibs' /\ disk' \in [Kernels -> Codes \cup {NoCode}]
    BY <1>1 DEF TableInv, TypedLibs, TypedRest
  <1>8. \A j : Working(call, lock, j) = 0 /\ Working(call', lock', j) = 0
    BY <1>1, <1>2, NotInserting DEF At
  <1>9. UNCHANGED <<lib, definition, stale>>
    BY <1>1
  <1> QED BY <1>1, <1>2, <1>5, <1>6, <1>7, <1>8, <1>9, InsideTable

\* EntryFree, of an entry that has been found
LEMMA EntryFreeTable ==
  ASSUME TableInv, NEW s \in Entries(table), EntryFree(s)
  PROVE  /\ Counted(table', populated') /\ TypedLibs'
         /\ Entries(table') = Entries(table) \ {s}
         /\ \A r \in Entries(table') : table'[r] = table[r]
         /\ \A k \in Kernels : lib'[k] = Unloaded \/ lib'[k].code = lib[k].code
         /\ \A k \in Kernels :
              lib'[k].handles - Cardinality(Handled(table', k))
                = lib[k].handles - Cardinality(Handled(table, k))
  <1> DEFINE j == table[s].kernel
  <1>1. Counted(table, populated) /\ TypedLibs /\ Balanced
    BY DEF TableInv
  <1>2. table[s] \in Real /\ j \in Kernels /\ table[s].handle \in BOOLEAN
    BY <1>1, TableShape, RealEntry DEF Counted
  <1>3. table' = [table EXCEPT ![s] = NoEntry] /\ populated' = populated - 1
    BY DEF EntryFree
  <1>4. /\ Counted(table', populated') /\ Entries(table') = Entries(table) \ {s}
        /\ \A k : Cardinality(Handled(table', k)) = Cardinality(Handled(table, k)) -
                    (IF j = k /\ table[s].handle THEN 1 ELSE 0)
    <2>1. table' = Put(table, s, NoEntry)
      BY <1>3 DEF Put
    <2>2. /\ Counted(Put(table, s, NoEntry), populated - 1)
          /\ Entries(Put(table, s, NoEntry)) = Entries(table) \ {s}
          /\ \A k : Cardinality(Handled(Put(table, s, NoEntry), k))
                      = Cardinality(Handled(table, k)) -
                          (IF table[s].kernel = k /\ table[s].handle THEN 1 ELSE 0)
      BY <1>1, FreeCounts
    <2> QED BY <1>3, <2>1, <2>2
  <1>5. \A r \in Entries(table') : table'[r] = table[r]
    BY <1>3, <1>4 DEF Entries
  <1>6. \A k \in Kernels : /\ Cardinality(Handled(table, k)) \in Nat
                           /\ Cardinality(Handled(table', k)) \in Nat
                           /\ lib[k].handles \in Nat
    BY <1>1, <1>4, HeldNat DEF TypedLibs, LibSet
  <1> HIDE DEF j
  <1>7. CASE table[s].handle
    <2>1. lib' = [lib EXCEPT ![j] = Closed(j, 1)]
      BY <1>7 DEF EntryFree, j
    <2>2. 1 <= lib[j].handles
      <3>1. Cardinality(Handled(table', j)) = Cardinality(Handled(table, j)) - 1
        BY <1>4, <1>7
      <3>2. lib[j].handles >= Cardinality(Handled(table, j))
        BY <1>1, <1>2, <1>6 DEF Balanced, Working
      <3> QED BY <1>2, <1>6, <3>1, <3>2
    <2>3. /\ TypedLibs' /\ lib'[j].handles = lib[j].handles - 1
          /\ \A k \in Kernels \ {j} : lib'[k] = lib[k]
          /\ lib'[j] = Unloaded \/ lib'[j].code = lib[j].code
      BY <1>1, <1>2, <2>1, <2>2, ClosedOne
    <2>4. \A k \in Kernels : lib'[k].handles - Cardinality(Handled(table', k))
                               = lib[k].handles - Cardinality(Handled(table, k))
      BY <1>4, <1>6, <1>7, <2>3
    <2>5. \A k \in Kernels : lib'[k] = Unloaded \/ lib'[k].code = lib[k].code
      BY <2>3
    <2> QED BY <1>4, <1>5, <2>3, <2>4, <2>5
  <1>8. CASE ~table[s].handle
    <2>1. lib' = lib
      BY <1>8 DEF EntryFree
    <2>2. TypedLibs'
      BY <1>1, <2>1 DEF TypedLibs
    <2>3. \A k \in Kernels : lib'[k].handles - Cardinality(Handled(table', k))
                               = lib[k].handles - Cardinality(Handled(table, k))
      BY <1>4, <1>6, <1>8, <2>1
    <2>4. \A k \in Kernels : lib'[k].code = lib[k].code
      BY <2>1
    <2> QED BY <1>4, <1>5, <2>2, <2>3, <2>4
  <1> QED BY <1>7, <1>8

LEMMA FindNoneTable ==
  ASSUME ControlInv, TableInv, NEW t \in Threads, FindNone(t)
  PROVE  TableInv'
  <1> DEFINE k == KernelOf(t)
  <1>1. At(t, "find") /\ UNCHANGED <<control, disk, definition, stale>>
    BY DEF FindNone, userVars
  <1>2. ~At(t, "idle") /\ ~At(t, "insert") /\ k \in Kernels /\ lock = t
    BY <1>1, HasLock DEF At, TableInv, TypedCalls
  <1>3. /\ Counted(table', populated') /\ TypedLibs'
        /\ \A j \in Kernels : lib'[j].handles - Cardinality(Handled(table', j))
                                = lib[j].handles - Cardinality(Handled(table, j))
    <2>1. CASE Found(table, k)
      <3>1. Lookup(table, k) \in Entries(table)
        BY <1>2, <2>1, FoundEntry
      <3>2. EntryFree(Lookup(table, k))
        BY <2>1 DEF FindNone
      <3> HIDE DEF k
      <3> QED BY <3>1, <3>2, EntryFreeTable
    <2>2. CASE ~Found(table, k)
      <3>1. UNCHANGED <<table, populated, lib>>
        BY <2>2 DEF FindNone, tableVars
      <3> QED BY <3>1 DEF TableInv, TypedLibs
    <2> QED BY <2>1, <2>2
  <1>4. Continues(t) /\ (lock' = t \/ lock' = Nobody) /\ call'[t].pc # "insert"
    <2>1. CASE control <= RUN
      <3>1. Leaves(t) /\ lock' = Nobody
        BY <2>1 DEF FindNone
      <3> QED BY <3>1, LeavesContinues DEF TableInv
    <2>2. CASE ~(control <= RUN)
      <3>1. Goto(t, "open") /\ lock' = lock
        BY <2>2 DEF FindNone
      <3> QED BY <1>2, <3>1, GotoContinues DEF TableInv, Labels
    <2> QED BY <2>1, <2>2
  <1>5. disk' \in [Kernels -> Codes \cup {NoCode}] /\ UNCHANGED <<definition, stale>>
    BY <1>1 DEF TableInv, TypedRest
  <1>6. \A j : Working(call, lock, j) = 0 /\ Working(call', lock', j) = 0
    BY <1>2, <1>4, NotInserting DEF At
  <1>7. \A j \in Kernels :
           lib'[j].handles - Cardinality(Handled(table', j)) - Working(call', lock', j)
             = lib[j].handles - Cardinality(Handled(table, j)) - Working(call, lock, j)
    BY <1>3, <1>6
  <1> QED BY <1>2, <1>3, <1>4, <1>5, <1>7, InsideTable

LEMMA OpenTable ==
  ASSUME ControlInv, TableInv, NEW t \in Threads,
         OpenCurrent(t) \/ Compile(t)
  PROVE  TableInv'
  <1> DEFINE k == KernelOf(t)
  <1>1. /\ At(t, "open") \/ At(t, "compile")
        /\ UNCHANGED <<table, populated, control, lock, definition, stale>>
        /\ Goto(t, "insert")
    BY DEF OpenCurrent, Compile, userVars, tableVars
  <1>2. /\ ~At(t, "idle") /\ ~At(t, "insert") /\ k \in Kernels /\ lock = t /\ lock' = t
        /\ Want(t) \in Codes
    BY <1>1, HasLock DEF At, TableInv, TypedCalls
  <1>3. \E file \in Codes \cup {NoCode} :
          lib' = [lib EXCEPT ![k] = Opened(k, file)] /\ Opened(k, file).code \in Codes
    <2>1. CASE OpenCurrent(t)
      <3>1. disk[k] \in Codes \cup {NoCode}
        BY <1>2 DEF TableInv, TypedRest
      <3>2. Opened(k, disk[k]).code = Want(t) /\ lib' = [lib EXCEPT ![k] = Opened(k, disk[k])]
        BY <2>1 DEF OpenCurrent
      <3> QED BY <1>2, <3>1, <3>2
    <2>2. CASE Compile(t)
      <3>1. lib' = [lib EXCEPT ![k] = Opened(k, Want(t))]
        BY <2>2 DEF Compile
      <3>2. Opened(k, Want(t)).code \in Codes
        <4>1. /\ lib[k] \in LibSet /\ (lib[k].code = NoCode <=> lib[k].handles = 0)
          BY <1>2 DEF TableInv, TypedLibs
        <4>2. lib[k].code = NoCode => lib[k] = Unloaded
          BY <4>1 DEF Unloaded, LibSet
        <4>3. lib[k] # Unloaded => Opened(k, Want(t)).code = lib[k].code /\ lib[k].code \in Codes
          BY <4>1, <4>2 DEF Opened, LibSet
        <4> QED BY <1>2, <4>3 DEF Opened
      <3> QED BY <1>2, <3>1, <3>2
    <2> QED BY <2>1, <2>2
  <1>4. /\ TypedLibs' /\ lib'[k].handles = lib[k].handles + 1
        /\ \A j \in Kernels \ {k} : lib'[j] = lib[j]
    BY <1>2, <1>3, OpenedLib DEF TableInv
  <1>5. Continues(t) /\ call'[t].pc = "insert"
    BY <1>1, GotoContinues DEF TableInv, Labels
  <1>6. disk' \in [Kernels -> Codes \cup {NoCode}]
    BY <1>2 DEF OpenCurrent, Compile, TableInv, TypedRest
  <1>7. Counted(table', populated')
    BY <1>1 DEF TableInv
  <1>10. call'[t].kernel = k
    BY <1>1, GotoContinues DEF TableInv, Labels, KernelOf
  <1> HIDE DEF k
  <1>8. \A j \in Kernels :
           lib'[j].handles - Cardinality(Handled(table', j)) - Working(call', lock', j)
             = lib[j].handles - Cardinality(Handled(table, j)) - Working(call, lock, j)
    <2> SUFFICES ASSUME NEW j \in Kernels
                 PROVE  lib'[j].handles - Cardinality(Handled(table', j)) - Working(call', lock', j)
                        = lib[j].handles - Cardinality(Handled(table, j)) - Working(call, lock, j)
      OBVIOUS
    <2>1. lib[j].handles \in Nat /\ Cardinality(Handled(table, j)) \in Nat
      BY HeldNat DEF TableInv, TypedLibs, LibSet
    <2>2. Handled(table', j) = Handled(table, j)
      BY <1>1 DEF Handled
    <2>3. Working(call, lock, j) = 0
      BY <1>2, NotInserting DEF At
    <2>4. Working(call', lock', j) = IF j = k THEN 1 ELSE 0
      BY <1>2, <1>5, <1>10 DEF Working
    <2> QED BY <1>4, <2>1, <2>2, <2>3, <2>4
  <1>9. UNCHANGED <<definition, stale>> /\ ~At(t, "idle") /\ lock = t /\ lock' = t /\ TypedLibs'
    BY <1>1, <1>2, <1>4
  <1> QED BY <1>5, <1>6, <1>7, <1>8, <1>9, InsideTable

LEMMA OpenNoneTable ==
  ASSUME ControlInv, TableInv, NEW t \in Threads, OpenNone(t)
  PROVE  TableInv'
  <1>1. At(t, "open") /\ UNCHANGED <<table, populated, control, lib, definition, stale>>
    BY DEF OpenNone, userVars, tableVars
  <1>2. ~At(t, "idle") /\ ~At(t, "insert") /\ lock = t
    BY <1>1, HasLock DEF At
  <1>3. Continues(t) /\ (lock' = t \/ lock' = Nobody) /\ call'[t].pc # "insert"
    <2>1. CASE control < ON
      <3>1. Leaves(t) /\ lock' = Nobody
        BY <2>1 DEF OpenNone
      <3> QED BY <3>1, LeavesContinues DEF TableInv
    <2>2. CASE ~(control < ON)
      <3>1. Goto(t, "compile") /\ lock' = lock
        BY <2>2 DEF OpenNone
      <3> QED BY <1>2, <3>1, GotoContinues DEF TableInv, Labels
    <2> QED BY <2>1, <2>2
  <1>4. disk' \in [Kernels -> Codes \cup {NoCode}]
    BY DEF OpenNone, TableInv, TypedRest
  <1>5. Counted(table', populated') /\ TypedLibs'
    BY <1>1 DEF TableInv, TypedLibs
  <1>6. \A j : Working(call, lock, j) = 0 /\ Working(call', lock', j) = 0
    BY <1>2, <1>3, NotInserting DEF At
  <1>7. \A j \in Kernels :
           lib'[j].handles - Cardinality(Handled(table', j)) - Working(call', lock', j)
             = lib[j].handles - Cardinality(Handled(table, j)) - Working(call, lock, j)
    BY <1>1, <1>6 DEF Handled
  <1> QED BY <1>1, <1>2, <1>3, <1>4, <1>5, <1>7, InsideTable

LEMMA InsertKernelTable ==
  ASSUME ControlInv, TableInv, NEW t \in Threads, InsertKernel(t)
  PROVE  TableInv'
  <1> DEFINE k == KernelOf(t)
             e == Entry(k, lib[k].code, TRUE, FALSE)
  <1>1. /\ At(t, "insert") /\ Insert(e) /\ Runs(t, e) /\ lock' = Nobody
        /\ UNCHANGED <<disk, lib, definition, stale>>
    BY DEF InsertKernel, userVars
  <1>2. ~At(t, "idle") /\ k \in Kernels /\ lock = t
    BY <1>1, HasLock DEF At, TableInv, TypedCalls
  <1>3. lib[k] \in LibSet /\ lib[k].handles >= 1 /\ lib[k].code \in Codes
    <2>1. Working(call, lock, k) = 1
      BY <1>1, <1>2 DEF Working, At, KernelOf
    <2>2. lib[k] \in LibSet /\ (lib[k].code = NoCode <=> lib[k].handles = 0)
      BY <1>2 DEF TableInv, TypedLibs
    <2>3. lib[k].handles = Cardinality(Handled(table, k)) + 1
      BY <1>2, <2>1 DEF TableInv, Balanced
    <2>4. Cardinality(Handled(table, k)) \in Nat
      BY HeldNat DEF TableInv
    <2> QED BY <2>2, <2>3, <2>4 DEF LibSet
  <1>4. e \in Real /\ e \in EntrySet /\ e.kernel = k /\ e.handle
    <2>1. e \in Real
      BY <1>2, <1>3, RealEntry DEF Entry
    <2> QED BY <2>1 DEF Entry, Real
  <1> HIDE DEF e, k
  <1>5. Counted(table', populated') /\ Inserted(table, e, table')
    BY <1>1, <1>4, InsertCounts DEF Insert, TableInv
  <1>6. Continues(t) /\ call'[t].pc = "run"
    BY <1>1, <1>4, RunsContinues DEF TableInv
  <1>7. \A j : Working(call', lock', j) = 0
    BY <1>1, NotInserting
  <1>8. ASSUME NEW j \in Kernels
        PROVE  lib'[j].handles - Cardinality(Handled(table', j)) - Working(call', lock', j)
                 = lib[j].handles - Cardinality(Handled(table, j)) - Working(call, lock, j)
    <2>1. lib[j].handles \in Nat /\ Cardinality(Handled(table, j)) \in Nat
      BY HeldNat DEF TableInv, TypedLibs, LibSet
    <2>2. Working(call, lock, j) = IF k = j THEN 1 ELSE 0
      BY <1>1, <1>2 DEF Working, At, KernelOf, k
    <2>3. Cardinality(Handled(table', j)) =
            Cardinality(Handled(table, j)) + (IF k = j THEN 1 ELSE 0)
      BY <1>4, <1>5 DEF Inserted
    <2> QED BY <1>1, <1>7, <2>1, <2>2, <2>3
  <1>9. TypedLibs' /\ disk' \in [Kernels -> Codes \cup {NoCode}]
    BY <1>1 DEF TableInv, TypedLibs, TypedRest
  <1>10. UNCHANGED <<definition, stale>>
    BY <1>1
  <1> QED BY <1>1, <1>2, <1>5, <1>6, <1>8, <1>9, <1>10, InsideTable

\* The library of a call about to insert is closed, and the call fails
LEMMA CloseTable ==
  ASSUME ControlInv, TableInv, NEW t \in Threads, At(t, "insert"),
         CloseLibrary(t), NEW kind, NEW level, Fail(t, kind, level),
         UNCHANGED <<definition, stale>>, Counted(table', populated'),
         \A k : Cardinality(Handled(table', k)) = Cardinality(Handled(table, k))
  PROVE  TableInv'
  <1> DEFINE k == KernelOf(t)
  <1>1. lock' = Nobody /\ Leaves(t) /\ disk' = [disk EXCEPT ![k] = NoCode]
    BY DEF Fail
  <1>2. ~At(t, "idle") /\ k \in Kernels /\ lock = t
    BY HasLock DEF At, TableInv, TypedCalls
  <1> HIDE DEF k
  <1>3. \A j : Working(call, lock, j) = IF k = j THEN 1 ELSE 0
    BY <1>2 DEF Working, At, KernelOf, k
  <1>4. \A j : Working(call', lock', j) = 0
    BY <1>1, NotInserting
  <1>5. \A j \in Kernels : /\ Cardinality(Handled(table, j)) \in Nat
                           /\ lib[j] \in LibSet /\ lib[j].handles \in Nat
    BY HeldNat DEF TableInv, TypedLibs, LibSet
  <1>6. 1 <= lib[k].handles
    BY <1>2, <1>3, <1>5 DEF TableInv, Balanced
  <1>7. /\ TypedLibs' /\ lib'[k].handles = lib[k].handles - 1
        /\ \A j \in Kernels \ {k} : lib'[j] = lib[j]
    <2>1. lib' = [lib EXCEPT ![k] = Closed(k, 1)]
      BY DEF CloseLibrary, k
    <2> QED BY <1>2, <1>6, <2>1, ClosedOne DEF TableInv
  <1>8. Continues(t)
    BY <1>1, LeavesContinues DEF TableInv
  <1>9. disk' \in [Kernels -> Codes \cup {NoCode}]
    BY <1>1 DEF TableInv, TypedRest
  <1>10. \A j \in Kernels :
           lib'[j].handles - Cardinality(Handled(table', j)) - Working(call', lock', j)
             = lib[j].handles - Cardinality(Handled(table, j)) - Working(call, lock, j)
    BY <1>3, <1>4, <1>5, <1>7
  <1>11. call'[t].pc # "insert"
    BY <1>1, LeavesContinues DEF TableInv
  <1> QED BY <1>1, <1>2, <1>7, <1>8, <1>9, <1>10, <1>11, InsideTable

LEMMA OutOfMemoryMoves ==
  ASSUME TableInv, NEW k, InsertFails(k)
  PROVE  /\ Counted(table', populated')
         /\ \A j : Cardinality(Handled(table', j)) = Cardinality(Handled(table, j))
         /\ \A s \in Entries(table) : \E q \in Entries(table') : table'[q] = table[s]
         /\ \A q \in Entries(table') : \E s \in Entries(table) : table'[q] = table[s]
  <1>1. CASE UNCHANGED <<table, populated>>
    BY <1>1 DEF TableInv, Entries, Handled
  <1>2. CASE table' = Roomy(table, populated) /\ UNCHANGED populated
    <2>1. /\ IsTable(Roomy(table, populated)) /\ SameEntries(table, Roomy(table, populated))
          /\ Counted(Roomy(table, populated), populated) /\ IsTable(table)
      BY RoomyKeeps DEF TableInv, Counted
    <2> QED BY <1>2, <2>1, SameCounts
  <1> QED BY <1>1, <1>2 DEF InsertFails, tableVars

LEMMA CompileFailsTable ==
  ASSUME ControlInv, TableInv, NEW t \in Threads, CompileFails(t)
  PROVE  TableInv'
  <1>1. /\ At(t, "compile") /\ Fail(t, "compile", LOAD)
        /\ UNCHANGED <<table, populated, lib, definition, stale>>
    BY DEF CompileFails, tableVars, userVars
  <1>2. ~At(t, "idle") /\ lock = t
    BY <1>1, HasLock DEF At
  <1>3. lock' = Nobody /\ Leaves(t) /\ disk' = [disk EXCEPT ![KernelOf(t)] = NoCode]
    BY <1>1 DEF Fail
  <1>4. Continues(t) /\ call'[t].pc = "idle"
    BY <1>3, LeavesContinues DEF TableInv
  <1>5. disk' \in [Kernels -> Codes \cup {NoCode}]
    BY <1>3 DEF TableInv, TypedRest
  <1>6. \A j : Working(call, lock, j) = 0 /\ Working(call', lock', j) = 0
    BY <1>1, <1>2, <1>3, NotInserting DEF At
  <1>7. Counted(table', populated') /\ TypedLibs'
    BY <1>1 DEF TableInv, TypedLibs
  <1>8. \A j \in Kernels :
           lib'[j].handles - Cardinality(Handled(table', j)) - Working(call', lock', j)
             = lib[j].handles - Cardinality(Handled(table, j)) - Working(call, lock, j)
    BY <1>1, <1>6
  <1>9. UNCHANGED <<definition, stale>>
    BY <1>1
  <1> QED BY <1>2, <1>3, <1>4, <1>5, <1>7, <1>8, <1>9, InsideTable

LEMMA StepTable ==
  ASSUME ControlInv, TableInv, NEW t \in Threads, Step(t)
  PROVE  TableInv'
  <1>1. CASE ReadControl(t)
    <2> DEFINE label == IF control = RUN /\ KernelOf(t) \notin UserOps
                        THEN "probe" ELSE "wait"
    <2>1. /\ At(t, "called") /\ Goto(t, label)
          /\ UNCHANGED <<table, populated, lock, disk, lib, definition, stale>>
      BY <1>1 DEF ReadControl, tableVars, userVars
    <2>2. label \in Labels
      BY DEF Labels
    <2> HIDE DEF label
    <2>3. Continues(t)
      BY <2>1, <2>2, GotoContinues DEF TableInv
    <2>4. ~At(t, "idle") /\ lock # t
      BY <2>1 DEF At, ControlInv, LockSound
    <2> QED BY <2>1, <2>3, <2>4, OutsideTable
  <1>2. CASE Probe(t)
    <2>1. At(t, "probe") /\ UNCHANGED <<table, populated, lock, disk, lib, definition, stale>>
      BY <1>2 DEF Probe, tableVars, userVars
    <2>2. ~At(t, "idle") /\ lock # t /\ KernelOf(t) \in Kernels
      BY <2>1 DEF At, ControlInv, LockSound, TableInv, TypedCalls
    <2>3. Continues(t)
      <3>1. CASE ~Found(table, KernelOf(t))
        BY <1>2, <3>1, LeavesContinues DEF Probe, TableInv
      <3>2. CASE Found(table, KernelOf(t))
        <4> DEFINE e == table[Lookup(table, KernelOf(t))]
        <4>1. e \in EntrySet
          BY <2>2, <3>2, FoundEntry DEF Real
        <4>2. CASE e.unchecked
          BY <1>2, <3>2, <4>2, GotoContinues DEF Probe, TableInv, Labels
        <4>3. CASE ~e.unchecked
          <5>1. Runs(t, e)
            BY <1>2, <3>2, <4>3 DEF Probe
          <5> HIDE DEF e
          <5> QED BY <4>1, <5>1, RunsContinues DEF TableInv
        <4> QED BY <4>2, <4>3
      <3> QED BY <3>1, <3>2
    <2> QED BY <2>1, <2>2, <2>3, OutsideTable
  <1>3. CASE SetLock(t)
    <2>1. /\ At(t, "wait") /\ Goto(t, "find") /\ lock = Nobody /\ lock' = t
          /\ UNCHANGED <<table, populated, disk, lib, definition, stale>>
      BY <1>3 DEF SetLock, tableVars, userVars
    <2>2. Continues(t) /\ call'[t].pc # "insert" /\ ~At(t, "idle")
      BY <2>1, GotoContinues DEF TableInv, Labels, At
    <2> QED BY <2>1, <2>2, OutsideTable
  <1>4. CASE InsertKernel(t)
    BY <1>4, InsertKernelTable
  <1>5. CASE DlsymFails(t)
    <2>1. /\ At(t, "insert") /\ CloseLibrary(t) /\ Fail(t, "dlsym", RUN)
          /\ UNCHANGED <<table, populated, definition, stale>>
      BY <1>5 DEF DlsymFails, tableVars, userVars
    <2>2. /\ Counted(table', populated')
          /\ \A k : Cardinality(Handled(table', k)) = Cardinality(Handled(table, k))
      BY <2>1 DEF TableInv, Handled
    <2> QED BY <2>1, <2>2, CloseTable
  <1>6. CASE OutOfMemory(t)
    <2>1. /\ At(t, "insert") /\ CloseLibrary(t) /\ Fail(t, "memory", PAUSE)
          /\ InsertFails(KernelOf(t)) /\ UNCHANGED <<definition, stale>>
      BY <1>6 DEF OutOfMemory, userVars
    <2>2. /\ Counted(table', populated')
          /\ \A k : Cardinality(Handled(table', k)) = Cardinality(Handled(table, k))
      BY <2>1, OutOfMemoryMoves
    <2> QED BY <2>1, <2>2, CloseTable
  <1>7. CASE Return(t)
    <2>1. At(t, "run") /\ Leaves(t) /\ UNCHANGED <<table, populated, lock, disk, lib, definition, stale>>
      BY <1>7 DEF Return, tableVars, userVars
    <2>2. ~At(t, "idle") /\ lock # t /\ Continues(t)
      BY <2>1, LeavesContinues DEF At, ControlInv, LockSound, TableInv
    <2> QED BY <2>1, <2>2, OutsideTable
  <1> QED
    BY <1>1, <1>2, <1>3, <1>4, <1>5, <1>6, <1>7, FindUsableTable, FindNoneTable,
       OpenTable, OpenNoneTable, CompileFailsTable DEF Step

LEMMA CallTable ==
  ASSUME ControlInv, TableInv, NEW t \in Threads, NEW k \in Kernels, Call(t, k)
  PROVE  TableInv'
  <1>1. /\ At(t, "idle")
        /\ call' = [call EXCEPT ![t] = InCall("called", k, CodeOf(k), NoEntry)]
        /\ UNCHANGED <<table, populated, lock, disk, lib, definition, stale>>
    BY DEF Call, tableVars, userVars
  <1>2. call \in [Threads -> CallSet] /\ CodeOf(k) \in Codes
    BY DEF TableInv, TypedCalls, TypedRest, CodeOf, Codes
  <1>3. InCall("called", k, CodeOf(k), NoEntry) \in CallSet
    BY <1>2, RealEntry DEF InCall, CallSet, Labels
  <1>4. call'[t].pc = "called" /\ call'[t].kernel = k /\ call'[t].want = CodeOf(k)
    BY <1>1, <1>2 DEF InCall
  <1>5. call' \in [Threads -> CallSet] /\ \A u \in Threads \ {t} : call'[u] = call[u]
    BY <1>1, <1>2, <1>3
  <1>6. TypedCalls'
    BY <1>2, <1>4, <1>5 DEF TableInv, TypedCalls, At, KernelOf, Want
  <1>7. lock # t
    BY <1>1 DEF ControlInv, LockSound, At
  <1>8. \A j : Working(call', lock', j) = Working(call, lock, j)
    BY <1>1, <1>5, <1>7 DEF Working
  <1> QED BY <1>1, <1>6, <1>8 DEF TableInv, TypedLibs, TypedRest, Balanced

LEMMA SetControlTable ==
  ASSUME ControlInv, TableInv, NEW c \in OFF .. ON, SetControl(c)
  PROVE  TableInv'
  <1>1. Quiet /\ UNCHANGED <<lock, disk, call, definition>>
    BY DEF SetControl
  <1>2. TypedCalls'
    BY <1>1 DEF TableInv, TypedCalls, At, KernelOf, Want
  <1>3. \A k : Working(call', lock', k) = 0 /\ Working(call, lock, k) = 0
    BY <1>1 DEF Quiet, At, Working
  <1>4. CASE c = OFF
    <2>1. TableFree /\ stale' = FALSE
      BY <1>4 DEF SetControl
    <2>2. /\ Counted(table', populated')
          /\ \A k : Cardinality(Handled(table', k)) =
                      IF k \in UserOps THEN Cardinality(Handled(table, k)) ELSE 0
          /\ \A k : Cardinality(Gone(table, k)) =
                      IF k \in UserOps THEN 0 ELSE Cardinality(Handled(table, k))
          /\ lib' = [k \in Kernels |-> Closed(k, Cardinality(Gone(table, k)))]
      BY <2>1, TableFreeCounts DEF TableInv
    <2>3. \A k \in Kernels : /\ Cardinality(Handled(table, k)) \in Nat
                             /\ lib[k].handles = Cardinality(Handled(table, k))
      BY <1>3, HeldNat DEF TableInv, Balanced
    <2>4. \A k \in Kernels : /\ Cardinality(Gone(table, k)) \in Nat
                             /\ Cardinality(Gone(table, k)) <= lib[k].handles
      BY <2>2, <2>3
    <2>5. \A k \in Kernels :
            LET n == Cardinality(Gone(table, k))
            IN  /\ Closed(k, n) \in LibSet /\ Closed(k, n).handles = lib[k].handles - n
                /\ Closed(k, n).code = NoCode <=> Closed(k, n).handles = 0
      BY <2>4, ClosedLib DEF TableInv
    <2>6. TypedLibs'
      BY <2>2, <2>5 DEF TypedLibs
    <2>7. Balanced'
      <3> SUFFICES ASSUME NEW k \in Kernels
                   PROVE  lib'[k].handles = Cardinality(Handled(table', k)) + 0
        BY <1>3 DEF Balanced
      <3>1. lib'[k].handles = lib[k].handles - Cardinality(Gone(table, k))
        BY <2>2, <2>5
      <3> QED BY <2>2, <2>3, <3>1
    <2> QED BY <1>1, <1>2, <2>1, <2>2, <2>6, <2>7 DEF TableInv, TypedRest
  <1>5. CASE c # OFF
    <2>1. UNCHANGED <<table, populated, lib, stale>>
      BY <1>5 DEF SetControl, tableVars
    <2> QED BY <1>1, <1>2, <2>1 DEF TableInv, TypedLibs, TypedRest, Balanced, Working
  <1> QED BY <1>4, <1>5

LEMMA RedefineTable ==
  ASSUME TableInv, NEW d \in Definitions, Redefine(d)
  PROVE  TableInv'
  BY DEF Redefine, TableInv, TypedCalls, TypedLibs, TypedRest, Balanced, Working,
         tableVars, At, KernelOf, Want

\* The state at a start of the process
LEMMA FreshTable ==
  ASSUME NEW tab, tab = InitTable[1]
  PROVE  /\ NoLibraries \in [Kernels -> LibSet] /\ Unloaded.code = NoCode /\ Unloaded.handles = 0
         /\ NoCalls \in [Threads -> CallSet] /\ \A t \in Threads : NoCalls[t].pc = "idle"
         /\ \A k : Cardinality(Handled(tab, k)) = 0
         /\ \A k : Working(NoCalls, Nobody, k) = 0
  <1>1. NoCall \in CallSet /\ NoCall.pc = "idle"
    BY RealEntry DEF NoCall, InCall, CallSet, Labels
  <1>2. Unloaded \in LibSet /\ Unloaded.code = NoCode /\ Unloaded.handles = 0
    BY DEF Unloaded, LibSet
  <1>3. ASSUME NEW k
        PROVE  Cardinality(Handled(tab, k)) = 0
    <2>1. Handled(tab, k) = {s \in Entries(tab) : tab[s].kernel = k /\ tab[s].handle}
      BY InitTableCounts, HandledEntries DEF Counted
    <2>2. Handled(tab, k) = {}
      BY <2>1, InitTableCounts
    <2> QED BY <2>2, FS_EmptySet
  <1> QED BY <1>1, <1>2, <1>3, NotInserting DEF NoLibraries, NoCalls

LEMMA InitInTable ==
  ASSUME Init
  PROVE  TableInv
  <1>1. /\ table = InitTable[1] /\ populated = InitTable[2] /\ lock = Nobody
        /\ lib = NoLibraries /\ call = NoCalls /\ definition \in Definitions
        /\ stale = FALSE /\ disk = [k \in Kernels |-> NoCode]
    BY DEF Init
  <1>2. /\ NoLibraries \in [Kernels -> LibSet] /\ Unloaded.code = NoCode /\ Unloaded.handles = 0
        /\ NoCalls \in [Threads -> CallSet] /\ \A t \in Threads : NoCalls[t].pc = "idle"
        /\ \A k : Cardinality(Handled(table, k)) = 0
        /\ \A k : Working(NoCalls, Nobody, k) = 0
    BY <1>1, FreshTable
  <1>3. \A k \in Kernels : lib[k] = Unloaded
    BY <1>1 DEF NoLibraries
  <1>4. Counted(table, populated)
    BY <1>1, InitTableCounts
  <1>5. TypedLibs /\ TypedCalls /\ TypedRest
    BY <1>1, <1>2, <1>3 DEF TypedLibs, TypedCalls, TypedRest, At
  <1>6. Balanced
    BY <1>1, <1>2, <1>3 DEF Balanced
  <1> QED BY <1>4, <1>5, <1>6 DEF TableInv

LEMMA RestartTable ==
  ASSUME TableInv, Restart
  PROVE  TableInv'
  <1>1. /\ table' = InitTable[1] /\ populated' = InitTable[2] /\ lock' = Nobody
        /\ lib' = NoLibraries /\ call' = NoCalls /\ definition' \in Definitions
        /\ stale' = FALSE /\ disk' = disk
    BY DEF Restart
  <1>2. /\ NoLibraries \in [Kernels -> LibSet] /\ Unloaded.code = NoCode /\ Unloaded.handles = 0
        /\ NoCalls \in [Threads -> CallSet] /\ \A t \in Threads : NoCalls[t].pc = "idle"
        /\ \A k : Cardinality(Handled(table', k)) = 0
        /\ \A k : Working(NoCalls, Nobody, k) = 0
    BY <1>1, FreshTable
  <1>3. \A k \in Kernels : lib'[k] = Unloaded
    BY <1>1 DEF NoLibraries
  <1>4. Counted(table', populated')
    BY <1>1, InitTableCounts
  <1>5. TypedLibs' /\ TypedCalls' /\ TypedRest'
    BY <1>1, <1>2, <1>3 DEF TypedLibs, TypedCalls, TypedRest, At, TableInv
  <1>6. Balanced'
    BY <1>1, <1>2, <1>3 DEF Balanced
  <1> QED BY <1>4, <1>5, <1>6 DEF TableInv

LEMMA NextTable ==
  ASSUME ControlInv, TableInv, [Next]_vars
  PROVE  TableInv'
  <1>1. CASE \E t \in Threads : Step(t)
    BY <1>1, StepTable
  <1>2. CASE \E t \in Threads, k \in Kernels : Call(t, k)
    BY <1>2, CallTable
  <1>3. CASE \E c \in OFF .. ON : SetControl(c)
    BY <1>3, SetControlTable
  <1>4. CASE \E d \in Definitions : Redefine(d)
    BY <1>4, RedefineTable
  <1>5. CASE Restart
    BY <1>5, RestartTable
  <1>6. CASE UNCHANGED vars
    BY <1>6 DEF vars, tableVars, userVars, TableInv, TypedCalls, TypedLibs, TypedRest,
       Balanced, Working, At, KernelOf, Want
  <1> QED BY <1>1, <1>2, <1>3, <1>4, <1>5, <1>6 DEF Next

-----------------------------------------------------------------------------

\* The counts of the table and of the libraries, of which the next three
\* theorems are parts (GB_jitifyer.c:1961-2322)
THEOREM TableInvariant == Spec => []TableInv
  <1>1. Init => TableInv
    BY InitInTable
  <1>2. ControlInv /\ TableInv /\ [Next]_vars => TableInv'
    BY NextTable
  <1> QED BY <1>1, <1>2, ControlInvariant, PTL DEF Spec

\* The variables have their types (GB_jitifyer.c:36-103)
THEOREM TypeCorrect == Spec => []TypeOK
  <1>1. ControlInv /\ TableInv => TypeOK
    <2> SUFFICES ASSUME ControlInv, TableInv PROVE TypeOK
      OBVIOUS
    <2>1. /\ DOMAIN table = 0 .. Size(table) - 1 /\ populated \in Nat
          /\ \A s \in DOMAIN table : table[s] \in EntrySet
      BY TableShape DEF TableInv, Counted
    <2>2. \A k \in Kernels : lib[k].code \in Codes \cup {NoCode} /\ lib[k].handles \in Nat
      BY DEF TableInv, TypedLibs, LibSet
    <2> QED BY <2>1, <2>2 DEF TypeOK, ControlInv, TableInv, TypedCalls, TypedRest, CallSet
  <1> QED BY <1>1, ControlInvariant, TableInvariant, PTL

\* The counter is right and the table is never full (GB_jitifyer.c:120,
\* 2146-2170): every search ends
THEOREM TableIsSound == Spec => []TableSound
  <1>1. TableInv => TableSound
    BY DEF TableInv, Counted, TableSound
  <1> QED BY <1>1, TableInvariant, PTL

\* Each open library is closed once (GB_jitifyer.c:1961, 2088, 2102, 2322)
THEOREM HandlesAreBalanced == Spec => []HandlesBalanced
  <1>1. ControlInv /\ TableInv => HandlesBalanced
    <2> SUFFICES ASSUME ControlInv, TableInv, NEW k \in Kernels
                 PROVE  lib[k].handles =
                          Cardinality({s \in DOMAIN table : table[s].kernel = k /\ table[s].handle})
                          + Cardinality({t \in Threads : call[t].pc = "insert" /\ call[t].kernel = k})
      BY DEF HandlesBalanced, At, KernelOf
    <2>1. Cardinality({t \in Threads : call[t].pc = "insert" /\ call[t].kernel = k})
            = Working(call, lock, k)
      BY InsertingCount DEF ControlInv, LockSound
    <2> QED BY <2>1 DEF TableInv, Balanced, Handled
  <1> QED BY <1>1, ControlInvariant, TableInvariant, PTL

-----------------------------------------------------------------------------
(* The code of the kernels *)

\* The user has not redefined the operator that kernel k uses
Fresh(k) == k \in UserDefined => ~stale

\* Table tab has kernel k, loaded, with code c
Serves(tab, k, c) ==
  \E s \in Entries(tab) : tab[s].kernel = k /\ tab[s].handle /\ tab[s].code = c

\* An entry with a handle has the code of its library, and has been checked
EntriesLoaded ==
  \A s \in Entries(table) :
    table[s].handle => /\ ~table[s].unchecked
                       /\ table[s].code = lib[table[s].kernel].code

\* An entry that will not be checked again has the current code
EntriesCurrent ==
  \A s \in Entries(table) :
    table[s].kernel \notin UserOps /\ ~table[s].unchecked /\ Fresh(table[s].kernel)
      => table[s].code = CodeOf(table[s].kernel)

\* So does a library that is loaded
LibsCurrent ==
  \A k \in Kernels \ UserOps :
    lib[k] # Unloaded /\ Fresh(k) => lib[k].code = CodeOf(k)

\* Nothing is left to become stale while the control is OFF
OffClean ==
  control = OFF =>
    /\ Quiet
    /\ \A s \in Entries(table) : table[s].kernel \notin UserOps => table[s].unchecked
    /\ \A k \in Kernels \ UserOps : lib[k] = Unloaded

\* A call wants what is defined now
CallsCurrent ==
  \A t \in Threads : ~At(t, "idle") =>
    /\ Want(t) = CodeOf(KernelOf(t))
    /\ KernelOf(t) \notin UserOps => Fresh(KernelOf(t))
    /\ At(t, "probe") => KernelOf(t) \notin UserOps

\* A kernel that runs is right, and is in the table
RunsCurrent ==
  \A t \in Threads : At(t, "run") =>
    /\ call[t].dl_function.kernel = KernelOf(t)
    /\ KernelOf(t) \notin UserOps => call[t].dl_function.code = Want(t)
    /\ call[t].dl_function.handle /\ call[t].dl_function.code = Want(t)
         => Serves(table, KernelOf(t), Want(t))

CodeInv ==
  /\ EntriesLoaded
  /\ EntriesCurrent
  /\ LibsCurrent
  /\ OffClean
  /\ CallsCurrent
  /\ RunsCurrent

\* The library of an entry with a handle is loaded
LEMMA HeldLoaded ==
  ASSUME NEW tab, NEW pop, Counted(tab, pop), NEW s \in Entries(tab), tab[s].handle
  PROVE  Cardinality(Handled(tab, tab[s].kernel)) >= 1
  <1> DEFINE H == Handled(tab, tab[s].kernel)
  <1>1. IsFiniteSet(H) /\ Cardinality(H) \in Nat
    BY HandledEntries DEF Counted
  <1>3. s \in H
    BY DEF Handled, Entries
  <1> HIDE DEF H
  <1>2. Cardinality(H) # 0
    BY <1>1, <1>3, FS_EmptySet
  <1> QED BY <1>1, <1>2 DEF H

LEMMA EntryLoaded ==
  ASSUME TableInv, NEW s \in Entries(table), table[s].handle
  PROVE  /\ table[s].kernel \in Kernels /\ table[s].code \in Codes
         /\ lib[table[s].kernel].handles >= 1
         /\ lib[table[s].kernel] # Unloaded
  <1>1. table[s] \in Real /\ table[s].kernel \in Kernels /\ table[s].code \in Codes
    BY TableShape, RealEntry DEF TableInv, Counted
  <1>2. Cardinality(Handled(table, table[s].kernel)) >= 1
    BY HeldLoaded DEF TableInv
  <1>3. Cardinality(Handled(table, table[s].kernel)) \in Nat
    BY HeldNat DEF TableInv
  <1>4. lib[table[s].kernel].handles >= 1
    BY <1>1, <1>2, <1>3 DEF TableInv, Balanced, Working
  <1> QED BY <1>1, <1>4 DEF Unloaded

LEMMA ServesLoaded ==
  ASSUME TableInv, NEW k, NEW c, Serves(table, k, c)
  PROVE  lib[k] # Unloaded
  BY EntryLoaded DEF Serves

\* What a step of a call may do to the entries, the libraries and its kernel
NewEntry(e, library) ==
  /\ e.handle => ~e.unchecked /\ e.code = library[e.kernel].code
  /\ e.kernel \notin UserOps /\ ~e.unchecked => e.code = CodeOf(e.kernel)
EntriesStep ==
  \A q \in Entries(table') :
    (\E s \in Entries(table) : table'[q] = table[s]) \/ NewEntry(table'[q], lib')
LibsStep ==
  \A k \in Kernels :
    \/ lib'[k] = Unloaded
    \/ lib[k] # Unloaded /\ lib'[k].code = lib[k].code
    \/ lib[k] = Unloaded /\ (k \in UserOps \/ lib'[k].code = CodeOf(k))
ServesStep == \A k : Serves(table, k, CodeOf(k)) => Serves(table', k, CodeOf(k))
RunsStep(t) ==
  call'[t].pc = "run" =>
    /\ call'[t].dl_function.kernel = KernelOf(t)
    /\ KernelOf(t) \notin UserOps => call'[t].dl_function.code = Want(t)
    /\ call'[t].dl_function.handle /\ call'[t].dl_function.code = Want(t)
         => Serves(table', KernelOf(t), Want(t))

LEMMA StepCodes ==
  ASSUME TableInv, TableInv', CodeInv, NEW t \in Threads, ~At(t, "idle"), Continues(t),
         UNCHANGED <<definition, stale>>, control' = control \/ control' # OFF,
         call'[t].pc = "probe" => KernelOf(t) \notin UserOps,
         EntriesStep, LibsStep, ServesStep, RunsStep(t)
  PROVE  CodeInv'
  <1>1. /\ \A k : Fresh(k)' <=> Fresh(k)
        /\ \A k : CodeOf(k)' = CodeOf(k)
    BY DEF Fresh, CodeOf
  <1>2. EntriesLoaded'
    <2> SUFFICES ASSUME NEW q \in Entries(table'), table'[q].handle
                 PROVE  /\ ~table'[q].unchecked
                        /\ table'[q].code = lib'[table'[q].kernel].code
      BY DEF EntriesLoaded
    <2>1. CASE NewEntry(table'[q], lib')
      BY <2>1 DEF NewEntry
    <2>2. CASE \E s \in Entries(table) : table'[q] = table[s]
      <3>1. PICK s \in Entries(table) : table'[q] = table[s]
        BY <2>2
      <3> DEFINE k == table[s].kernel
      <3>2. /\ k \in Kernels /\ lib[k] # Unloaded /\ ~table[s].unchecked
            /\ table[s].code = lib[k].code
        BY <3>1, EntryLoaded DEF CodeInv, EntriesLoaded
      <3>3. lib'[k] # Unloaded
        <4>1. Cardinality(Handled(table', k)) >= 1
          BY <3>1, HeldLoaded DEF TableInv
        <4>2. lib'[k].handles = Cardinality(Handled(table', k)) + Working(call', lock', k)
          BY <3>2 DEF TableInv, Balanced
        <4>3. Cardinality(Handled(table', k)) \in Nat
          BY HeldNat DEF TableInv
        <4>4. Working(call', lock', k) \in Nat
          BY DEF Working
        <4> HIDE DEF k
        <4>5. lib'[k].handles >= 1
          BY <4>1, <4>2, <4>3, <4>4
        <4> QED BY <4>5 DEF Unloaded
      <3>4. lib'[k].code = lib[k].code
        BY <3>2, <3>3 DEF LibsStep
      <3> QED BY <3>1, <3>2, <3>4
    <2> QED BY <2>1, <2>2 DEF EntriesStep
  <1>3. EntriesCurrent'
    <2> SUFFICES ASSUME NEW q \in Entries(table'), table'[q].kernel \notin UserOps,
                        ~table'[q].unchecked, Fresh(table'[q].kernel)
                 PROVE  table'[q].code = CodeOf(table'[q].kernel)
      BY DEF EntriesCurrent, Fresh, CodeOf
    <2>2. CASE NewEntry(table'[q], lib')
      BY <2>2 DEF NewEntry
    <2>3. CASE \E s \in Entries(table) : table'[q] = table[s]
      BY <2>3 DEF CodeInv, EntriesCurrent
    <2> QED BY <2>2, <2>3 DEF EntriesStep
  <1>4. LibsCurrent'
    <2> SUFFICES ASSUME NEW k \in Kernels \ UserOps, lib'[k] # Unloaded, Fresh(k)
                 PROVE  lib'[k].code = CodeOf(k)
      BY <1>1 DEF LibsCurrent, Unloaded
    <2> QED BY DEF LibsStep, CodeInv, LibsCurrent
  <1>5. OffClean'
    <2>1. control # OFF
      BY DEF CodeInv, OffClean, Quiet
    <2> QED BY <2>1 DEF OffClean
  <1>6. CallsCurrent'
    <2> SUFFICES ASSUME NEW u \in Threads, call'[u].pc # "idle"
                 PROVE  /\ call'[u].want = CodeOf(call'[u].kernel)
                        /\ call'[u].kernel \notin UserOps => Fresh(call'[u].kernel)
                        /\ call'[u].pc = "probe" => call'[u].kernel \notin UserOps
      BY <1>1 DEF CallsCurrent, At, KernelOf, Want, CodeOf, Fresh
    <2>1. CASE u = t
      BY <2>1 DEF Continues, CodeInv, CallsCurrent, At, KernelOf, Want
    <2>2. CASE u # t
      BY <2>2 DEF Continues, CodeInv, CallsCurrent, At, KernelOf, Want
    <2> QED BY <2>1, <2>2
  <1>7. RunsCurrent'
    <2> SUFFICES ASSUME NEW u \in Threads, call'[u].pc = "run"
                 PROVE  /\ call'[u].dl_function.kernel = call'[u].kernel
                        /\ call'[u].kernel \notin UserOps
                             => call'[u].dl_function.code = call'[u].want
                        /\ call'[u].dl_function.handle /\ call'[u].dl_function.code = call'[u].want
                             => Serves(table', call'[u].kernel, call'[u].want)
      BY DEF RunsCurrent, At, KernelOf, Want
    <2>1. CASE u = t
      BY <2>1 DEF Continues, RunsStep, KernelOf, Want
    <2>2. CASE u # t
      <3>1. call'[u] = call[u]
        BY <2>2 DEF Continues
      <3>2. /\ call[u].dl_function.kernel = call[u].kernel
            /\ call[u].kernel \notin UserOps => call[u].dl_function.code = call[u].want
            /\ call[u].dl_function.handle /\ call[u].dl_function.code = call[u].want
                 => Serves(table, call[u].kernel, call[u].want)
            /\ call[u].want = CodeOf(call[u].kernel)
        BY <3>1 DEF CodeInv, RunsCurrent, CallsCurrent, At, KernelOf, Want
      <3> QED BY <3>1, <3>2 DEF ServesStep
    <2> QED BY <2>1, <2>2
  <1> QED BY <1>2, <1>3, <1>4, <1>5, <1>6, <1>7 DEF CodeInv

-----------------------------------------------------------------------------
(* The steps of a call keep the codes right *)

LEMMA SameLibs ==
  ASSUME TableInv, TableInv',
         \A k \in Kernels : lib'[k] = Unloaded \/ lib'[k].code = lib[k].code
  PROVE  LibsStep
  <1> SUFFICES ASSUME NEW k \in Kernels, lib'[k] # Unloaded, lib[k] = Unloaded
               PROVE  FALSE
    BY DEF LibsStep
  <1>1. lib'[k] \in LibSet /\ (lib'[k].code = NoCode <=> lib'[k].handles = 0)
    BY DEF TableInv, TypedLibs
  <1>2. lib'[k].code = NoCode
    BY DEF Unloaded
  <1> QED BY <1>1, <1>2 DEF LibSet, Unloaded

LEMMA SameSteps ==
  ASSUME TableInv, TableInv', UNCHANGED <<table, lib>>
  PROVE  EntriesStep /\ LibsStep /\ ServesStep
  BY SameLibs DEF EntriesStep, ServesStep, Serves

\* What a call knows of its kernel
LEMMA CallKnows ==
  ASSUME TableInv, CodeInv, NEW t \in Threads, ~At(t, "idle")
  PROVE  /\ KernelOf(t) \in Kernels /\ Want(t) \in Codes
         /\ Want(t) = CodeOf(KernelOf(t))
         /\ KernelOf(t) \notin UserOps => Fresh(KernelOf(t))
  BY DEF TableInv, TypedCalls, CodeInv, CallsCurrent

LEMMA ReadControlCode ==
  ASSUME TableInv, TableInv', CodeInv, NEW t \in Threads, ReadControl(t)
  PROVE  CodeInv'
  <1> DEFINE label == IF control = RUN /\ KernelOf(t) \notin UserOps
                      THEN "probe" ELSE "wait"
  <1>1. At(t, "called") /\ Goto(t, label) /\ UNCHANGED <<table, lib, control, definition, stale>>
    BY DEF ReadControl, tableVars, userVars
  <1>2. label \in {"probe", "wait"} /\ (label = "probe" => KernelOf(t) \notin UserOps)
    OBVIOUS
  <1> HIDE DEF label
  <1>3. Continues(t) /\ call'[t].pc = label /\ ~At(t, "idle")
    BY <1>1, <1>2, GotoContinues DEF TableInv, Labels, At
  <1>4. EntriesStep /\ LibsStep /\ ServesStep
    BY <1>1, SameSteps
  <1>5. RunsStep(t)
    BY <1>2, <1>3 DEF RunsStep
  <1> QED BY <1>1, <1>2, <1>3, <1>4, <1>5, StepCodes

LEMMA ProbeCode ==
  ASSUME TableInv, TableInv', CodeInv, NEW t \in Threads, Probe(t)
  PROVE  CodeInv'
  <1> DEFINE k == KernelOf(t)
             s == Lookup(table, k)
             e == table[s]
  <1>1. At(t, "probe") /\ UNCHANGED <<table, lib, control, definition, stale>>
    BY DEF Probe, tableVars, userVars
  <1>2. ~At(t, "idle") /\ k \in Kernels /\ Want(t) = CodeOf(k) /\ k \notin UserOps /\ Fresh(k)
    <2>1. ~At(t, "idle")
      BY <1>1 DEF At
    <2>2. k \notin UserOps
      BY <1>1, <2>1 DEF CodeInv, CallsCurrent
    <2> QED BY <2>1, <2>2, CallKnows
  <1>3. EntriesStep /\ LibsStep /\ ServesStep
    BY <1>1, SameSteps
  <1>4. CASE ~Found(table, k) \/ e.unchecked
    <2>1. Leaves(t) \/ Goto(t, "wait")
      BY <1>4 DEF Probe
    <2>2. Continues(t) /\ call'[t].pc \in {"idle", "wait"}
      BY <2>1, LeavesContinues, GotoContinues DEF TableInv, Labels
    <2>3. RunsStep(t)
      BY <2>2 DEF RunsStep
    <2> QED BY <1>1, <1>2, <1>3, <2>2, <2>3, StepCodes
  <1>5. CASE Found(table, k) /\ ~e.unchecked
    <2>1. Runs(t, e)
      BY <1>5 DEF Probe
    <2>2. s \in Entries(table) /\ e \in Real /\ e.kernel = k /\ e \in EntrySet
      BY <1>2, <1>5, FoundEntry DEF Real
    <2>3. e.code = Want(t)
      BY <1>2, <1>5, <2>2 DEF CodeInv, EntriesCurrent
    <2> HIDE DEF e
    <2>4. Continues(t) /\ call'[t].pc = "run" /\ call'[t].dl_function = e
      BY <2>1, <2>2, RunsContinues DEF TableInv
    <2>5. e.handle => Serves(table', k, Want(t))
      BY <1>1, <2>2, <2>3 DEF Serves, e
    <2>6. RunsStep(t)
      BY <2>2, <2>3, <2>4, <2>5 DEF RunsStep
    <2> HIDE DEF k
    <2> QED BY <1>1, <1>2, <1>3, <2>4, <2>6, StepCodes
  <1> QED BY <1>4, <1>5

LEMMA FindUsableCode ==
  ASSUME TableInv, TableInv', CodeInv, NEW t \in Threads, FindUsable(t)
  PROVE  CodeInv'
  <1> DEFINE k == KernelOf(t)
             s == Lookup(table, k)
             e == [table[s] EXCEPT !.unchecked = FALSE]
  <1>1. /\ At(t, "find") /\ Found(table, k) /\ table' = [table EXCEPT ![s] = e]
        /\ Runs(t, e) /\ Checked(t, table[s])
        /\ UNCHANGED <<control, lib, definition, stale>>
    BY DEF FindUsable, userVars
  <1>2. /\ ~At(t, "idle") /\ k \in Kernels /\ Want(t) = CodeOf(k)
        /\ k \notin UserOps => Fresh(k)
    BY <1>1, CallKnows DEF At
  <1>3. s \in Entries(table) /\ table[s] \in Real /\ table[s].kernel = k
    BY <1>1, <1>2, FoundEntry
  <1>4. /\ e \in Real /\ e \in EntrySet /\ e.kernel = k /\ e.handle = table[s].handle
        /\ e.code = table[s].code /\ e.unchecked = FALSE
    <2>1. e \in Real
      BY <1>3, RealEntry
    <2> QED BY <1>3, <2>1, RealEntry DEF Real
  <1>5. k \notin UserOps => e.code = CodeOf(k)
    BY <1>1, <1>2, <1>3, <1>4 DEF Checked, CodeInv, EntriesCurrent
  <1>6. e.handle => e.code = lib[k].code
    BY <1>3, <1>4 DEF CodeInv, EntriesLoaded
  <1> HIDE DEF e
  <1>7. Continues(t) /\ call'[t].pc = "run" /\ call'[t].dl_function = e
    BY <1>1, <1>4, RunsContinues DEF TableInv
  <1>8. /\ Entries(table') = Entries(table) /\ table'[s] = e
        /\ \A q \in Entries(table') : q # s => table'[q] = table[q]
    <2>1. s \in DOMAIN table
      BY <1>3 DEF Entries
    <2>2. e # NoEntry
      BY <1>4 DEF Real
    <2> HIDE DEF s, k
    <2> QED BY <1>1, <1>3, <2>1, <2>2 DEF Entries
  <1>9. EntriesStep
    <2>1. NewEntry(e, lib')
      BY <1>1, <1>4, <1>5, <1>6 DEF NewEntry
    <2> QED BY <1>8, <2>1 DEF EntriesStep
  <1>10. LibsStep
    BY <1>1, SameLibs
  <1>11. ServesStep
    <2> SUFFICES ASSUME NEW j, NEW q \in Entries(table), table[q].kernel = j, table[q].handle,
                        table[q].code = CodeOf(j)
                 PROVE  Serves(table', j, CodeOf(j))
      BY DEF ServesStep, Serves
    <2>1. q \in Entries(table')
      BY <1>8
    <2>2. table'[q].kernel = j /\ table'[q].handle /\ table'[q].code = CodeOf(j)
      BY <1>3, <1>4, <1>8, <2>1
    <2> QED BY <2>1, <2>2 DEF Serves
  <1>12. RunsStep(t)
    <2>1. e.handle /\ e.code = Want(t) => Serves(table', k, Want(t))
      BY <1>3, <1>4, <1>8 DEF Serves
    <2> QED BY <1>2, <1>4, <1>5, <1>7, <2>1 DEF RunsStep
  <1>13. UNCHANGED <<definition, stale>> /\ control' = control /\ call'[t].pc # "probe"
    BY <1>1, <1>7
  <1> HIDE DEF s, k
  <1> QED BY <1>2, <1>7, <1>9, <1>10, <1>11, <1>12, <1>13, StepCodes

LEMMA FindNoneCode ==
  ASSUME TableInv, TableInv', CodeInv, NEW t \in Threads, FindNone(t)
  PROVE  CodeInv'
  <1> DEFINE k == KernelOf(t)
             s == Lookup(table, k)
  <1>1. At(t, "find") /\ UNCHANGED <<control, definition, stale>>
    BY DEF FindNone, userVars
  <1>2. ~At(t, "idle") /\ k \in Kernels /\ Want(t) = CodeOf(k)
    BY <1>1, CallKnows DEF At
  <1>3. EntriesStep /\ LibsStep /\ ServesStep
    <2>1. CASE Found(table, k)
      <3>1. ~Checked(t, table[s]) /\ EntryFree(s)
        BY <2>1 DEF FindNone
      <3>2. s \in Entries(table) /\ table[s].kernel = k
        BY <1>2, <2>1, FoundEntry
      <3>3. /\ Entries(table') = Entries(table) \ {s}
            /\ \A r \in Entries(table') : table'[r] = table[r]
            /\ \A j \in Kernels : lib'[j] = Unloaded \/ lib'[j].code = lib[j].code
        BY <3>1, <3>2, EntryFreeTable
      <3>4. EntriesStep
        BY <3>3 DEF EntriesStep
      <3>5. LibsStep
        BY <3>3, SameLibs
      <3>6. ServesStep
        <4> SUFFICES ASSUME NEW j, NEW q \in Entries(table), table[q].kernel = j, table[q].handle,
                            table[q].code = CodeOf(j)
                     PROVE  Serves(table', j, CodeOf(j))
          BY DEF ServesStep, Serves
        <4>1. q # s
          <5>1. SUFFICES ASSUME q = s PROVE FALSE
            OBVIOUS
          <5>2. ~table[s].unchecked /\ table[s].code = Want(t)
            BY <1>2, <3>2, <5>1 DEF CodeInv, EntriesLoaded
          <5> QED BY <3>1, <5>2 DEF Checked
        <4>2. q \in Entries(table') /\ table'[q] = table[q]
          BY <3>3, <4>1
        <4> QED BY <4>2 DEF Serves
      <3> QED BY <3>4, <3>5, <3>6
    <2>2. CASE ~Found(table, k)
      <3>1. UNCHANGED <<table, lib>>
        BY <2>2 DEF FindNone, tableVars
      <3> QED BY <3>1, SameSteps
    <2> QED BY <2>1, <2>2
  <1>4. Continues(t) /\ call'[t].pc \in {"idle", "open"}
    <2>1. Leaves(t) \/ Goto(t, "open")
      BY DEF FindNone
    <2> QED BY <2>1, LeavesContinues, GotoContinues DEF TableInv, Labels
  <1>5. RunsStep(t)
    BY <1>4 DEF RunsStep
  <1> HIDE DEF k, s
  <1> QED BY <1>1, <1>2, <1>3, <1>4, <1>5, StepCodes

LEMMA OpenCode ==
  ASSUME TableInv, TableInv', CodeInv, NEW t \in Threads, OpenCurrent(t) \/ Compile(t)
  PROVE  CodeInv'
  <1> DEFINE k == KernelOf(t)
  <1>1. /\ At(t, "open") \/ At(t, "compile")
        /\ UNCHANGED <<table, control, definition, stale>> /\ Goto(t, "insert")
    BY DEF OpenCurrent, Compile, userVars, tableVars
  <1>2. ~At(t, "idle") /\ k \in Kernels /\ Want(t) = CodeOf(k) /\ lib \in [Kernels -> LibSet]
    BY <1>1, CallKnows DEF At, TableInv, TypedLibs
  <1>3. /\ \A j \in Kernels \ {k} : lib'[j] = lib[j]
        /\ lib[k] # Unloaded => lib'[k].code = lib[k].code
        /\ lib[k] = Unloaded => lib'[k].code = CodeOf(k)
    <2>1. CASE OpenCurrent(t)
      <3>1. /\ Opened(k, disk[k]).code = Want(t)
            /\ lib' = [lib EXCEPT ![k] = Opened(k, disk[k])]
        BY <2>1 DEF OpenCurrent
      <3>2. lib[k] # Unloaded => Opened(k, disk[k]).code = lib[k].code
        BY <1>2 DEF Opened, LibSet
      <3> QED BY <1>2, <3>1, <3>2
    <2>2. CASE Compile(t)
      <3>1. lib' = [lib EXCEPT ![k] = Opened(k, Want(t))]
        BY <2>2 DEF Compile
      <3>2. /\ lib[k] # Unloaded => Opened(k, Want(t)).code = lib[k].code
            /\ lib[k] = Unloaded => Opened(k, Want(t)).code = Want(t)
        BY <1>2 DEF Opened, LibSet
      <3> QED BY <1>2, <3>1, <3>2
    <2> QED BY <2>1, <2>2
  <1>4. LibsStep
    BY <1>3 DEF LibsStep
  <1>5. EntriesStep /\ ServesStep
    BY <1>1 DEF EntriesStep, ServesStep, Serves
  <1>6. Continues(t) /\ call'[t].pc = "insert"
    BY <1>1, GotoContinues DEF TableInv, Labels
  <1>7. RunsStep(t)
    BY <1>6 DEF RunsStep
  <1> HIDE DEF k
  <1> QED BY <1>1, <1>2, <1>4, <1>5, <1>6, <1>7, StepCodes

\* The library of a call about to insert is loaded
LEMMA InsertingLoaded ==
  ASSUME ControlInv, TableInv, NEW t \in Threads, At(t, "insert")
  PROVE  /\ KernelOf(t) \in Kernels /\ lib[KernelOf(t)] # Unloaded
         /\ lib[KernelOf(t)].code \in Codes
  <1> DEFINE k == KernelOf(t)
  <1>1. k \in Kernels /\ lock = t
    BY HasLock DEF At, TableInv, TypedCalls
  <1>2. Working(call, lock, k) = 1
    BY <1>1 DEF Working, At, KernelOf
  <1>3. Cardinality(Handled(table, k)) \in Nat
    BY HeldNat DEF TableInv
  <1>4. lib[k].handles >= 1
    BY <1>1, <1>2, <1>3 DEF TableInv, Balanced
  <1>5. lib[k] \in LibSet /\ lib[k].code # NoCode
    BY <1>1, <1>4 DEF TableInv, TypedLibs
  <1> QED BY <1>1, <1>4, <1>5 DEF Unloaded, LibSet

LEMMA InsertKernelCode ==
  ASSUME ControlInv, TableInv, TableInv', CodeInv, NEW t \in Threads, InsertKernel(t)
  PROVE  CodeInv'
  <1> DEFINE k == KernelOf(t)
             e == Entry(k, lib[k].code, TRUE, FALSE)
  <1>1. /\ At(t, "insert") /\ Insert(e) /\ Runs(t, e)
        /\ UNCHANGED <<control, lib, definition, stale>>
    BY DEF InsertKernel, userVars
  <1>2. /\ ~At(t, "idle") /\ k \in Kernels /\ Want(t) = CodeOf(k)
        /\ k \notin UserOps => Fresh(k)
    BY <1>1, CallKnows DEF At
  <1>3. lib[k] # Unloaded /\ lib[k].code \in Codes
    BY <1>1, InsertingLoaded
  <1>4. /\ e \in Real /\ e \in EntrySet /\ e.kernel = k /\ e.handle /\ ~e.unchecked
        /\ e.code = lib[k].code
    <2>1. e \in Real
      BY <1>2, <1>3, RealEntry DEF Entry
    <2> QED BY <2>1 DEF Entry, Real
  <1>5. k \notin UserOps => e.code = CodeOf(k)
    BY <1>2, <1>3, <1>4 DEF CodeInv, LibsCurrent
  <1> HIDE DEF e
  <1>6. Inserted(table, e, table')
    BY <1>1, <1>4, InsertCounts DEF Insert, TableInv
  <1>7. Continues(t) /\ call'[t].pc = "run" /\ call'[t].dl_function = e
    BY <1>1, <1>4, RunsContinues DEF TableInv
  <1>8. EntriesStep
    <2>1. NewEntry(e, lib')
      BY <1>1, <1>4, <1>5 DEF NewEntry
    <2> QED BY <1>6, <2>1 DEF EntriesStep, Inserted
  <1>9. LibsStep
    BY <1>1, SameLibs
  <1>10. ServesStep
    <2> SUFFICES ASSUME NEW j, NEW s \in Entries(table), table[s].kernel = j, table[s].handle,
                        table[s].code = CodeOf(j)
                 PROVE  Serves(table', j, CodeOf(j))
      BY DEF ServesStep, Serves
    <2>1. PICK q \in Entries(table') : table'[q] = table[s]
      BY <1>6 DEF Inserted
    <2> QED BY <2>1 DEF Serves
  <1>11. RunsStep(t)
    <2>1. PICK q \in Entries(table') : table'[q] = e
      BY <1>6 DEF Inserted
    <2>2. e.code = Want(t) => Serves(table', k, Want(t))
      BY <1>4, <2>1 DEF Serves
    <2> QED BY <1>2, <1>4, <1>5, <1>7, <2>2 DEF RunsStep
  <1>12. UNCHANGED <<definition, stale>> /\ control' = control /\ call'[t].pc # "probe"
    BY <1>1, <1>7
  <1> HIDE DEF k
  <1> QED BY <1>2, <1>7, <1>8, <1>9, <1>10, <1>11, <1>12, StepCodes

LEMMA CloseCode ==
  ASSUME NEW t \in Threads, TableInv, CloseLibrary(t)
  PROVE  \A k \in Kernels : lib'[k] = Unloaded \/ lib'[k].code = lib[k].code
  <1> DEFINE j == KernelOf(t)
  <1>1. lib \in [Kernels -> LibSet] /\ lib' = [lib EXCEPT ![j] = Closed(j, 1)]
    BY DEF TableInv, TypedLibs, CloseLibrary
  <1>2. j \in Kernels => Closed(j, 1) = Unloaded \/ Closed(j, 1).code = lib[j].code
    BY <1>1 DEF Closed, LibSet
  <1> HIDE DEF j
  <1>3. ASSUME NEW k \in Kernels
        PROVE  lib'[k] = Unloaded \/ lib'[k].code = lib[k].code
    <2>1. CASE k = j
      <3>1. lib'[k] = Closed(j, 1)
        BY <1>1, <2>1
      <3> QED BY <1>2, <2>1, <3>1
    <2>2. CASE k # j
      BY <1>1, <2>2
    <2> QED BY <2>1, <2>2
  <1> QED BY <1>3

\* A call that fails leaves the table and the libraries as they are, or closes its own
LEMMA FailCode ==
  ASSUME TableInv, TableInv', CodeInv, NEW t \in Threads,
         DlsymFails(t) \/ OutOfMemory(t) \/ CompileFails(t)
  PROVE  CodeInv'
  <1>1. /\ At(t, "insert") \/ At(t, "compile")
        /\ Leaves(t) /\ control' \in {PAUSE, RUN, LOAD} /\ UNCHANGED <<definition, stale>>
    BY DEF DlsymFails, OutOfMemory, CompileFails, Fail, userVars
  <1>2. ~At(t, "idle") /\ Continues(t) /\ call'[t].pc = "idle"
    BY <1>1, LeavesContinues DEF At, TableInv
  <1>3. LibsStep
    <2>1. CloseLibrary(t) \/ lib' = lib
      BY DEF DlsymFails, OutOfMemory, CompileFails
    <2> QED BY <2>1, CloseCode, SameLibs
  <1>4. EntriesStep /\ ServesStep
    <2>1. CASE UNCHANGED table
      BY <2>1 DEF EntriesStep, ServesStep, Serves
    <2>2. CASE InsertFails(KernelOf(t))
      <3>1. /\ \A s \in Entries(table) : \E q \in Entries(table') : table'[q] = table[s]
            /\ \A q \in Entries(table') : \E s \in Entries(table) : table'[q] = table[s]
        BY <2>2, OutOfMemoryMoves
      <3>2. ServesStep
        <4> SUFFICES ASSUME NEW j, NEW s \in Entries(table), table[s].kernel = j, table[s].handle,
                            table[s].code = CodeOf(j)
                     PROVE  Serves(table', j, CodeOf(j))
          BY DEF ServesStep, Serves
        <4>1. PICK q \in Entries(table') : table'[q] = table[s]
          BY <3>1
        <4> QED BY <4>1 DEF Serves
      <3> QED BY <3>1, <3>2 DEF EntriesStep
    <2> QED BY <2>1, <2>2 DEF DlsymFails, OutOfMemory, CompileFails, tableVars
  <1>5. RunsStep(t)
    BY <1>2 DEF RunsStep
  <1>6. control' # OFF /\ call'[t].pc # "probe"
    BY <1>1, <1>2
  <1> QED BY <1>1, <1>2, <1>3, <1>4, <1>5, <1>6, StepCodes

\* A step that only moves the call
LEMMA MoveCode ==
  ASSUME TableInv, TableInv', CodeInv, NEW t \in Threads,
         SetLock(t) \/ OpenNone(t) \/ Return(t)
  PROVE  CodeInv'
  <1>1. /\ At(t, "wait") \/ At(t, "open") \/ At(t, "run")
        /\ Goto(t, "find") \/ Goto(t, "compile") \/ Leaves(t)
        /\ UNCHANGED <<table, lib, control, definition, stale>>
    BY DEF SetLock, OpenNone, Return, tableVars, userVars
  <1>2. ~At(t, "idle") /\ Continues(t) /\ call'[t].pc \in {"find", "compile", "idle"}
    <2>1. ~At(t, "idle")
      BY <1>1 DEF At
    <2>2. Continues(t) /\ call'[t].pc \in {"find", "compile", "idle"}
      BY <1>1, GotoContinues, LeavesContinues DEF TableInv, Labels
    <2> QED BY <2>1, <2>2
  <1>3. EntriesStep /\ LibsStep /\ ServesStep
    BY <1>1, SameSteps
  <1>4. RunsStep(t)
    BY <1>2 DEF RunsStep
  <1>5. call'[t].pc # "probe" /\ control' = control /\ UNCHANGED <<definition, stale>>
    BY <1>1, <1>2
  <1> QED BY <1>2, <1>3, <1>4, <1>5, StepCodes

LEMMA StepCode ==
  ASSUME ControlInv, TableInv, TableInv', CodeInv, NEW t \in Threads, Step(t)
  PROVE  CodeInv'
  BY ReadControlCode, ProbeCode, FindUsableCode, FindNoneCode, OpenCode, InsertKernelCode,
     FailCode, MoveCode DEF Step

-----------------------------------------------------------------------------
(* The user and the process keep them right *)

LEMMA CallCode ==
  ASSUME TableInv, CodeInv, NEW t \in Threads, NEW k \in Kernels, Call(t, k)
  PROVE  CodeInv'
  <1>1. /\ At(t, "idle") /\ MayCall(k) /\ control > PAUSE
        /\ call' = [call EXCEPT ![t] = InCall("called", k, CodeOf(k), NoEntry)]
        /\ UNCHANGED <<table, lib, control, definition, stale>>
    BY DEF Call, tableVars, userVars
  <1>2. call \in [Threads -> CallSet]
    BY DEF TableInv, TypedCalls
  <1>3. /\ call'[t].pc = "called" /\ call'[t].kernel = k /\ call'[t].want = CodeOf(k)
        /\ \A u \in Threads \ {t} : call'[u] = call[u]
    BY <1>1, <1>2 DEF InCall
  <1>4. EntriesLoaded' /\ EntriesCurrent' /\ LibsCurrent'
    BY <1>1 DEF CodeInv, EntriesLoaded, EntriesCurrent, LibsCurrent, Fresh, CodeOf, Unloaded
  <1>5. OffClean'
    BY <1>1 DEF OffClean
  <1>6. CallsCurrent'
    <2> SUFFICES ASSUME NEW u \in Threads, call'[u].pc # "idle"
                 PROVE  /\ call'[u].want = CodeOf(call'[u].kernel)
                        /\ call'[u].kernel \notin UserOps => Fresh(call'[u].kernel)
                        /\ call'[u].pc = "probe" => call'[u].kernel \notin UserOps
      BY <1>1 DEF CallsCurrent, At, KernelOf, Want, CodeOf, Fresh
    <2>1. k \notin UserOps => Fresh(k)
      BY <1>1 DEF MayCall, Fresh, TableInv, TypedRest
    <2> QED BY <1>3, <2>1 DEF CodeInv, CallsCurrent, At, KernelOf, Want
  <1>7. RunsCurrent'
    <2> SUFFICES ASSUME NEW u \in Threads, call'[u].pc = "run"
                 PROVE  /\ call'[u].dl_function.kernel = call'[u].kernel
                        /\ call'[u].kernel \notin UserOps
                             => call'[u].dl_function.code = call'[u].want
                        /\ call'[u].dl_function.handle /\ call'[u].dl_function.code = call'[u].want
                             => Serves(table, call'[u].kernel, call'[u].want)
      BY <1>1 DEF RunsCurrent, At, KernelOf, Want, Serves, Entries
    <2>1. u # t /\ call'[u] = call[u]
      BY <1>3
    <2> QED BY <2>1 DEF CodeInv, RunsCurrent, At, KernelOf, Want
  <1> QED BY <1>4, <1>5, <1>6, <1>7 DEF CodeInv

\* While no thread is in a call, the calls have nothing to keep
LEMMA QuietCalls ==
  ASSUME Quiet, call' = call
  PROVE  CallsCurrent' /\ RunsCurrent' /\ Quiet'
  BY DEF Quiet, CallsCurrent, RunsCurrent, At

LEMMA SetControlCode ==
  ASSUME ControlInv, TableInv, CodeInv, NEW c \in OFF .. ON, SetControl(c)
  PROVE  CodeInv'
  <1>1. Quiet /\ UNCHANGED <<call, definition>> /\ control' = c
    BY DEF SetControl
  <1>2. CallsCurrent' /\ RunsCurrent' /\ Quiet'
    BY <1>1, QuietCalls
  <1>3. CASE c = OFF
    <2>1. TableFree /\ stale' = FALSE
      BY <1>3 DEF SetControl
    <2>2. /\ \A s \in Entries(table') :
               s \in Entries(table) /\ Kept(table[s]) /\ table'[s] = Remains(table[s])
          /\ \A k : Cardinality(Gone(table, k)) =
                      IF k \in UserOps THEN 0 ELSE Cardinality(Handled(table, k))
          /\ lib' = [k \in Kernels |-> Closed(k, Cardinality(Gone(table, k)))]
      BY <2>1, TableFreeCounts DEF TableInv
    <2>3. \A k : Working(call, lock, k) = 0
      BY <1>1 DEF Quiet, At, Working
    <2>4. \A k \in Kernels : /\ Cardinality(Handled(table, k)) \in Nat
                             /\ lib[k].handles = Cardinality(Handled(table, k))
      BY <2>3, HeldNat DEF TableInv, Balanced
    <2>5. \A k \in Kernels \ UserOps : lib'[k] = Unloaded
      BY <2>2, <2>4 DEF Closed
    <2>6. \A k \in Kernels \cap UserOps : lib'[k].code = lib[k].code
      <3> SUFFICES ASSUME NEW k \in Kernels \cap UserOps PROVE lib'[k].code = lib[k].code
        OBVIOUS
      <3>1. lib'[k] = Closed(k, 0)
        BY <2>2
      <3>2. lib[k] \in LibSet /\ (lib[k].code = NoCode <=> lib[k].handles = 0)
        BY DEF TableInv, TypedLibs
      <3> QED BY <3>1, <3>2 DEF Closed, Unloaded, LibSet
    <2>7. \A e \in Real : Kept(e) =>
            /\ Remains(e).kernel = e.kernel /\ Remains(e).handle = e.handle
            /\ Remains(e).code = e.code /\ Remains(e).unchecked = ~e.handle
      <3> SUFFICES ASSUME NEW e \in Real, Kept(e)
                   PROVE  /\ Remains(e).kernel = e.kernel /\ Remains(e).handle = e.handle
                          /\ Remains(e).code = e.code /\ Remains(e).unchecked = ~e.handle
        OBVIOUS
      <3>1. e \in [kernel : Kernels, code : Codes, handle : BOOLEAN, unchecked : BOOLEAN]
        BY RealEntry
      <3>2. Remains(e) = [e EXCEPT !.unchecked = ~e.handle]
        BY DEF Remains, Real
      <3> QED BY <3>1, <3>2
    <2>8. \A s \in Entries(table') :
            /\ s \in Entries(table) /\ Kept(table[s]) /\ table[s] \in Real
            /\ table'[s].kernel = table[s].kernel /\ table'[s].handle = table[s].handle
            /\ table'[s].code = table[s].code /\ table'[s].unchecked = ~table[s].handle
      BY <2>2, <2>7, TableShape DEF TableInv, Counted
    <2>9. EntriesLoaded'
      <3> SUFFICES ASSUME NEW s \in Entries(table'), table'[s].handle
                   PROVE  /\ ~table'[s].unchecked
                          /\ table'[s].code = lib'[table'[s].kernel].code
        BY DEF EntriesLoaded
      <3>1. /\ table[s].handle /\ table[s].kernel \in UserOps /\ s \in Entries(table)
            /\ ~table'[s].unchecked
        BY <2>8 DEF Kept
      <3>2. table[s].kernel \in Kernels /\ table[s].code = lib[table[s].kernel].code
        BY <3>1, EntryLoaded DEF CodeInv, EntriesLoaded
      <3> QED BY <2>6, <2>8, <3>1, <3>2
    <2>10. \A s \in Entries(table') : table'[s].kernel \notin UserOps => table'[s].unchecked
      BY <2>8 DEF Kept
    <2>11. EntriesCurrent' /\ LibsCurrent' /\ OffClean'
      BY <1>2, <2>5, <2>10 DEF EntriesCurrent, LibsCurrent, OffClean, Unloaded
    <2> QED BY <1>2, <2>9, <2>11 DEF CodeInv
  <1>4. CASE c # OFF
    <2>1. UNCHANGED <<table, lib, stale>>
      BY <1>4 DEF SetControl, tableVars
    <2>2. EntriesLoaded' /\ EntriesCurrent' /\ LibsCurrent' /\ OffClean'
      BY <1>1, <1>4, <2>1
      DEF CodeInv, EntriesLoaded, EntriesCurrent, LibsCurrent, OffClean, Fresh, CodeOf, Unloaded
    <2> QED BY <1>2, <2>2 DEF CodeInv
  <1> QED BY <1>3, <1>4

LEMMA RedefineCode ==
  ASSUME ControlInv, CodeInv, NEW d \in Definitions, Redefine(d)
  PROVE  CodeInv'
  <1>1. /\ Quiet /\ UNCHANGED <<table, lib, call, control>>
        /\ stale' = (control # OFF)
    BY DEF Redefine, tableVars
  <1>2. CallsCurrent' /\ RunsCurrent' /\ Quiet'
    BY <1>1, QuietCalls
  <1>3. EntriesLoaded' /\ OffClean'
    BY <1>1, <1>2 DEF CodeInv, EntriesLoaded, OffClean, Unloaded
  <1>4. CASE control = OFF
    <2>1. EntriesCurrent' /\ LibsCurrent'
      BY <1>1, <1>4 DEF CodeInv, OffClean, EntriesCurrent, LibsCurrent, Unloaded
    <2> QED BY <1>2, <1>3, <2>1 DEF CodeInv
  <1>5. CASE control # OFF
    <2>1. stale' = TRUE
      BY <1>1, <1>5
    <2>2. EntriesCurrent' /\ LibsCurrent'
      BY <1>1, <2>1 DEF CodeInv, EntriesCurrent, LibsCurrent, Fresh, CodeOf, Unloaded
    <2> QED BY <1>2, <1>3, <2>2 DEF CodeInv
  <1> QED BY <1>4, <1>5

LEMMA InitCode ==
  ASSUME Init
  PROVE  CodeInv
  <1>1. /\ table = InitTable[1] /\ lib = NoLibraries /\ call = NoCalls
        /\ control # OFF
    BY DEF Init
  <1>2. \A s \in Entries(table) : table[s].unchecked /\ ~table[s].handle
    BY <1>1, InitTableCounts
  <1>3. \A t \in Threads : call[t].pc = "idle"
    BY <1>1 DEF NoCalls, NoCall, InCall
  <1>4. \A k \in Kernels : lib[k] = Unloaded
    BY <1>1 DEF NoLibraries
  <1> QED BY <1>1, <1>2, <1>3, <1>4
      DEF CodeInv, EntriesLoaded, EntriesCurrent, LibsCurrent, OffClean, CallsCurrent,
          RunsCurrent, At

LEMMA RestartCode ==
  ASSUME Restart
  PROVE  CodeInv'
  <1>1. /\ table' = InitTable[1] /\ lib' = NoLibraries /\ call' = NoCalls
        /\ control' # OFF
    BY DEF Restart
  <1>2. \A s \in Entries(table') : table'[s].unchecked /\ ~table'[s].handle
    BY <1>1, InitTableCounts
  <1>3. \A t \in Threads : call'[t].pc = "idle"
    BY <1>1 DEF NoCalls, NoCall, InCall
  <1>4. \A k \in Kernels : lib'[k] = Unloaded
    BY <1>1 DEF NoLibraries
  <1> QED BY <1>1, <1>2, <1>3, <1>4
      DEF CodeInv, EntriesLoaded, EntriesCurrent, LibsCurrent, OffClean, CallsCurrent,
          RunsCurrent, At, Unloaded

LEMMA NextCode ==
  ASSUME ControlInv, TableInv, TableInv', CodeInv, [Next]_vars
  PROVE  CodeInv'
  <1>1. CASE \E t \in Threads : Step(t)
    BY <1>1, StepCode
  <1>2. CASE \E t \in Threads, k \in Kernels : Call(t, k)
    BY <1>2, CallCode
  <1>3. CASE \E c \in OFF .. ON : SetControl(c)
    BY <1>3, SetControlCode
  <1>4. CASE \E d \in Definitions : Redefine(d)
    BY <1>4, RedefineCode
  <1>5. CASE Restart
    BY <1>5, RestartCode
  <1>6. CASE UNCHANGED vars
    BY <1>6 DEF vars, tableVars, userVars, CodeInv, EntriesLoaded, EntriesCurrent, LibsCurrent,
       OffClean, CallsCurrent, RunsCurrent, At, KernelOf, Want, Quiet, Fresh, CodeOf, Serves,
       Entries, Unloaded
  <1> QED BY <1>1, <1>2, <1>3, <1>4, <1>5, <1>6 DEF Next

\* Which code an entry, a library and a call may have
THEOREM CodeInvariant == Spec => []CodeInv
  <1>1. Init => CodeInv
    BY InitCode
  <1>2. ControlInv /\ TableInv /\ TableInv' /\ CodeInv /\ [Next]_vars => CodeInv'
    BY NextCode
  <1> QED BY <1>1, <1>2, ControlInvariant, TableInvariant, PTL DEF Spec

\* A kernel that runs has been compiled from the current definitions and is
\* still loaded (GrB_jit.tex:77-82, 202-214)
THEOREM KernelIsRight == Spec => []KernelRight
  <1>1. TableInv /\ CodeInv => KernelRight
    <2> SUFFICES ASSUME TableInv, CodeInv, NEW t \in Threads, At(t, "run")
                 PROVE  /\ call[t].dl_function.kernel = KernelOf(t)
                        /\ \/ call[t].dl_function.kernel \in UserOps
                           \/ call[t].dl_function.code = Want(t)
                        /\ call[t].dl_function.handle /\ call[t].dl_function.code = Want(t)
                             => lib[KernelOf(t)] # Unloaded
      BY DEF KernelRight
    <2> QED BY ServesLoaded DEF CodeInv, RunsCurrent
  <1> QED BY <1>1, TableInvariant, CodeInvariant, PTL

-----------------------------------------------------------------------------
(* The operators, as long as no hole of the table hides one *)

Loading == {"open", "compile", "insert"}

\* A call that loads an operator has not found it, because it is not there
LoadsNew ==
  \A t \in Threads : call[t].pc \in Loading /\ call[t].kernel \in UserOps =>
    /\ \A s \in Entries(table) : table[s].kernel # call[t].kernel
    /\ call[t].pc = "insert" => lib[call[t].kernel].code = call[t].want

OperatorInv == LoadsNew /\ OperatorRight

\* The other calls that load or run an operator keep what they know
LEMMA OthersKeep ==
  ASSUME ControlInv, OperatorInv, NEW t \in Threads, Continues(t),
         lock = t \/ UNCHANGED <<table, lib>>, NEW u \in Threads \ {t}
  PROVE  /\ call'[u].pc \in Loading /\ call'[u].kernel \in UserOps =>
              /\ \A s \in Entries(table') : table'[s].kernel # call'[u].kernel
              /\ call'[u].pc = "insert" => lib'[call'[u].kernel].code = call'[u].want
         /\ call'[u].pc = "run" /\ call'[u].kernel \in UserOps =>
              call'[u].dl_function.code = call'[u].want
  <1>1. call'[u] = call[u]
    BY DEF Continues
  <1>2. call[u].pc \in Loading => lock = u
    BY DEF ControlInv, LockSound, Loading
  <1>3. call[u].pc \in Loading => UNCHANGED <<table, lib>>
    BY <1>2
  <1> QED BY <1>1, <1>3 DEF OperatorInv, LoadsNew, OperatorRight, At, KernelOf, Want, Entries

LEMMA StepOperator ==
  ASSUME ControlInv, OperatorInv, NEW t \in Threads, Continues(t),
         lock = t \/ UNCHANGED <<table, lib>>,
         call'[t].pc \in Loading /\ KernelOf(t) \in UserOps =>
           \A s \in Entries(table') : table'[s].kernel # KernelOf(t),
         call'[t].pc = "insert" /\ KernelOf(t) \in UserOps =>
           lib'[KernelOf(t)].code = Want(t),
         call'[t].pc = "run" /\ KernelOf(t) \in UserOps =>
           call'[t].dl_function.code = Want(t)
  PROVE  OperatorInv'
  <1>1. call'[t].pc # "idle" => call'[t].kernel = KernelOf(t) /\ call'[t].want = Want(t)
    BY DEF Continues, KernelOf, Want
  <1>2. LoadsNew'
    BY <1>1, OthersKeep DEF LoadsNew, Loading
  <1>3. OperatorRight'
    <2> SUFFICES ASSUME NEW u \in Threads, call'[u].pc = "run", call'[u].kernel \in UserOps
                 PROVE  call'[u].dl_function.code = call'[u].want
      BY DEF OperatorRight, At, KernelOf, Want
    <2>1. CASE u = t
      BY <1>1, <2>1
    <2>2. CASE u # t
      BY <2>2, OthersKeep
    <2> QED BY <2>1, <2>2
  <1> QED BY <1>2, <1>3 DEF OperatorInv

LEMMA StepKeepsOperators ==
  ASSUME ControlInv, TableInv, CodeInv, OperatorInv, OperatorsFound, NEW t \in Threads, Step(t)
  PROVE  OperatorInv'
  <1> DEFINE k == KernelOf(t)
  <1>1. CASE ReadControl(t) \/ SetLock(t) \/ Return(t)
    <2>1. /\ Leaves(t) \/ Goto(t, "probe") \/ Goto(t, "wait") \/ Goto(t, "find")
          /\ UNCHANGED <<table, lib>>
      BY <1>1 DEF ReadControl, SetLock, Return, tableVars
    <2>2. Continues(t) /\ call'[t].pc \in {"idle", "probe", "wait", "find"}
      BY <2>1, LeavesContinues, GotoContinues DEF TableInv, Labels
    <2> HIDE DEF k
    <2> QED BY <2>1, <2>2, StepOperator DEF Loading
  <1>2. CASE Probe(t)
    <2>1. At(t, "probe") /\ UNCHANGED <<table, lib>>
      BY <1>2 DEF Probe, tableVars
    <2>2. ~At(t, "idle")
      BY <2>1 DEF At
    <2>3. k \in Kernels /\ k \notin UserOps
      BY <2>1, <2>2, CallKnows DEF CodeInv, CallsCurrent
    <2>4. Continues(t)
      <3>1. CASE Found(table, k)
        <4>1. table[Lookup(table, k)] \in EntrySet
          BY <2>3, <3>1, FoundEntry DEF Real
        <4>2. Goto(t, "wait") \/ Runs(t, table[Lookup(table, k)])
          BY <1>2, <3>1 DEF Probe
        <4> QED BY <4>1, <4>2, GotoContinues, RunsContinues DEF TableInv, Labels
      <3>2. CASE ~Found(table, k)
        BY <1>2, <3>2, LeavesContinues DEF Probe, TableInv
      <3> QED BY <3>1, <3>2
    <2> QED BY <2>1, <2>3, <2>4, StepOperator
  <1>3. CASE FindUsable(t)
    <2> DEFINE s == Lookup(table, k)
               e == [table[s] EXCEPT !.unchecked = FALSE]
    <2>1. At(t, "find") /\ Found(table, k) /\ Runs(t, e) /\ Checked(t, table[s])
      BY <1>3 DEF FindUsable
    <2>2. lock = t /\ k \in Kernels
      BY <2>1, HasLock, CallKnows DEF At
    <2>3. table[s] \in Real
      BY <2>1, <2>2, FoundEntry
    <2>4. e \in EntrySet /\ e.code = table[s].code
      <3>1. e \in Real
        BY <2>3, RealEntry
      <3> QED BY <2>3, <3>1, RealEntry DEF Real
    <2>5. k \in UserOps => table[s].code = Want(t)
      BY <2>1 DEF Checked
    <2> HIDE DEF e, s
    <2>6. Continues(t) /\ call'[t].pc = "run" /\ call'[t].dl_function = e
      BY <2>1, <2>4, RunsContinues DEF TableInv
    <2> QED BY <2>2, <2>4, <2>5, <2>6, StepOperator DEF Loading
  <1>4. CASE FindNone(t)
    <2>1. At(t, "find") /\ (Leaves(t) \/ Goto(t, "open"))
      BY <1>4 DEF FindNone
    <2>2. lock = t /\ k \in Kernels
      BY <2>1, HasLock, CallKnows DEF At
    <2>3. Continues(t) /\ call'[t].pc \in {"idle", "open"}
      BY <2>1, LeavesContinues, GotoContinues DEF TableInv, Labels
    <2>4. ASSUME k \in UserOps, NEW r \in Entries(table'), table'[r].kernel = k
          PROVE  FALSE
      <3>1. CASE Found(table, k)
        <4>1. Lookup(table, k) \in Entries(table) /\ table[Lookup(table, k)].kernel = k
          BY <2>2, <3>1, FoundEntry
        <4>2. EntryFree(Lookup(table, k))
          BY <1>4, <3>1 DEF FindNone
        <4>3. /\ r \in Entries(table) /\ r # Lookup(table, k) /\ table'[r] = table[r]
          BY <4>1, <4>2, EntryFreeTable
        <4>4. Lookup(table, k) = r
          BY <2>4, <4>3 DEF OperatorsFound
        <4> QED BY <4>3, <4>4
      <3>2. CASE ~Found(table, k)
        <4>1. table' = table
          BY <1>4, <3>2 DEF FindNone, tableVars
        <4>2. r \in Entries(table) /\ Lookup(table, k) = r
          BY <2>4, <4>1 DEF OperatorsFound, Entries
        <4>3. table # << >> /\ table[r] # NoEntry
          BY <4>2, NoTable DEF Entries
        <4> QED BY <3>2, <4>2, <4>3 DEF Found
      <3> QED BY <3>1, <3>2
    <2>5. k \in UserOps => \A r \in Entries(table') : table'[r].kernel # k
      BY <2>4
    <2> QED BY <2>2, <2>3, <2>5, StepOperator
  <1>5. CASE OpenCurrent(t) \/ Compile(t)
    <2>1. /\ At(t, "open") \/ At(t, "compile")
          /\ table' = table /\ Goto(t, "insert")
      BY <1>5 DEF OpenCurrent, Compile, tableVars
    <2>2. lock = t /\ k \in Kernels /\ lib \in [Kernels -> LibSet]
      BY <2>1, HasLock, CallKnows DEF At, TableInv, TypedLibs
    <2>3. /\ Continues(t) /\ call'[t].pc = "insert"
      BY <2>1, GotoContinues DEF TableInv, Labels
    <2>4. k \in UserOps => \A s \in Entries(table) : table[s].kernel # k
      BY <2>1 DEF OperatorInv, LoadsNew, At, KernelOf, Loading
    <2>5. k \in UserOps => lib[k] = Unloaded
      <3> SUFFICES ASSUME k \in UserOps PROVE lib[k] = Unloaded
        OBVIOUS
      <3>1. Handled(table, k) = {}
        <4>1. Handled(table, k) = {s \in Entries(table) : table[s].kernel = k /\ table[s].handle}
          BY HandledEntries DEF TableInv, Counted
        <4> QED BY <2>4, <4>1
      <3>2. Working(call, lock, k) = 0
        BY <2>1, <2>2, NotInserting DEF At
      <3>3. lib[k].handles = 0
        <4>1. lib[k].handles = Cardinality(Handled(table, k)) + Working(call, lock, k)
          BY <2>2 DEF TableInv, Balanced
        <4>2. Cardinality(Handled(table, k)) = 0
          BY <3>1, FS_EmptySet
        <4> QED BY <3>2, <4>1, <4>2
      <3>4. lib[k] \in LibSet /\ lib[k].code = NoCode
        BY <2>2, <3>3 DEF TableInv, TypedLibs
      <3> QED BY <3>3, <3>4 DEF Unloaded, LibSet
    <2>6. k \in UserOps => lib'[k].code = Want(t)
      <3>1. CASE OpenCurrent(t)
        BY <2>2, <3>1 DEF OpenCurrent
      <3>2. CASE Compile(t)
        <4>1. lib' = [lib EXCEPT ![k] = Opened(k, Want(t))]
          BY <3>2 DEF Compile
        <4>2. k \in UserOps => Opened(k, Want(t)) = [code |-> Want(t), handles |-> 1]
          BY <2>5 DEF Opened
        <4> QED BY <2>2, <4>1, <4>2
      <3> QED BY <1>5, <3>1, <3>2
    <2>7. k \in UserOps => \A s \in Entries(table') : table'[s].kernel # k
      BY <2>1, <2>4 DEF Entries
    <2> QED BY <2>2, <2>3, <2>6, <2>7, StepOperator
  <1>6. CASE OpenNone(t)
    <2>1. At(t, "open") /\ table' = table /\ lib' = lib /\ (Leaves(t) \/ Goto(t, "compile"))
      BY <1>6 DEF OpenNone, tableVars
    <2>2. Continues(t) /\ call'[t].pc \in {"idle", "compile"}
      BY <2>1, LeavesContinues, GotoContinues DEF TableInv, Labels
    <2>3. k \in UserOps => \A s \in Entries(table') : table'[s].kernel # k
      BY <2>1 DEF OperatorInv, LoadsNew, At, KernelOf, Loading, Entries
    <2>4. call'[t].pc # "insert" /\ call'[t].pc # "run"
      BY <2>2
    <2> QED BY <2>1, <2>2, <2>3, <2>4, StepOperator
  <1>7. CASE InsertKernel(t)
    <2> DEFINE e == Entry(k, lib[k].code, TRUE, FALSE)
    <2>1. At(t, "insert") /\ Runs(t, e)
      BY <1>7 DEF InsertKernel
    <2>2. lock = t /\ k \in Kernels /\ lib[k].code \in Codes
      BY <2>1, HasLock, InsertingLoaded
    <2>3. e \in EntrySet /\ e.code = lib[k].code
      <3>1. e \in Real
        BY <2>2, RealEntry DEF Entry
      <3> QED BY <3>1 DEF Entry, Real
    <2>4. k \in UserOps => lib[k].code = Want(t)
      BY <2>1 DEF OperatorInv, LoadsNew, At, KernelOf, Want, Loading
    <2> HIDE DEF e
    <2>5. Continues(t) /\ call'[t].pc = "run" /\ call'[t].dl_function = e
      BY <2>1, <2>3, RunsContinues DEF TableInv
    <2> QED BY <2>2, <2>3, <2>4, <2>5, StepOperator DEF Loading
  <1>8. CASE DlsymFails(t) \/ OutOfMemory(t) \/ CompileFails(t)
    <2>1. (At(t, "insert") \/ At(t, "compile")) /\ Leaves(t)
      BY <1>8 DEF DlsymFails, OutOfMemory, CompileFails, Fail
    <2>2. lock = t /\ Continues(t) /\ call'[t].pc = "idle"
      BY <2>1, HasLock, LeavesContinues DEF TableInv
    <2> QED BY <2>2, StepOperator DEF Loading
  <1> QED BY <1>1, <1>2, <1>3, <1>4, <1>5, <1>6, <1>7, <1>8 DEF Step

LEMMA NextKeepsOperators ==
  ASSUME ControlInv, TableInv, CodeInv, OperatorInv, OperatorsFound, [Next]_vars
  PROVE  OperatorInv'
  <1>1. CASE \E t \in Threads : Step(t)
    BY <1>1, StepKeepsOperators
  <1>2. CASE \E t \in Threads, k \in Kernels : Call(t, k)
    <2>1. PICK t \in Threads, k \in Kernels : Call(t, k)
      BY <1>2
    <2>2. /\ call \in [Threads -> CallSet] /\ UNCHANGED <<table, lib>>
          /\ call' = [call EXCEPT ![t] = InCall("called", k, CodeOf(k), NoEntry)]
      BY <2>1 DEF Call, tableVars, TableInv, TypedCalls
    <2>3. /\ call'[t].pc = "called" /\ \A u \in Threads \ {t} : call'[u] = call[u]
      BY <2>2 DEF InCall
    <2> QED BY <2>2, <2>3
        DEF OperatorInv, LoadsNew, OperatorRight, Loading, At, KernelOf, Want, Entries
  <1>3. CASE (\E c \in OFF .. ON : SetControl(c)) \/ \E d \in Definitions : Redefine(d)
    <2>1. Quiet /\ call' = call
      BY <1>3 DEF SetControl, Redefine
    <2> QED BY <2>1 DEF Quiet, OperatorInv, LoadsNew, OperatorRight, Loading, At
  <1>4. CASE Restart
    <2>1. \A t \in Threads : call'[t].pc = "idle"
      BY <1>4 DEF Restart, NoCalls, NoCall, InCall
    <2> QED BY <2>1 DEF OperatorInv, LoadsNew, OperatorRight, Loading, At
  <1>5. CASE UNCHANGED vars
    BY <1>5 DEF vars, tableVars, userVars, OperatorInv, LoadsNew, OperatorRight, At, KernelOf,
       Want, Entries
  <1> QED BY <1>1, <1>2, <1>3, <1>4, <1>5 DEF Next

\* The operator that the user gets is the one defined now (GrB_jit.tex:79),
\* as long as every operator in the table is found: a hole left by an entry
\* that has been freed (GB_jitifyer.c:2316) is the only way to an old one
THEOREM OperatorIsRight == Spec /\ []OperatorsFound => []OperatorRight
  <1>1. Init => OperatorInv
    <2> SUFFICES ASSUME Init PROVE OperatorInv
      OBVIOUS
    <2>1. \A t \in Threads : call[t].pc = "idle"
      BY DEF Init, NoCalls, NoCall, InCall
    <2> QED BY <2>1 DEF OperatorInv, LoadsNew, OperatorRight, Loading, At
  <1>2. ControlInv /\ TableInv /\ CodeInv /\ OperatorInv /\ OperatorsFound /\ [Next]_vars
          => OperatorInv'
    BY NextKeepsOperators
  <1>3. OperatorInv => OperatorRight
    BY DEF OperatorInv
  <1> QED BY <1>1, <1>2, <1>3, ControlInvariant, TableInvariant, CodeInvariant, PTL DEF Spec
=============================================================================
