--------------------------- MODULE MatrixRefinement ---------------------------
(***************************************************************************)
(* However the work is deferred, the user sees a map from positions to     *)
(* values that each call updates at once: the matrix implements            *)
(* AbstractMatrix.  Each internal function leaves the user's view of the   *)
(* matrix alone, and each user function changes it as AbstractMatrix says. *)
(***************************************************************************)
EXTENDS MatrixProofs

-----------------------------------------------------------------------------
(* The user's view of a matrix *)

\* The value that the user finds at p: AbsOf(A).val.
View(A) ==
  [p \in Pos |-> IF p \in PendingPos(A) THEN Assembled(A, p)
                 ELSE IF A.entry[p] \in Val THEN A.entry[p] ELSE NoVal]

\* The value that the tuples K of the list q build, up to tuple k.
After(q, K, v, k) ==
  LET before == {l \in K : l < k}
      tuple  == q.tup[k]
  IN  IF before = {} THEN Cast(q.type, tuple.s)
      ELSE Apply(q.op, v[Max(before)], q.type, tuple.s)

\* Assembled, as a function of the list and the iso value.
Built(q, iso, p) ==
  LET K == {k \in DOMAIN q.tup : q.tup[k].pos = p}
      v == CHOOSE v \in [K -> Val] : \A k \in K : v[k] = After(q, K, v, k)
  IN  IF iso # NotIso THEN iso ELSE v[Max(K)]

\* What GB_builder assembles depends on the pending tuples and the iso value alone ...
LEMMA AssembledBuilt ==
  ASSUME NEW A, NEW p
  PROVE  Assembled(A, p) = Built(A.pend, A.iso, p)
  BY DEF Assembled, Built, ValueAfter, After, PendingAt

\* ... so that matrices that agree on those assemble the same.
LEMMA AssembledSame ==
  ASSUME NEW A, NEW B, B.pend = A.pend, B.iso = A.iso, NEW p
  PROVE  Assembled(B, p) = Assembled(A, p)
  BY AssembledBuilt

\* B has the size, the tuples and the live entries of A.
Alike(A, B) ==
  /\ {"valid", "vlen", "vdim", "entry", "pend", "iso"} \subseteq DOMAIN B
  /\ B.valid = A.valid /\ B.vlen = A.vlen /\ B.vdim = A.vdim
  /\ B.pend = A.pend /\ B.iso = A.iso
  /\ \A p \in Pos : A.entry[p] \in Val \/ B.entry[p] \in Val => B.entry[p] = A.entry[p]

\* The outcome r of a function that converts A.
Retains(A, r) ==
  /\ {"m", "info"} \subseteq DOMAIN r /\ r.info \in {"SUCCESS", "OUT_OF_MEMORY"}
  /\ Alike(A, r.m)

\* A matrix of the data model has these fields.
LEMMA AlikeSelf ==
  ASSUME NEW A \in Matrices
  PROVE  Alike(A, A)
  BY DEF Matrices, Alike

\* Alike matrices look the same.
LEMMA AlikeView ==
  ASSUME NEW A, NEW B, Alike(A, B)
  PROVE  View(B) = View(A)
  <1>1. PendingPos(B) = PendingPos(A)
    BY DEF PendingPos, Alike
  <1>2. \A p \in Pos : Assembled(B, p) = Assembled(A, p)
    BY AssembledSame DEF Alike
  <1>3. \A p \in Pos : (IF B.entry[p] \in Val THEN B.entry[p] ELSE NoVal)
                         = IF A.entry[p] \in Val THEN A.entry[p] ELSE NoVal
    BY DEF Alike
  <1> QED BY <1>1, <1>2, <1>3 DEF View

\* One change after another.
LEMMA AlikeTrans ==
  ASSUME NEW A, NEW B, NEW D, Alike(A, B), Alike(B, D)
  PROVE  Alike(A, D)
  BY DEF Alike

\* A matrix that keeps these fields.
LEMMA AlikeFields ==
  ASSUME NEW A, Alike(A, A), NEW B, DOMAIN B = DOMAIN A,
         B.valid = A.valid, B.vlen = A.vlen, B.vdim = A.vdim, B.pend = A.pend,
         B.iso = A.iso,
         B.entry \in {A.entry, [p \in Pos |-> IF A.entry[p] = Zombie THEN Absent
                                              ELSE A.entry[p]]}
  PROVE  Alike(A, B) /\ Alike(B, B)
  <1>1. \A p \in Pos : B.entry[p] # A.entry[p] => A.entry[p] = Zombie /\ B.entry[p] = Absent
    BY Zenon
  <1> QED BY <1>1, ValAssumption DEF Alike

\* Success, and a failure for want of memory.
LEMMA RetainsDone ==
  ASSUME NEW A, NEW B, Alike(A, B), NEW r, r \in Done(B) \/ r \in NoMemory(B)
  PROVE  Retains(A, r)
  BY DEF Retains, Done, NoMemory

\* One function after another.
LEMMA RetainsStep ==
  ASSUME NEW A, NEW r, Retains(A, r), NEW S, NEW q \in Then(r, S),
         r.info = "SUCCESS" => \A s \in S : Retains(r.m, s)
  PROVE  Retains(A, q)
  <1>1. CASE r.info = "SUCCESS"
    BY <1>1, AlikeTrans DEF Then, Retains
  <1>2. CASE r.info # "SUCCESS"
    BY <1>2 DEF Then
  <1> QED BY <1>1, <1>2

-----------------------------------------------------------------------------
(* Conversions, GB_conform, GB_unjumble and GB_hyper_prune keep the view *)

\* The counters and the cached count are not seen.
LEMMA AlikeUpdateNne ==
  ASSUME NEW A, Alike(A, A)
  PROVE  Alike(A, UpdateNne(A)) /\ Alike(UpdateNne(A), UpdateNne(A))
  BY AlikeFields DEF UpdateNne, Alike

\* The one step conversions.
LEMMA RetainsConversion ==
  ASSUME NEW A, Alike(A, A), NEW r,
         \/ r \in FullToBitmap(A) \/ r \in FullToSparse(A) \/ r \in BitmapToSparse(A)
         \/ r \in HyperToSparse(A) \/ r \in SparseToHyper(A) \/ r \in SparseToBitmap(A)
  PROVE  Retains(A, r)
  <1> DEFINE c == Cardinality(Nonempty(A))
             v == AllVectors(A)
             D == [A EXCEPT !.fmt = "sparse", !.nne = c]
             E(n) == [A EXCEPT !.fmt = "sparse", !.h = {}, !.Y = NoHash, !.nne = n]
             G == [A EXCEPT !.fmt = "hyper", !.h = Nonempty(A), !.nne = c]
             H == [A EXCEPT !.fmt = "bitmap", !.nvals = Dense(A)]
             J == [A EXCEPT !.fmt = "sparse", !.nvals = Dense(A), !.nne = v]
             e == [p \in Pos |-> IF A.entry[p] = Zombie THEN Absent ELSE A.entry[p]]
             B == [A EXCEPT !.fmt = "bitmap", !.entry = e, !.nvals = @ - A.nzombies,
                            !.nzombies = 0, !.nne = v, !.h = {}, !.Y = NoHash,
                            !.jumbled = FALSE, !.unsorted = {}]
  <1> DEFINE n == IF A.vdim # 1 /\ A.h = 0 .. A.vdim - 1 THEN A.nne ELSE c
  <1>1. r \in FullToBitmap(A) => r \in Done(H) \/ r \in NoMemory(A)
    BY DEF FullToBitmap
  <1>2. r \in FullToSparse(A) => r \in Done(J) \/ r \in NoMemory(A)
    BY DEF FullToSparse
  <1>3. r \in BitmapToSparse(A) => r \in Done(D) \/ r \in NoMemory(A)
    BY DEF BitmapToSparse
  <1>4. r \in HyperToSparse(A) => r \in Done(E(n)) \/ r \in NoMemory(A)
    BY DEF HyperToSparse
  <1>5. r \in SparseToHyper(A) => r \in Done(G) \/ r \in NoMemory(A)
    BY DEF SparseToHyper
  <1>6. r \in SparseToBitmap(A) => r \in Done(B) \/ r \in NoMemory(A)
    BY DEF SparseToBitmap
  <1> HIDE DEF c, v, e, n
  <1>7. Alike(A, H) /\ Alike(A, J) /\ Alike(A, D) /\ Alike(A, E(n)) /\ Alike(A, G)
    BY AlikeFields DEF Alike
  <1>8. Alike(A, B)
    <2>1. DOMAIN B = DOMAIN A /\ B.valid = A.valid /\ B.vlen = A.vlen /\ B.vdim = A.vdim
          /\ B.pend = A.pend /\ B.iso = A.iso /\ B.entry = e
      BY DEF Alike
    <2> HIDE DEF B
    <2> QED BY <2>1, AlikeFields DEF e
  <1> HIDE DEF B, D, E, G, H, J
  <1> QED BY <1>1, <1>2, <1>3, <1>4, <1>5, <1>6, <1>7, <1>8, RetainsDone

\* A change of structure, to any other.
LEMMA RetainsAnyTo ==
  ASSUME NEW A, Alike(A, A), A.fmt \in Formats, NEW r,
         \/ r \in AnyToSparse(A) \/ r \in AnyToHyper(A) \/ r \in AnyToBitmap(A)
  PROVE  Retains(A, r)
  <1>1. A.fmt \in {"hyper", "sparse", "bitmap", "full"}
    BY DEF Formats
  <1>2. ASSUME NEW q \in AnyToSparse(A)
        PROVE  Retains(A, q)
    <2>1. \/ q \in Done(A) \/ q \in HyperToSparse(A) \/ q \in FullToSparse(A)
          \/ q \in BitmapToSparse(A)
      BY <1>1, <1>2 DEF AnyToSparse
    <2> QED BY <2>1, RetainsDone, RetainsConversion
  <1>3. ASSUME r \in AnyToHyper(A), r \notin Done(A)
        PROVE  Retains(A, r)
    <2>1. PICK q \in AnyToSparse(A) : r \in Then(q, SparseToHyper(q.m))
      BY <1>3 DEF AnyToHyper
    <2>2. Retains(A, q) /\ Alike(q.m, q.m)
      BY <1>2 DEF Retains, Alike
    <2> QED BY <2>1, <2>2, RetainsStep, RetainsConversion
  <1>4. ASSUME r \in AnyToBitmap(A)
        PROVE  r \in Done(A) \/ r \in FullToBitmap(A) \/ r \in SparseToBitmap(A)
    BY <1>1, <1>4 DEF AnyToBitmap
  <1> QED BY <1>2, <1>3, <1>4, RetainsDone, RetainsConversion

\* The choice between sparse and hypersparse.
LEMMA RetainsConformHyper ==
  ASSUME NEW A, Alike(A, A), NEW r \in ConformHyper(A)
  PROVE  Retains(A, r)
  <1> DEFINE B == UpdateNne(A)
  <1>1. Alike(A, B) /\ Alike(B, B)
    BY AlikeUpdateNne
  <1>2. r \in Done(B) \/ r \in SparseToHyper(B) \/ r \in HyperToSparse(B)
    BY DEF ConformHyper
  <1> HIDE DEF B
  <1>3. Retains(B, r)
    BY <1>1, <1>2, RetainsDone, RetainsConversion
  <1> QED BY <1>1, <1>3, AlikeTrans DEF Retains

\* The structure that GB_conform has chosen.
LEMMA RetainsConvertTo ==
  ASSUME NEW A, Alike(A, A), A.fmt \in Formats, NEW target, NEW r \in ConvertTo(A, target)
  PROVE  Retains(A, r)
  <1>1. \/ r \in Done(AnyToFull(A)) \/ r \in AnyToBitmap(A) \/ r \in AnyToHyper(A)
        \/ r \in AnyToSparse(A) \/ r \in ConformHyper(A)
        \/ r \in UNION {Then(q, ConformHyper(q.m)) : q \in AnyToSparse(A)}
    BY DEF ConvertTo
  <1>2. Alike(A, AnyToFull(A))
    BY AlikeFields DEF AnyToFull, Alike
  <1>3. ASSUME NEW q \in AnyToSparse(A), r \in Then(q, ConformHyper(q.m))
        PROVE  Retains(A, r)
    <2>1. Retains(A, q) /\ Alike(q.m, q.m)
      BY RetainsAnyTo DEF Retains, Alike
    <2> QED BY <1>3, <2>1, RetainsStep, RetainsConformHyper
  <1> QED BY <1>1, <1>2, <1>3, RetainsDone, RetainsAnyTo, RetainsConformHyper

\* What GB_conform does first.
LEMMA AlikeConformStart ==
  ASSUME NEW A, Alike(A, A)
  PROVE  /\ Alike(A, ConformStart(A)) /\ Alike(ConformStart(A), ConformStart(A))
         /\ "fmt" \in DOMAIN A => ConformStart(A).fmt = A.fmt
  <1> DEFINE B == UpdateNne(A)
  <1>1. Alike(A, B) /\ Alike(B, B)
    BY AlikeUpdateNne
  <1>2. B.fmt = A.fmt
    BY DEF UpdateNne
  <1>3. ConformStart(A) = IF A.nohash THEN [B EXCEPT !.Y = NoHash] ELSE B
    BY DEF ConformStart, HyperHashFree
  <1> HIDE DEF B
  <1>4. Alike(B, [B EXCEPT !.Y = NoHash])
    BY <1>1, AlikeFields DEF Alike
  <1> QED BY <1>1, <1>2, <1>3, <1>4, AlikeTrans DEF Alike

\* GB_conform without pending tuples.
LEMMA RetainsConformSettled ==
  ASSUME NEW A, Alike(A, A), A.fmt \in Formats, "fmt" \in DOMAIN A,
         NEW r \in ConformSettled(A)
  PROVE  Retains(A, r)
  <1> DEFINE B == ConformStart(A)
             t == ConformTarget(A)
  <1>1. Alike(A, B) /\ Alike(B, B) /\ B.fmt \in Formats
    BY AlikeConformStart
  <1>2. r \in ConvertTo(B, t)
    BY DEF ConformSettled
  <1> HIDE DEF B, t
  <1>3. Retains(B, r)
    BY <1>1, <1>2, RetainsConvertTo
  <1> QED BY <1>1, <1>3, AlikeTrans DEF Retains

\* Sorting the vectors, and dropping the empty ones.
LEMMA RetainsPrune ==
  ASSUME NEW A, Alike(A, A), NEW r, r \in HyperPrune(A) \/ r \in Unjumble(A)
  PROVE  Retains(A, r)
  <1> DEFINE B == UpdateNne(A)
             D == [B EXCEPT !.h = Nonempty(B), !.Y = NoHash,
                            !.nne = Cardinality(Nonempty(B))]
             E == [B EXCEPT !.jumbled = FALSE, !.unsorted = {}]
  <1>1. Alike(A, B) /\ Alike(B, B)
    BY AlikeUpdateNne
  <1>2. \/ r \in Done(A) \/ r \in Done(B) \/ r \in NoMemory(B)
        \/ r \in Done(D) \/ r \in Done(E)
    BY DEF HyperPrune, Unjumble
  <1> HIDE DEF B
  <1>3. Alike(B, D) /\ Alike(B, E)
    BY <1>1, AlikeFields DEF Alike
  <1> HIDE DEF D, E
  <1> QED BY <1>1, <1>2, <1>3, AlikeTrans, RetainsDone

\* GB_transplant takes all of T but its settings.
LEMMA AlikeTransplant ==
  ASSUME NEW A, NEW T, Alike(T, T)
  PROVE  Alike(T, Transplant(A, T)) /\ Alike(Transplant(A, T), Transplant(A, T))
  <1> DEFINE full == T.fmt = "full" \/ (T.fmt = "sparse" /\ AsIfFull(T))
             f == IF full THEN "full" ELSE T.fmt
             n == IF full THEN 0 ELSE T.nvals
             y == IF T.fmt = "hyper" /\ ~A.nohash THEN T.Y ELSE NoHash
             B == [T EXCEPT !.fmt = f, !.nvals = n, !.Y = y,
                            !.control = A.control, !.nohash = A.nohash]
  <1>1. Transplant(A, T) = B
    BY DEF Transplant
  <1> HIDE DEF f, n, y
  <1> QED BY <1>1, AlikeFields DEF Alike

-----------------------------------------------------------------------------
(* GB_wait: the user sees afterwards what the deferred work promised before *)

\* What the user sees of a matrix with these entries and no pending tuples.
Plain(e) == [p \in Pos |-> IF e[p] \in Val THEN e[p] ELSE NoVal]

\* Without pending tuples the user sees the entries as they are.
LEMMA PlainView ==
  ASSUME NEW A, ~HasPending(A)
  PROVE  View(A) = Plain(A.entry) /\ PendingPos(A) = {}
  <1>1. DOMAIN A.pend.tup = {}
    BY DEF HasPending
  <1>2. PendingPos(A) = {}
    BY <1>1 DEF PendingPos
  <1> QED BY <1>2 DEF View, Plain

\* Zombies are not seen.
LEMMA RetainsRemoveZombies ==
  ASSUME NEW A, Alike(A, A), NEW r \in RemoveZombies(A)
  PROVE  Retains(A, r)
  <1> DEFINE live == [p \in Pos |-> IF A.entry[p] = Zombie THEN Absent ELSE A.entry[p]]
             W == [A EXCEPT !.entry = live, !.nvals = @ - A.nzombies,
                            !.nzombies = 0, !.Y = NoHash]
             B == [W EXCEPT !.nne = Cardinality(Nonempty(W))]
  <1>1. \/ r \in Done(A) \/ r \in NoMemory(A)
        \/ \E q \in HyperPrune(B) : r \in Then(q, Done(Transplant(A, q.m)))
    BY DEF RemoveZombies
  <1>2. Alike(A, W) /\ Alike(W, W)
    <2>1. DOMAIN W = DOMAIN A /\ W.valid = A.valid /\ W.vlen = A.vlen /\ W.vdim = A.vdim
          /\ W.pend = A.pend /\ W.iso = A.iso /\ W.entry = live
      BY DEF Alike
    <2> HIDE DEF W
    <2> QED BY <2>1, AlikeFields DEF live
  <1> HIDE DEF live, W
  <1>3. Alike(A, B) /\ Alike(B, B)
    <2>1. Alike(W, B) /\ Alike(B, B)
      BY <1>2, AlikeFields DEF Alike
    <2> QED BY <1>2, <2>1, AlikeTrans
  <1> HIDE DEF B
  <1>4. ASSUME NEW q \in HyperPrune(B), r \in Then(q, Done(Transplant(A, q.m)))
        PROVE  Retains(A, r)
    <2> DEFINE D == Transplant(A, q.m)
    <2>1. Retains(B, q)
      BY <1>3, RetainsPrune
    <2>2. Alike(A, q.m) /\ Alike(q.m, q.m)
      BY <1>3, <2>1, AlikeTrans DEF Retains, Alike
    <2>3. Alike(A, D)
      BY <2>2, AlikeTransplant, AlikeTrans
    <2> HIDE DEF D
    <2>4. r = q \/ r \in Done(D)
      BY <1>4 DEF Then, D
    <2> QED BY <2>1, <2>2, <2>3, <2>4, RetainsDone DEF Retains
  <1> QED BY <1>1, <1>4, RetainsDone

\* The result of a transplant looks like what was transplanted.
LEMMA RetainsTransplantConform ==
  ASSUME NEW A, NEW T, Alike(T, T), T.fmt \in Formats, "fmt" \in DOMAIN T,
         NEW r \in TransplantConform(A, T)
  PROVE  Retains(T, r)
  <1> DEFINE B == Transplant(A, T)
  <1>1. Alike(T, B) /\ Alike(B, B)
    BY AlikeTransplant
  <1>2. "fmt" \in DOMAIN B /\ B.fmt \in Formats
    <2>1. B.fmt \in {T.fmt, "full"} /\ DOMAIN B = DOMAIN T
      BY DEF Transplant
    <2> QED BY <2>1 DEF Formats
  <1>3. r \in ConformSettled(B)
    BY DEF TransplantConform
  <1> HIDE DEF B
  <1>4. Retains(B, r)
    BY <1>1, <1>2, <1>3, RetainsConformSettled
  <1> QED BY <1>1, <1>4, AlikeTrans DEF Retains

\* The entries of A, and the values its tuples build, are what the user of A
\* sees.
LEMMA MergedView ==
  ASSUME NEW A, Ready(A), NEW B, ~HasPending(B),
         \A p \in PendingPos(A) : B.entry[p] = Assembled(A, p),
         \A p \in Pos : p \notin PendingPos(A) =>
           (A.entry[p] \in Val \/ B.entry[p] \in Val => B.entry[p] = A.entry[p])
  PROVE  View(B) = View(A)
  <1>1. \A p \in PendingPos(A) : B.entry[p] \in Val
    BY AssembledType DEF Ready, Good
  <1>2. View(B) = Plain(B.entry)
    BY PlainView
  <1> QED BY <1>1, <1>2 DEF View, Plain

\* The matrix T of the tuples alone.
LEMMA BuildView ==
  ASSUME NEW A, Ready(A)
  PROVE  LET T == BuildPending(A)
         IN  /\ \A p \in PendingPos(A) : T.entry[p] = Assembled(A, p)
             /\ \A p \in Pos : p \notin PendingPos(A) => T.entry[p] = Absent
             /\ PendingPos(A) \subseteq Pos
  <1> DEFINE held == PendingPos(A)
             e == [p \in Pos |-> IF p \in held THEN Assembled(A, p) ELSE Absent]
             T == BuildPending(A)
  <1>1. Held(T) = held
    BY ReadyBuildPending
  <1>2. held \subseteq Pos
    BY <1>1, HeldType
  <1>3. T.entry = e
    <2>1. "entry" \in DOMAIN A
      BY DEF Ready, Good, Matrices
    <2> DEFINE vecs == {p[2] : p \in held}
    <2>2. T = [A EXCEPT !.fmt = "hyper", !.entry = e, !.nvals = Cardinality(held),
                        !.nzombies = 0, !.nne = Cardinality(vecs), !.h = vecs,
                        !.Y = NoHash, !.jumbled = FALSE, !.unsorted = {},
                        !.pend = NoPending, !.control = Formats, !.nohash = FALSE]
      BY DEF BuildPending
    <2> HIDE DEF T, e, vecs
    <2> QED BY <2>1, <2>2
  <1> HIDE DEF T
  <1> QED BY <1>2, <1>3 DEF T

\* No entry is held by a matrix that counts none.
LEMMA NoneHeld ==
  ASSUME NEW A, Ready(A), Nnz(A) = 0
  PROVE  Held(A) = {}
  <1>1. Cardinality(Held(A)) = 0
    <2>1. CASE A.fmt = "full"
      BY <2>1, FullHolds DEF Nnz
    <2>2. CASE A.fmt # "full"
      BY <2>2 DEF Nnz, Ready, Good, StructureOK, CountsExact
    <2> QED BY <2>1, <2>2
  <1>2. IsFiniteSet(Held(A))
    BY HeldType, CountNat
  <1> QED BY <1>1, <1>2, FS_EmptySet

\* GB_add of the entries that are left and the tuples, in place of A.
LEMMA MergeView ==
  ASSUME NEW A, Ready(A), NEW B, Ready(B), ~HasPending(B), B.fmt \in Formats,
         \A p \in Pos : A.entry[p] \in Val \/ B.entry[p] \in Val => B.entry[p] = A.entry[p],
         NEW r \in MergePending(B, BuildPending(A)), r.info = "SUCCESS"
  PROVE  View(r.m) = View(A)
  <1> DEFINE T == BuildPending(A)
             e == [p \in Pos |-> IF T.entry[p] # Absent THEN T.entry[p] ELSE B.entry[p]]
             list == IF B.fmt = "hyper" THEN B.h \cup T.h ELSE B.h
             S0 == [B EXCEPT !.fmt = B.fmt, !.entry = e, !.h = list, !.Y = NoHash]
             S == [S0 EXCEPT !.nvals = Cardinality(Held(S0)),
                             !.nne = Cardinality(Nonempty(S0))]
             keep == B.fmt = "hyper" /\ ~B.nohash /\ B.Y # NoHash /\ S.h = B.h
             restored(m) == IF keep /\ m.fmt = "hyper" /\ m.Y = NoHash
                            THEN [m EXCEPT !.Y = B.Y] ELSE m
             put(q) == IF q.info = "SUCCESS" THEN [q EXCEPT !.m = restored(@)] ELSE q
  <1>1. AddPending(B, T) = S
    BY DEF AddPending
  <1>2. MergePending(B, T) = {put(q) : q \in TransplantConform(B, S)} \cup NoMemory(B)
    <2> DEFINE P == AddPending(B, T)
               kept == B.fmt = "hyper" /\ ~B.nohash /\ B.Y # NoHash /\ P.h = B.h
               back(m) == IF kept /\ m.fmt = "hyper" /\ m.Y = NoHash
                          THEN [m EXCEPT !.Y = B.Y] ELSE m
    <2>1. MergePending(B, T)
            = {IF q.info = "SUCCESS" THEN [q EXCEPT !.m = back(@)] ELSE q
                 : q \in TransplantConform(B, P)} \cup NoMemory(B)
      BY DEF MergePending
    <2>2. P = S
      BY <1>1
    <2> HIDE DEF P, S
    <2> QED BY <2>1, <2>2
  <1>3. /\ \A p \in PendingPos(A) : T.entry[p] = Assembled(A, p) /\ Assembled(A, p) \in Val
        /\ \A p \in Pos : p \notin PendingPos(A) => T.entry[p] = Absent
        /\ PendingPos(A) \subseteq Pos
    BY BuildView, AssembledType DEF Ready, Good
  <1> HIDE DEF T
  <1>4. /\ \A p \in PendingPos(A) : e[p] = Assembled(A, p)
        /\ \A p \in Pos : p \notin PendingPos(A) => e[p] = B.entry[p]
    BY <1>3, ValAssumption
  <1> HIDE DEF e, list
  <1>5. Alike(B, B) /\ "fmt" \in DOMAIN B
    BY AlikeSelf DEF Ready, Good, Matrices
  <1>6. /\ {"valid", "vlen", "vdim", "entry", "pend", "iso", "fmt"} \subseteq DOMAIN S0
        /\ S0.entry = e /\ S0.pend = B.pend /\ S0.fmt = B.fmt
    BY <1>5 DEF Alike
  <1> HIDE DEF S0
  <1>7. /\ Alike(S, S) /\ "fmt" \in DOMAIN S /\ S.fmt \in Formats
        /\ S.entry = e /\ S.pend = B.pend
    BY <1>6 DEF Alike
  <1> HIDE DEF S
  <1>8. View(S) = View(A)
    BY <1>3, <1>4, <1>7, MergedView DEF HasPending
  <1>9. PICK q \in TransplantConform(B, S) : r = put(q)
    <2>1. r \notin NoMemory(B)
      BY DEF NoMemory
    <2> HIDE DEF put
    <2> QED BY <1>2, <2>1 DEF T
  <1>10. Retains(S, q)
    BY <1>7, RetainsTransplantConform
  <1>11. q.info = "SUCCESS" /\ r.m = restored(q.m)
    BY <1>9, <1>10 DEF Retains
  <1> DEFINE D == [q.m EXCEPT !.Y = B.Y]
  <1>12. r.m \in {q.m, D}
    BY <1>11
  <1>13. Alike(q.m, D)
    BY <1>10, AlikeFields DEF Alike, Retains
  <1> HIDE DEF D, restored, put
  <1> QED BY <1>8, <1>10, <1>12, <1>13, AlikeView DEF Retains

\* Whatever way the work is finished, the user sees the same afterwards.
LEMMA FinishView ==
  ASSUME NEW A, Ready(A), A.fmt \in {"hyper", "sparse"}, NEW r \in FinishWork(A),
         r.info = "SUCCESS"
  PROVE  View(r.m) = View(A)
  <1> DEFINE T == BuildPending(A)
             B == [A EXCEPT !.pend = NoPending]
             finish(D) == IF ~HasPending(A) THEN ConformSettled(D)
                          ELSE IF Nnz(D) = 0 THEN TransplantConform(D, T)
                          ELSE MergePending(D, T)
  <1>1. \/ r \in NoMemory(A)
        \/ \E q \in UNION {Then(p, Unjumble(p.m)) : p \in RemoveZombies(B)} :
             r \in Then(q, finish(q.m))
    BY DEF FinishWork
  <1>2. Ready(B) /\ ~HasPending(B) /\ B.entry = A.entry /\ B.fmt \in {"hyper", "sparse"}
    BY ReadyUnpended DEF SameContent
  <1> HIDE DEF B
  <1>3. r \notin NoMemory(A)
    BY DEF NoMemory
  <1>4. PICK p \in RemoveZombies(B) :
          \E q \in Then(p, Unjumble(p.m)) : r \in Then(q, finish(q.m))
    BY <1>1, <1>3
  <1> PICK q \in Then(p, Unjumble(p.m)) : r \in Then(q, finish(q.m))
    BY <1>4
  <1> HIDE DEF finish
  <1>5. q.info = "SUCCESS" /\ r \in finish(q.m) /\ p.info = "SUCCESS"
        /\ q \in Unjumble(p.m)
    BY DEF Then
  <1>6. Ready(p.m)
    BY <1>2, <1>5, SafeRemoveZombies DEF Safe, Ready
  <1>7. Ready(q.m) /\ q.m \in Matrices
    BY <1>5, <1>6, SafeUnjumble DEF Safe, Ready, Good
  <1>8. Alike(B, q.m)
    <2>1. Alike(B, B)
      BY <1>2, AlikeSelf DEF Ready, Good
    <2>2. Alike(B, p.m) /\ Alike(p.m, p.m)
      BY <2>1, RetainsRemoveZombies DEF Retains, Alike
    <2>3. Alike(p.m, q.m)
      BY <1>5, <2>2, RetainsPrune DEF Retains
    <2> QED BY <2>2, <2>3, AlikeTrans
  <1>9. /\ ~HasPending(q.m)
        /\ \A i \in Pos : A.entry[i] \in Val \/ q.m.entry[i] \in Val =>
                            q.m.entry[i] = A.entry[i]
    BY <1>2, <1>8 DEF Alike, HasPending
  <1>10. Alike(q.m, q.m) /\ "fmt" \in DOMAIN q.m /\ q.m.fmt \in Formats
    BY <1>7, <1>8 DEF Alike, Matrices
  <1>11. CASE ~HasPending(A)
    <2>1. r \in ConformSettled(q.m)
      BY <1>5, <1>11 DEF finish
    <2>2. View(r.m) = View(q.m)
      BY <1>10, <2>1, RetainsConformSettled, AlikeView DEF Retains
    <2>3. View(q.m) = View(B)
      BY <1>8, AlikeView
    <2>4. View(B) = View(A)
      BY <1>2, <1>11, PlainView
    <2> QED BY <2>2, <2>3, <2>4
  <1>12. CASE HasPending(A) /\ Nnz(q.m) = 0
    <2>1. r \in TransplantConform(q.m, T)
      BY <1>5, <1>12 DEF finish
    <2>2. Ready(T) /\ ~HasPending(T) /\ T.fmt = "hyper" /\ T \in Matrices
      BY ReadyBuildPending DEF Ready, Good
    <2>3. /\ \A i \in PendingPos(A) : T.entry[i] = Assembled(A, i)
          /\ \A i \in Pos : i \notin PendingPos(A) => T.entry[i] = Absent
      BY BuildView
    <2> HIDE DEF T
    <2>4. Alike(T, T) /\ "fmt" \in DOMAIN T /\ T.fmt \in Formats
      BY <2>2, AlikeSelf DEF Matrices
    <2>5. View(r.m) = View(T)
      BY <2>1, <2>4, RetainsTransplantConform, AlikeView DEF Retains
    <2>6. \A i \in Pos : A.entry[i] \notin Val
      <3>1. \A i \in Pos : q.m.entry[i] = Absent
        BY <1>7, <1>12, NoneHeld DEF Held
      <3> QED BY <1>9, <3>1, ValAssumption
    <2>7. View(T) = View(A)
      BY <2>2, <2>3, <2>6, MergedView, ValAssumption
    <2> QED BY <2>5, <2>7
  <1>13. CASE HasPending(A) /\ Nnz(q.m) # 0
    <2>1. r \in MergePending(q.m, T)
      BY <1>5, <1>13 DEF finish
    <2> QED BY <1>7, <1>9, <1>10, <2>1, MergeView
  <1> QED BY <1>11, <1>12, <1>13

-----------------------------------------------------------------------------
(* The contract of a function that is to change the view of A to V *)

\* On success the user sees V; without memory the user sees what was there
\* before, or V, or has an invalid matrix.
Shows(A, V, r) ==
  /\ r \in Outcomes /\ r.info \in {"SUCCESS", "OUT_OF_MEMORY"}
  /\ Good(r.m) /\ r.m.vlen = A.vlen /\ r.m.vdim = A.vdim
  /\ r.info = "SUCCESS" => r.m.valid
  /\ r.m.valid => View(r.m) = V \/ (r.info # "SUCCESS" /\ View(r.m) = View(A))

\* A function that is done, with another matrix that looks like A.
LEMMA ShowsDone ==
  ASSUME NEW A, NEW B, Ready(B), B.vlen = A.vlen, B.vdim = A.vdim,
         NEW V, View(B) = V,
         NEW r, r \in Done(B) \/ r \in NoMemory(B)
  PROVE  Shows(A, V, r)
  BY DEF Shows, Done, NoMemory, Ready, Good, Outcomes

\* No memory, and the content is freed.
LEMMA ShowsFreed ==
  ASSUME NEW A, NEW B \in Matrices, B.vlen = A.vlen, B.vdim = A.vdim, NEW V,
         NEW r \in NoMemory(PhybixFree(B))
  PROVE  Shows(A, V, r) /\ ~r.m.valid
  <1> DEFINE F == PhybixFree(B)
  <1>1. Good(F) /\ ~F.valid /\ F.vlen = A.vlen /\ F.vdim = A.vdim
    BY GoodFreed DEF Fits
  <1>2. r \in NoMemory(F)
    OBVIOUS
  <1> HIDE DEF F
  <1> QED BY <1>1, <1>2 DEF Shows, NoMemory, Good, Outcomes

\* One function after another, of which the first or the second changes the
\* view.
LEMMA ShowsStep ==
  ASSUME NEW A, NEW V, NEW W, NEW r, Shows(A, W, r), W = View(A) \/ W = V,
         NEW S, NEW q \in Then(r, S),
         r.info = "SUCCESS" => \A s \in S : Shows(r.m, V, s)
  PROVE  Shows(A, V, q)
  <1>1. CASE r.info = "SUCCESS"
    <2>1. q \in S /\ Ready(r.m) /\ View(r.m) = W
      BY <1>1 DEF Then, Shows, Ready
    <2> QED BY <1>1, <2>1 DEF Shows
  <1>2. CASE r.info # "SUCCESS"
    BY <1>2 DEF Then, Shows
  <1> QED BY <1>1, <1>2

\* A function that keeps the view of what it is given.
Keeping(A, S) == \A r \in S : Shows(A, View(A), r)

\* A function that is safe and retains the entries keeps the view.
LEMMA KeepingRetained ==
  ASSUME NEW A, Ready(A), NEW S, Safe(A, S), NEW r \in S, Retains(A, r)
  PROVE  Shows(A, View(A), r)
  BY AlikeView DEF Safe, Fits, Retains, Shows

\* GB_wait.
LEMMA KeepingWait ==
  ASSUME NEW A, Ready(A)
  PROVE  Keeping(A, Wait(A)) /\ \A r \in Wait(A) : ~AnyPendingWork(r.m)
  <1>1. A \in Matrices /\ Alike(A, A) /\ A.fmt \in {"hyper", "sparse", "bitmap", "full"}
    BY AlikeSelf DEF Ready, Good, Matrices, Formats
  <1>2. Settled(A, Wait(A))
    BY SafeWait
  <1>3. ASSUME NEW r \in Wait(A)
        PROVE  Shows(A, View(A), r)
    <2>1. r \in Outcomes /\ Good(r.m) /\ Fits(A, r.m) /\ (r.info = "SUCCESS" => r.m.valid)
      BY <1>2 DEF Settled, Safe
    <2>2. CASE r \in Done(A)
      BY <2>2, ShowsDone
    <2>3. CASE r \in Done(UpdateNne(A))
      <3>1. Alike(A, UpdateNne(A))
        BY <1>1, AlikeUpdateNne
      <3>2. Retains(A, r)
        BY <2>3, <3>1, RetainsDone
      <3> QED BY <1>2, <3>2, KeepingRetained DEF Settled
    <2>4. CASE A.fmt \in {"hyper", "sparse"}
               /\ \E q : (q \in FinishWork(A) \/ q \in Unjumble(A)) /\ r = FreeOnError(q)
      <3>1. PICK q : (q \in FinishWork(A) \/ q \in Unjumble(A)) /\ r = FreeOnError(q)
        BY <2>4
      <3>2. q \in Outcomes /\ q.info \in {"SUCCESS", "OUT_OF_MEMORY"}
        <4>1. Safe(A, FinishWork(A)) /\ Safe(A, Unjumble(A))
          BY <2>4, SafeFinishWork, SafeUnjumble DEF Finished
        <4>2. CASE q \in FinishWork(A)
          <5>1. Header(A)
            BY <1>1, HeaderType
          <5> QED BY <4>1, <4>2, <5>1, ObeysFinishWork DEF Safe, Obeys
        <4>3. CASE q \in Unjumble(A)
          BY <1>1, <4>1, <4>3, RetainsPrune DEF Safe, Retains
        <4> QED BY <3>1, <4>2, <4>3
      <3>3. CASE q.info = "SUCCESS"
        <4>1. r = q
          BY <3>1, <3>3 DEF FreeOnError
        <4>2. View(q.m) = View(A)
          <5>1. CASE q \in FinishWork(A)
            BY <2>4, <3>3, <5>1, FinishView
          <5>2. CASE q \in Unjumble(A)
            BY <1>1, <5>2, RetainsPrune, AlikeView DEF Retains
          <5> QED BY <3>1, <5>1, <5>2
        <4> QED BY <2>1, <3>2, <4>1, <4>2 DEF Shows, Fits
      <3>4. CASE q.info # "SUCCESS"
        <4> DEFINE F == PhybixFree(q.m)
        <4>1. r = [q EXCEPT !.m = F]
          BY <3>1, <3>4 DEF FreeOnError
        <4>2. ~F.valid
          BY <3>2, GoodFreed DEF Outcomes
        <4> HIDE DEF F
        <4>3. r.m = F /\ r.info = q.info
          BY <3>2, <4>1 DEF Outcomes
        <4> QED BY <2>1, <3>2, <4>2, <4>3 DEF Shows, Fits
      <3> QED BY <3>3, <3>4
    <2> QED BY <1>1, <2>2, <2>3, <2>4 DEF Wait
  <1> QED BY <1>2, <1>3 DEF Keeping, Settled

\* GB_MATRIX_WAIT, GB_hyper_hash_build, GrB_Matrix_wait and GB_block.
LEMMA KeepingWaiters ==
  ASSUME NEW A, Ready(A), NEW cond
  PROVE  /\ Keeping(A, WaitIf(cond, A))
         /\ Keeping(A, MatrixWait(A))
         /\ Keeping(A, Block(A))
  <1>1. Keeping(A, Done(A))
    BY ShowsDone DEF Keeping
  <1>2. ASSUME NEW r \in Materialize(A)
        PROVE  Shows(A, View(A), r)
    <2>1. PICK q \in Wait(A) : r \in Then(q, HyperHashBuild(q.m))
      BY <1>2 DEF Materialize
    <2>2. Shows(A, View(A), q)
      BY KeepingWait DEF Keeping
    <2>3. ASSUME q.info = "SUCCESS", NEW s \in HyperHashBuild(q.m)
          PROVE  Shows(q.m, View(A), s)
      <3> DEFINE B == q.m
                 D == [B EXCEPT !.Y = B.h]
      <3>1. Ready(B) /\ B \in Matrices /\ View(B) = View(A)
        BY <2>2, <2>3 DEF Shows, Ready, Good
      <3>2. s \in Done(B) \/ (HyperHashNeed(B) /\ s \in Done(D)) \/ s \in NoMemory(PhybixFree(B))
        BY <2>3 DEF HyperHashBuild
      <3> SUFFICES Shows(B, View(A), s)
        OBVIOUS
      <3> HIDE DEF B
      <3>3. CASE s \in Done(B)
        BY <3>1, <3>3, ShowsDone
      <3>4. CASE HyperHashNeed(B) /\ s \in Done(D)
        <4>1. Ready(D) /\ Fits(B, D)
          BY <3>1, <3>4, ReadyHashed DEF HyperHashNeed
        <4>2. Alike(B, D)
          BY <3>1, AlikeSelf, AlikeFields DEF Matrices
        <4> HIDE DEF D
        <4>3. View(D) = View(A)
          BY <3>1, <4>2, AlikeView
        <4> QED BY <3>4, <4>1, <4>3, ShowsDone DEF Fits
      <3>5. CASE s \in NoMemory(PhybixFree(B))
        BY <3>1, <3>5, ShowsFreed
      <3> QED BY <3>2, <3>3, <3>4, <3>5
    <2> QED BY <2>1, <2>2, <2>3, ShowsStep
  <1> QED BY <1>1, <1>2, KeepingWait DEF Keeping, WaitIf, MatrixWait, Block

\* GB_conform, with or without pending tuples.
LEMMA KeepingConform ==
  ASSUME NEW A, Ready(A)
  PROVE  Keeping(A, Conform(A))
  <1>1. Alike(A, A) /\ A.fmt \in Formats /\ "fmt" \in DOMAIN A
    BY AlikeSelf DEF Ready, Good, Matrices
  <1>2. ASSUME NEW r \in Conform(A), r \in ConformSettled(A)
        PROVE  Shows(A, View(A), r)
    BY <1>1, <1>2, RetainsConformSettled, SafeConform, KeepingRetained
  <1>3. ASSUME NEW r \in Conform(A), r \notin ConformSettled(A)
        PROVE  Shows(A, View(A), r)
    <2> DEFINE B == ConformStart(A)
    <2>1. PICK q \in Wait(B) : r \in Then(q, AnyToBitmap(q.m))
      BY <1>3 DEF Conform
    <2>2. Ready(B) /\ B.vlen = A.vlen /\ B.vdim = A.vdim /\ View(B) = View(A)
      BY <1>1, SafeConformStart, AlikeConformStart, AlikeView DEF Fits
    <2> HIDE DEF B
    <2>3. Shows(B, View(B), q) /\ ~AnyPendingWork(q.m)
      BY <2>2, KeepingWait DEF Keeping
    <2>4. Shows(A, View(A), q)
      BY <2>2, <2>3 DEF Shows
    <2>5. ASSUME q.info = "SUCCESS", NEW s \in AnyToBitmap(q.m)
          PROVE  Shows(q.m, View(A), s)
      <3>1. Ready(q.m) /\ ~HasPending(q.m) /\ View(q.m) = View(A)
        BY <2>3, <2>4, <2>5 DEF Shows, Ready, AnyPendingWork
      <3>2. Safe(q.m, AnyToBitmap(q.m))
        BY <3>1, SafeAnyToBitmap
      <3>3. Retains(q.m, s)
        BY <2>5, <3>1, AlikeSelf, RetainsAnyTo DEF Ready, Good, Matrices
      <3> QED BY <3>1, <3>2, <3>3, KeepingRetained
    <2> QED BY <2>1, <2>4, <2>5, ShowsStep
  <1> QED BY <1>2, <1>3 DEF Keeping

-----------------------------------------------------------------------------
(* The value that a list of pending tuples builds *)

\* The places in the list q of the tuples for p.
At(q, p) == {k \in DOMAIN q.tup : q.tup[k].pos = p}

\* v has the value after each tuple of K.
Solves(q, K, v) == v \in [K -> Val] /\ \A k \in K : v[k] = After(q, K, v, k)

\* The places are natural numbers, and one of them is the last.
LEMMA AtPlaces ==
  ASSUME NEW q, q.tup \in Seq(Tuples), NEW p
  PROVE  /\ Len(q.tup) \in Nat /\ DOMAIN q.tup = 1 .. Len(q.tup)
         /\ At(q, p) \subseteq Nat
         /\ \A k \in At(q, p) : k \in Int /\ 1 <= k /\ k <= Len(q.tup)
         /\ At(q, p) # {} => /\ Max(At(q, p)) \in At(q, p)
                             /\ \A k \in At(q, p) : Max(At(q, p)) >= k
  <1>1. Len(q.tup) \in Nat /\ DOMAIN q.tup = 1 .. Len(q.tup)
    OBVIOUS
  <1>2. \A k \in At(q, p) : k \in Int /\ 1 <= k /\ k <= Len(q.tup)
    BY <1>1 DEF At
  <1> QED BY <1>1, <1>2, MaxIn

\* So is there a last one before each.
LEMMA AtBefore ==
  ASSUME NEW q, q.tup \in Seq(Tuples), NEW p, NEW k, {l \in At(q, p) : l < k} # {}
  PROVE  Max({l \in At(q, p) : l < k}) \in {l \in At(q, p) : l < k}
  <1> DEFINE before == {l \in At(q, p) : l < k}
  <1>1. Len(q.tup) \in Nat
    BY AtPlaces
  <1>2. \A l \in before : l \in Int /\ 1 <= l /\ l <= Len(q.tup)
    BY AtPlaces
  <1>3. before # {}
    OBVIOUS
  <1> HIDE DEF before
  <1>4. Max(before) \in before
    BY <1>1, <1>2, <1>3, MaxIn
  <1> QED BY <1>4 DEF before

\* Only one function has the value after each tuple.
LEMMA AfterUnique ==
  ASSUME NEW q, q.tup \in Seq(Tuples), NEW p, NEW v, NEW w,
         Solves(q, At(q, p), v), Solves(q, At(q, p), w)
  PROVE  \A k \in At(q, p) : v[k] = w[k]
  <1> DEFINE K == At(q, p)
             D == {k \in K : v[k] # w[k]}
  <1>1. SUFFICES ASSUME D # {} PROVE FALSE
    OBVIOUS
  <1>2. D \subseteq Nat
    BY AtPlaces
  <1>3. PICK m \in D : \A k \in D : m <= k
    BY <1>1, <1>2, LeastNat
  <1> DEFINE before == {l \in K : l < m}
  <1>4. v[m] = After(q, K, v, m) /\ w[m] = After(q, K, w, m) /\ v[m] # w[m]
    BY DEF Solves
  <1>5. before # {}
    BY <1>4 DEF After
  <1>6. Max(before) \in before
    BY <1>5, AtBefore
  <1>7. Max(before) \notin D
    BY <1>2, <1>3, <1>6
  <1>8. v[Max(before)] = w[Max(before)]
    BY <1>6, <1>7
  <1> QED BY <1>4, <1>5, <1>8 DEF After

\* So it is the one whose last value is built.
LEMMA BuiltIs ==
  ASSUME NEW q, q.tup \in Seq(Tuples), NEW p, At(q, p) # {},
         NEW v, Solves(q, At(q, p), v)
  PROVE  Built(q, NotIso, p) = v[Max(At(q, p))]
  <1> DEFINE K == At(q, p)
             w == CHOOSE w \in [K -> Val] : \A k \in K : w[k] = After(q, K, w, k)
  <1>1. Max(K) \in K
    BY AtPlaces
  <1>2. Solves(q, K, w)
    BY DEF Solves
  <1>3. Built(q, NotIso, p) = w[Max(K)]
    BY DEF Built, At
  <1> HIDE DEF w
  <1> QED BY <1>1, <1>2, <1>3, AfterUnique

\* There is such a function for each position of a matrix that is not iso.
LEMMA BuiltExists ==
  ASSUME NEW A \in Matrices, IsoOK(A), A.iso = NotIso, NEW p
  PROVE  \E v : Solves(A.pend, At(A.pend, p), v)
  <1> DEFINE K == At(A.pend, p)
  <1>1. A.pend \in PendingLists /\ A.pend.tup \in Seq(Tuples)
    BY DEF Matrices, PendingLists
  <1>2. \A k \in K : k \in Int /\ 1 <= k /\ k <= Len(A.pend.tup)
    BY <1>1, AtPlaces
  <1>3. \A k \in K : A.pend.tup[k].s \in Val
    <2>1. \A k \in DOMAIN A.pend.tup : A.pend.tup[k] \in Tuples /\ A.pend.tup[k].s # NoScalar
      BY <1>1 DEF IsoOK
    <2> QED BY <2>1 DEF Tuples, At
  <1> HIDE DEF K
  <1>4. \E v \in [K -> Val] : \A k \in K : v[k] = ValueAfter(A, K, v, k)
    BY <1>1, <1>2, <1>3, BuiltUpTo
  <1>5. \E v : Solves(A.pend, K, v)
    BY <1>4 DEF ValueAfter, After, Solves
  <1> QED BY <1>5 DEF K

\* q is a list that goes on with the operator and the type of that of A.
Continues(A, q) ==
  /\ q.tup \in Seq(Tuples) /\ q.op \in Ops /\ q.type \in Types
  /\ A.pend.tup # <<>> => q.op = A.pend.op /\ q.type = A.pend.type

\* q is the list of A with one more tuple.
Longer(A, q, new) == Continues(A, q) /\ q.tup = Append(A.pend.tup, new)

\* Its places of p are those in the list of A, and n if the new tuple is for p.
Places(A, q, new, p, n) ==
  /\ A.pend.tup \in Seq(Tuples) /\ n \in Nat
  /\ q.tup[n] = new /\ n \notin At(A.pend, p)
  /\ \A k \in At(A.pend, p) : q.tup[k] = A.pend.tup[k] /\ k < n /\ A.pend.tup # <<>>
  /\ new.pos = p => At(q, p) = At(A.pend, p) \cup {n}
  /\ new.pos # p => At(q, p) = At(A.pend, p)
  /\ p \in PendingPos(A) <=> At(A.pend, p) # {}

\* The longer list has these places.
LEMMA LongerPlaces ==
  ASSUME NEW A \in Matrices, NEW q, NEW new, Longer(A, q, new), NEW p,
         NEW n, n = Len(A.pend.tup) + 1
  PROVE  Places(A, q, new, p, n)
  <1> DEFINE tup == A.pend.tup
  <1>1. tup \in Seq(Tuples)
    BY DEF Matrices, PendingLists
  <1>2. /\ DOMAIN tup = 1 .. Len(tup) /\ DOMAIN q.tup = 1 .. n /\ Len(tup) \in Nat
        /\ \A k \in 1 .. Len(tup) : q.tup[k] = tup[k]
        /\ q.tup[n] = new /\ n \in Nat /\ n = Len(tup) + 1
    BY <1>1 DEF Longer, Continues
  <1>3. \A k \in At(A.pend, p) : k \in 1 .. Len(tup) /\ k < n /\ tup # <<>>
    <2>1. \A k \in At(A.pend, p) : k \in 1 .. Len(tup)
      BY <1>2 DEF At
    <2>2. tup = <<>> => Len(tup) = 0
      OBVIOUS
    <2> HIDE DEF tup
    <2> QED BY <1>2, <2>1, <2>2
  <1>4. n \notin At(A.pend, p)
    BY <1>2, <1>3
  <1>5. 1 .. n = (1 .. Len(tup)) \cup {n}
    BY <1>2
  <1>6. \A k : k \in At(q, p)
               <=> (k \in 1 .. Len(tup) /\ tup[k].pos = p) \/ (k = n /\ new.pos = p)
    <2> HIDE DEF tup
    <2> QED BY <1>2, <1>5 DEF At
  <1>7. \A k : k \in At(A.pend, p) <=> (k \in 1 .. Len(tup) /\ tup[k].pos = p)
    BY <1>2 DEF At
  <1>8. p \in PendingPos(A) <=> At(A.pend, p) # {}
    BY DEF PendingPos, At
  <1> QED BY <1>1, <1>2, <1>3, <1>4, <1>6, <1>7, <1>8 DEF Places

\* Tuples for other positions build what they did.
LEMMA BuiltOther ==
  ASSUME NEW A \in Matrices, IsoOK(A), A.iso = NotIso, NEW q, Continues(A, q),
         NEW new, NEW p \in PendingPos(A), NEW n, Places(A, q, new, p, n), new.pos # p
  PROVE  Built(q, NotIso, p) = Built(A.pend, NotIso, p)
  <1> DEFINE K == At(A.pend, p)
  <1>1. /\ A.pend.tup \in Seq(Tuples) /\ q.tup \in Seq(Tuples)
        /\ K # {} /\ At(q, p) = K
        /\ \A k \in K : q.tup[k] = A.pend.tup[k]
        /\ q.op = A.pend.op /\ q.type = A.pend.type
    BY DEF Places, Continues
  <1>2. PICK v : Solves(A.pend, K, v)
    BY BuiltExists
  <1>3. Built(A.pend, NotIso, p) = v[Max(K)]
    BY <1>1, <1>2, BuiltIs
  <1>4. Solves(q, K, v)
    <2> HIDE DEF K
    <2> QED BY <1>1, <1>2 DEF Solves, After
  <1>5. Built(q, NotIso, p) = v[Max(K)]
    BY <1>1, <1>4, BuiltIs
  <1> QED BY <1>3, <1>5

\* One more tuple for a position is applied to what the others build.
LEMMA BuiltNext ==
  ASSUME NEW A \in Matrices, IsoOK(A), A.iso = NotIso, NEW q, Continues(A, q),
         NEW new, new.s \in Val, NEW p, NEW n, Places(A, q, new, p, n), new.pos = p
  PROVE  Built(q, NotIso, p) = IF p \in PendingPos(A)
                               THEN Apply(q.op, Built(A.pend, NotIso, p), q.type, new.s)
                               ELSE Cast(q.type, new.s)
  <1> DEFINE K == At(A.pend, p)
             L == At(q, p)
  <1>1. /\ A.pend.tup \in Seq(Tuples) /\ q.tup \in Seq(Tuples) /\ n \in Nat
        /\ q.tup[n] = new /\ n \notin K /\ L = K \cup {n}
        /\ \A k \in K : q.tup[k] = A.pend.tup[k] /\ k < n /\ k \in Nat
        /\ K # {} => q.op = A.pend.op /\ q.type = A.pend.type
        /\ p \in PendingPos(A) <=> K # {}
        /\ q.op \in Ops /\ q.type \in Types
    <2>1. /\ A.pend.tup \in Seq(Tuples) /\ n \in Nat
          /\ q.tup[n] = new /\ n \notin K /\ L = K \cup {n}
          /\ \A k \in K : q.tup[k] = A.pend.tup[k] /\ k < n /\ A.pend.tup # <<>>
          /\ p \in PendingPos(A) <=> K # {}
      BY DEF Places
    <2>2. K \subseteq Nat
      BY <2>1, AtPlaces
    <2> HIDE DEF K, L
    <2> QED BY <2>1, <2>2 DEF Continues
  <1>2. PICK v : Solves(A.pend, K, v)
    BY BuiltExists
  <1>3. K # {} => Built(A.pend, NotIso, p) = v[Max(K)] /\ Max(K) \in K
    BY <1>1, <1>2, BuiltIs, AtPlaces
  <1>4. \A k \in K : {l \in K : l < k} # {} => Max({l \in K : l < k}) \in K
    BY <1>1, AtBefore
  <1>5. Max(L) = n
    <2>1. Max(L) \in L /\ Max(L) >= n
      BY <1>1, AtPlaces
    <2> HIDE DEF L, K
    <2> QED BY <1>1, <2>1
  <1> DEFINE last == IF K = {} THEN Cast(q.type, new.s)
                     ELSE Apply(q.op, v[Max(K)], q.type, new.s)
             w == [k \in L |-> IF k = n THEN last ELSE v[k]]
  <1>6. Solves(q, L, w)
    <2> HIDE DEF K, L
    <2>1. v \in [K -> Val] /\ \A k \in K : v[k] = After(A.pend, K, v, k)
      BY <1>2 DEF Solves
    <2>2. last \in Val
      BY <1>1, <1>3, <2>1, OpAssumption
    <2> HIDE DEF last
    <2>3. w \in [L -> Val] /\ w[n] = last /\ \A k \in K : w[k] = v[k]
      BY <1>1, <2>1, <2>2
    <2> HIDE DEF w
    <2>4. {l \in L : l < n} = K /\ \A k \in K : {l \in L : l < k} = {l \in K : l < k}
      BY <1>1
    <2>5. w[n] = After(q, L, w, n)
      BY <1>1, <1>3, <2>3, <2>4 DEF After, last
    <2>6. ASSUME NEW k \in K
          PROVE  w[k] = After(q, L, w, k)
      <3> DEFINE before == {l \in K : l < k}
      <3>1. {l \in L : l < k} = before /\ q.tup[k] = A.pend.tup[k]
            /\ q.op = A.pend.op /\ q.type = A.pend.type
        BY <1>1, <2>4
      <3>2. before # {} => w[Max(before)] = v[Max(before)]
        BY <1>4, <2>3
      <3>3. w[k] = After(A.pend, K, v, k)
        BY <2>1, <2>3
      <3>4. After(A.pend, K, v, k)
              = IF before = {} THEN Cast(A.pend.type, A.pend.tup[k].s)
                ELSE Apply(A.pend.op, v[Max(before)], A.pend.type, A.pend.tup[k].s)
        BY DEF After
      <3>5. After(q, L, w, k)
              = IF before = {} THEN Cast(q.type, q.tup[k].s)
                ELSE Apply(q.op, w[Max(before)], q.type, q.tup[k].s)
        BY <3>1 DEF After
      <3> HIDE DEF before
      <3> QED BY <3>1, <3>2, <3>3, <3>4, <3>5
    <2> QED BY <1>1, <2>3, <2>5, <2>6 DEF Solves
  <1>7. Built(q, NotIso, p) = w[n]
    <2>1. L # {}
      BY <1>1
    <2>2. q.tup \in Seq(Tuples)
      BY <1>1
    <2> HIDE DEF w
    <2>3. Built(q, NotIso, p) = w[Max(L)]
      BY <1>6, <2>1, <2>2, BuiltIs
    <2> QED BY <1>5, <2>3
  <1> QED BY <1>1, <1>3, <1>7

-----------------------------------------------------------------------------
(* GB_setElement *)

\* The view V once s is put at p.
Entered(V, p, s, t, accum) ==
  [V EXCEPT ![p] = IF accum # NoOp /\ V[p] # NoVal THEN Apply(accum, V[p], t, s)
                   ELSE Cast(t, s)]

\* What the user sees at one position.
LEMMA ViewAt ==
  ASSUME NEW A, Ready(A)
  PROVE  /\ DOMAIN View(A) = Pos /\ PendingPos(A) \subseteq Pos
         /\ \A p \in PendingPos(A) : View(A)[p] = Built(A.pend, A.iso, p) /\ View(A)[p] \in Val
         /\ \A p \in Pos : p \notin PendingPos(A) =>
              View(A)[p] = IF A.entry[p] \in Val THEN A.entry[p] ELSE NoVal
  <1>1. PendingPos(A) \subseteq Pos
    BY BuildView
  <1>2. \A p \in PendingPos(A) : Assembled(A, p) = Built(A.pend, A.iso, p)
                                 /\ Assembled(A, p) \in Val
    BY AssembledBuilt, AssembledType DEF Ready, Good
  <1> QED BY <1>1, <1>2 DEF View

\* A view is known by what it shows at each position.
LEMMA ViewIs ==
  ASSUME NEW A, Ready(A), NEW V, V = [p \in Pos |-> V[p]],
         \A p \in Pos : View(A)[p] = V[p]
  PROVE  View(A) = V
  <1>1. View(A) = [p \in Pos |-> View(A)[p]]
    BY DEF View
  <1> DEFINE W == View(A)
  <1> HIDE DEF W
  <1> QED BY <1>1 DEF W

\* The list that GB_Pending_add makes.
LEMMA AddedList ==
  ASSUME NEW A \in Matrices, NEW p \in Pos, NEW s \in Val, NEW t \in Types, NEW op \in Ops,
         NEW new, new = [pos |-> p, s |-> IF A.iso = NotIso THEN s ELSE NoScalar]
  PROVE  \E q : /\ PendingAdd(A, p, s, t, op)
                     = Done([A EXCEPT !.pend = q]) \cup NoMemory(PhybixFree(A))
                /\ Longer(A, q, new)
                /\ A.pend.tup = <<>> => q.op = op /\ q.type = t
  <1> DEFINE tup  == A.pend.tup
             prev == tup[Len(tup)].pos
             inOrder == prev[2] < p[2] \/ (prev[2] = p[2] /\ prev[1] <= p[1])
             list == IF tup = <<>>
                     THEN [op |-> op, type |-> t, sorted |-> TRUE, tup |-> <<new>>]
                     ELSE [A.pend EXCEPT !.sorted = @ /\ inOrder, !.tup = Append(@, new)]
  <1>1. A.pend \in PendingLists /\ tup \in Seq(Tuples)
    BY DEF Matrices, PendingLists
  <1>2. PendingAdd(A, p, s, t, op)
          = Done([A EXCEPT !.pend = list]) \cup NoMemory(PhybixFree(A))
    BY DEF PendingAdd
  <1>3. new \in Tuples
    BY DEF Tuples
  <1>4. /\ list.tup = Append(tup, new) /\ list.op \in Ops /\ list.type \in Types
        /\ tup # <<>> => list.op = A.pend.op /\ list.type = A.pend.type
        /\ tup = <<>> => list.op = op /\ list.type = t
    <2>1. CASE tup = <<>>
      <3>1. <<new>> = Append(tup, new)
        BY <1>3, <2>1
      <3> QED BY <2>1, <3>1
    <2>2. CASE tup # <<>>
      <3> HIDE DEF inOrder
      <3> QED BY <1>1, <2>2 DEF PendingLists
    <2> QED BY <2>1, <2>2
  <1> HIDE DEF list
  <1>5. Append(tup, new) \in Seq(Tuples)
    BY <1>1, <1>3
  <1>6. Longer(A, list, new)
    BY <1>4, <1>5 DEF Longer, Continues
  <1> QED BY <1>2, <1>4, <1>6

\* One more tuple is seen at its position, as setElement promises, and nowhere
\* else.
LEMMA LongerView ==
  ASSUME NEW A, Ready(A), NEW p \in Pos, A.entry[p] = Absent,
         NEW s \in Val, NEW t \in Types, NEW op \in Ops, Compatible(A, t, op),
         A.iso # NotIso => op = NoOp /\ Cast(t, s) = A.iso,
         NEW q, NEW new, new = [pos |-> p, s |-> IF A.iso = NotIso THEN s ELSE NoScalar],
         Longer(A, q, new), A.pend.tup = <<>> => q.op = op /\ q.type = t,
         NEW B, Ready(B), B.pend = q, B.iso = A.iso, B.entry = A.entry
  PROVE  View(B) = Entered(View(A), p, s, t, op)
  <1> DEFINE V == Entered(View(A), p, s, t, op)
             n == Len(A.pend.tup) + 1
  <1>1. /\ A \in Matrices /\ IsoOK(A) /\ A.iso \in Val \cup {NotIso}
        /\ A.pend.op \in Ops /\ new.pos = p /\ (A.iso = NotIso => new.s = s)
    BY DEF Ready, Good, Matrices, PendingLists
  <1>2. \A i : /\ Places(A, q, new, i, n)
               /\ i \in PendingPos(B) <=> At(q, i) # {}
    BY <1>1, LongerPlaces DEF PendingPos, At
  <1>3. p \in PendingPos(B) /\ \A i \in Pos \ {p} : i \in PendingPos(B) <=> i \in PendingPos(A)
    <2> HIDE DEF n
    <2> QED BY <1>1, <1>2 DEF Places
  <1>4. DOMAIN View(A) = Pos
    BY ViewAt
  <1>5. V = [i \in Pos |-> V[i]]
    BY <1>4 DEF Entered
  <1>6. ASSUME NEW i \in Pos, i # p
        PROVE  View(B)[i] = V[i]
    <2>1. V[i] = View(A)[i]
      BY <1>4, <1>6 DEF Entered
    <2>2. CASE i \in PendingPos(A)
      <3>1. Built(q, A.iso, i) = Built(A.pend, A.iso, i)
        <4>1. CASE A.iso # NotIso
          BY <4>1 DEF Built
        <4>2. CASE A.iso = NotIso
          BY <1>1, <1>2, <1>6, <2>2, <4>2, BuiltOther DEF Longer
        <4> QED BY <4>1, <4>2
      <3> QED BY <1>3, <1>6, <2>1, <2>2, <3>1, ViewAt
    <2>3. CASE i \notin PendingPos(A)
      BY <1>3, <1>6, <2>1, <2>3, ViewAt
    <2> QED BY <2>2, <2>3
  <1>7. View(B)[p] = Built(q, A.iso, p)
    BY <1>3, ViewAt
  <1>8. V[p] = IF op # NoOp /\ View(A)[p] # NoVal THEN Apply(op, View(A)[p], t, s)
               ELSE Cast(t, s)
    BY <1>4 DEF Entered
  <1> HIDE DEF V, n
  <1>9. A.iso = NotIso =>
           Built(q, NotIso, p) = IF p \in PendingPos(A)
                                 THEN Apply(q.op, Built(A.pend, NotIso, p), q.type, s)
                                 ELSE Cast(q.type, s)
    <2> SUFFICES ASSUME A.iso = NotIso
                 PROVE  Built(q, NotIso, p) = IF p \in PendingPos(A)
                                 THEN Apply(q.op, Built(A.pend, NotIso, p), q.type, s)
                                 ELSE Cast(q.type, s)
      OBVIOUS
    <2>1. Continues(A, q) /\ Places(A, q, new, p, n)
      BY <1>2 DEF Longer
    <2>2. new.s = s /\ new.s \in Val /\ new.pos = p /\ A \in Matrices /\ IsoOK(A)
      BY <1>1
    <2>3. Built(q, NotIso, p) = IF p \in PendingPos(A)
                                THEN Apply(q.op, Built(A.pend, NotIso, p), q.type, new.s)
                                ELSE Cast(q.type, new.s)
      BY ONLY A.iso = NotIso, <2>1, <2>2, BuiltNext
    <2> QED BY <2>2, <2>3
  <1>10. View(B)[p] = V[p]
    <2>1. CASE A.iso # NotIso
      BY <1>7, <1>8, <2>1 DEF Built
    <2>2. CASE A.iso = NotIso /\ p \notin PendingPos(A)
      <3>1. Built(q, NotIso, p) = Cast(q.type, s)
        BY <1>9, <2>2
      <3>2. View(A)[p] = NoVal
        BY <2>2, ViewAt, ValAssumption
      <3>3. q.type = t
        BY DEF Longer, Continues, Compatible, HasPending
      <3> QED BY <1>7, <1>8, <2>2, <3>1, <3>2, <3>3
    <2>3. CASE A.iso = NotIso /\ p \in PendingPos(A)
      <3>1. Built(q, NotIso, p) = Apply(q.op, View(A)[p], q.type, s)
        BY <1>9, <2>3, ViewAt
      <3>2. View(A)[p] \in Val /\ View(A)[p] # NoVal
        BY <2>3, ViewAt, CallsAssumption
      <3>3. A.pend.tup # <<>>
        BY <2>3 DEF PendingPos
      <3>4. q.type = t /\ (op = q.op \/ (IsSecond(op) /\ IsSecond(q.op)))
        BY <3>3 DEF Longer, Continues, Compatible, HasPending
      <3>5. op = NoOp => Apply(q.op, View(A)[p], t, s) = Cast(t, s)
        BY <3>2, <3>4, SecondAssumption DEF IsSecond
      <3>6. Apply(q.op, View(A)[p], t, s) = Apply(op, View(A)[p], t, s)
        BY <3>2, <3>4, SecondAssumption DEF IsSecond
      <3> QED BY <1>7, <1>8, <2>3, <3>1, <3>2, <3>4, <3>5, <3>6
    <2> QED BY <2>1, <2>2, <2>3
  <1>11. \A i \in Pos : View(B)[i] = V[i]
    BY <1>6, <1>10
  <1>12. View(B) = V
    BY <1>5, <1>11, ViewIs
  <1> QED BY <1>12 DEF V

\* GB_Pending_add.
LEMMA ShowsPendingAdd ==
  ASSUME NEW A, Ready(A), A.fmt \in {"hyper", "sparse"}, NEW p \in Pos, InRange(A, p),
         A.entry[p] = Absent, NEW s \in Val, NEW t \in Types, NEW op \in Ops,
         Compatible(A, t, op), A.iso # NotIso => op = NoOp /\ Cast(t, s) = A.iso,
         NEW r \in PendingAdd(A, p, s, t, op)
  PROVE  Shows(A, Entered(View(A), p, s, t, op), r)
  <1> DEFINE new == [pos |-> p, s |-> IF A.iso = NotIso THEN s ELSE NoScalar]
             V == Entered(View(A), p, s, t, op)
  <1>1. A \in Matrices
    BY DEF Ready, Good
  <1>2. PICK q : /\ PendingAdd(A, p, s, t, op)
                      = Done([A EXCEPT !.pend = q]) \cup NoMemory(PhybixFree(A))
                 /\ Longer(A, q, new)
                 /\ A.pend.tup = <<>> => q.op = op /\ q.type = t
    BY <1>1, AddedList
  <1> DEFINE B == [A EXCEPT !.pend = q]
             d == [m |-> B, info |-> "SUCCESS"]
  <1>3. d \in PendingAdd(A, p, s, t, op) /\ d.m = B /\ d.info = "SUCCESS"
    BY <1>2 DEF Done
  <1>4. Ready(B)
    <2> HIDE DEF d, B
    <2> QED BY <1>3, ReadyPendingAdd DEF Ready
  <1>5. B.pend = q /\ B.iso = A.iso /\ B.entry = A.entry /\ B.vlen = A.vlen /\ B.vdim = A.vdim
    BY <1>1 DEF Matrices
  <1>6. r \in Done(B) \/ r \in NoMemory(PhybixFree(A))
    BY <1>2
  <1> HIDE DEF B, d
  <1>7. View(B) = V
    <2>1. Longer(A, q, new) /\ (A.pend.tup = <<>> => q.op = op /\ q.type = t)
      BY <1>2
    <2>2. new = [pos |-> p, s |-> IF A.iso = NotIso THEN s ELSE NoScalar]
      OBVIOUS
    <2> HIDE DEF new
    <2> QED BY <1>4, <1>5, <2>1, <2>2, LongerView
  <1> HIDE DEF V
  <1>8. Shows(A, V, r)
    BY <1>1, <1>4, <1>5, <1>6, <1>7, ShowsDone, ShowsFreed
  <1> QED BY <1>8 DEF V

\* An iso matrix can take the scalar s: its value is s, and no operator is
\* applied.
Suited(A, s, t, accum) == A.iso # NotIso => accum = NoOp /\ Cast(t, s) = A.iso

\* The entry that is found is updated as setElement promises, and no other.
LEMMA ShowsUpdateEntry ==
  ASSUME NEW A, Ready(A), NEW p \in Pos, InRange(A, p), EntryFound(A, p),
         NEW s \in Val, NEW t \in Types, NEW accum \in Ops, Suited(A, s, t, accum),
         NEW r \in Done(UpdateEntry(A, p, s, t, accum))
  PROVE  Shows(A, Entered(View(A), p, s, t, accum), r)
  <1> DEFINE old == A.entry[p]
             new == IF A.iso # NotIso THEN A.iso
                    ELSE IF accum = NoOp \/ old \in {Absent, Zombie} THEN Cast(t, s)
                    ELSE Apply(accum, old, t, s)
             B == UpdateEntry(A, p, s, t, accum)
             V == Entered(View(A), p, s, t, accum)
  <1>1. /\ A \in Matrices /\ A.valid /\ StructureOK(A) /\ WorkOK(A)
        /\ A.entry \in [Pos -> Val \cup {Absent, Zombie}]
    BY DEF Ready, Good, Matrices
  <1>2. Ready(B) /\ Fits(A, B)
    BY ReadyUpdateEntry
  <1>3. B.entry = [A.entry EXCEPT ![p] = new] /\ B.pend = A.pend /\ B.iso = A.iso
    BY <1>1 DEF UpdateEntry, Matrices
  <1> HIDE DEF B
  <1>4. p \notin PendingPos(A) /\ PendingPos(B) = PendingPos(A)
    <2>1. A.fmt \in {"hyper", "sparse"} => p \notin PendingPos(A)
      BY <1>1 DEF WorkOK, PendingDisjoint, EntryFound
    <2>2. A.fmt \in {"bitmap", "full"} => A.pend.tup = <<>>
      BY <1>1 DEF WorkOK, DenseSettled, AnyPendingWork, HasPending
    <2> QED BY <1>1, <1>3, <2>1, <2>2 DEF Matrices, Formats, PendingPos
  <1>5. new \in Val /\ old \in Val \cup {Absent, Zombie}
    BY <1>1, OpAssumption DEF Matrices
  <1>6. DOMAIN View(A) = Pos
    BY ViewAt
  <1>7. V = [i \in Pos |-> V[i]]
    BY <1>6 DEF Entered
  <1>8. ASSUME NEW i \in Pos, i # p
        PROVE  View(B)[i] = V[i]
    <2>1. V[i] = View(A)[i] /\ B.entry[i] = A.entry[i]
      BY <1>1, <1>3, <1>6, <1>8 DEF Entered
    <2> HIDE DEF V
    <2>2. CASE i \in PendingPos(A)
      <3>1. View(B)[i] = Built(A.pend, A.iso, i)
        BY <1>2, <1>3, <1>4, <2>2, ViewAt
      <3> QED BY <2>1, <2>2, <3>1, ViewAt
    <2>3. CASE i \notin PendingPos(A)
      BY <1>2, <1>4, <2>1, <2>3, ViewAt
    <2> QED BY <2>2, <2>3
  <1>9. View(B)[p] = V[p]
    <2>1. B.entry[p] = new
      BY <1>1, <1>3
    <2>2. View(B)[p] = new
      BY <1>2, <1>4, <1>5, <2>1, ViewAt
    <2>3. View(A)[p] = IF old \in Val THEN old ELSE NoVal
      BY <1>4, ViewAt
    <2>4. V[p] = IF accum # NoOp /\ View(A)[p] # NoVal THEN Apply(accum, View(A)[p], t, s)
                 ELSE Cast(t, s)
      BY <1>6 DEF Entered
    <2>5. old \in Val <=> old \notin {Absent, Zombie}
      BY <1>5, ValAssumption
    <2>6. NoVal \notin Val
      BY CallsAssumption
    <2> HIDE DEF V, old
    <2> QED BY <2>2, <2>3, <2>4, <2>5, <2>6 DEF Suited
  <1>10. View(B) = V
    <2> HIDE DEF V
    <2> QED BY <1>2, <1>7, <1>8, <1>9, ViewIs
  <1>11. r \in Done(B)
    BY DEF B
  <1> HIDE DEF V
  <1>12. Shows(A, V, r)
    BY <1>2, <1>10, <1>11, ShowsDone DEF Fits
  <1> QED BY <1>12 DEF V

\* Each tuple that is given the iso value builds the iso value.
LEMMA BuiltIso ==
  ASSUME NEW q, q.tup \in Seq(Tuples), q.op = NoOp, q.type = CType, NEW x \in Val,
         \A k \in DOMAIN q.tup : q.tup[k].s = x, NEW p, At(q, p) # {}
  PROVE  Built(q, NotIso, p) = x
  <1> DEFINE K == At(q, p)
             v == [k \in K |-> x]
  <1>1. Max(K) \in K
    BY AtPlaces
  <1>2. ASSUME NEW k \in K
        PROVE  v[k] = After(q, K, v, k)
    <2>1. {l \in K : l < k} # {} => v[Max({l \in K : l < k})] = x
      BY AtBefore
    <2>2. q.tup[k].s = x
      BY DEF At
    <2>3. Cast(CType, x) = x /\ Apply(NoOp, x, CType, x) = x
      BY SecondAssumption, OpAssumption
    <2>4. v[k] = x
      OBVIOUS
    <2> HIDE DEF v, K
    <2> QED BY <2>1, <2>2, <2>3, <2>4 DEF After
  <1>3. v \in [K -> Val]
    OBVIOUS
  <1>4. Solves(q, K, v)
    <2> HIDE DEF v, K
    <2> QED BY <1>2, <1>3 DEF Solves
  <1>5. v[Max(K)] = x
    BY <1>1
  <1> HIDE DEF v
  <1> QED BY <1>4, <1>5, BuiltIs

\* A matrix that differs in its iso value and in its list looks the same, if
\* the list is for the same positions and builds the same values.
LEMMA ViewRelisted ==
  ASSUME NEW A, Ready(A), NEW B, Ready(B), B.entry = A.entry,
         \A i : At(B.pend, i) # {} <=> At(A.pend, i) # {},
         \A i \in PendingPos(A) : Built(B.pend, B.iso, i) = Built(A.pend, A.iso, i)
  PROVE  View(B) = View(A)
  <1>1. \A i : i \in PendingPos(B) <=> i \in PendingPos(A)
    BY DEF PendingPos, At
  <1>2. \A i \in Pos : View(B)[i] = View(A)[i]
    BY <1>1, ViewAt
  <1>3. View(A) = [i \in Pos |-> View(A)[i]]
    BY DEF View
  <1> DEFINE V == View(A)
  <1> HIDE DEF V
  <1>4. View(B) = V
    BY <1>2, <1>3, ViewIs DEF V
  <1> QED BY <1>4 DEF V

\* GB_convert_any_to_non_iso: each entry, and each tuple, gets the iso value.
LEMMA KeepingNonIso ==
  ASSUME NEW A, Ready(A)
  PROVE  /\ Keeping(A, AnyToNonIso(A))
         /\ \A r \in AnyToNonIso(A) : r.info = "SUCCESS" => r.m.iso = NotIso
  <1> DEFINE typed == [A.pend EXCEPT !.type = CType]
             list == [k \in DOMAIN A.pend.tup |-> [A.pend.tup[k] EXCEPT !.s = A.iso]]
             withX == [typed EXCEPT !.tup = list]
             B == [A EXCEPT !.iso = NotIso]
             D == [A EXCEPT !.iso = NotIso, !.pend = withX]
             E == [A EXCEPT !.pend = typed]
  <1>1. /\ A \in Matrices /\ IsoOK(A) /\ A.iso \in Val \cup {NotIso}
        /\ A.pend \in PendingLists /\ A.pend.tup \in Seq(Tuples)
    BY DEF Ready, Good, Matrices, PendingLists
  <1>2. typed.tup = A.pend.tup /\ typed.op = A.pend.op /\ typed.type = CType
    BY <1>1 DEF PendingLists
  <1>3. withX.tup = list /\ withX.op = A.pend.op /\ withX.type = CType
    BY <1>1 DEF PendingLists
  <1>4. AnyToNonIso(A)
          = IF A.iso = NotIso THEN Done(A)
            ELSE IF ~HasPending(A) THEN Done(B) \cup NoMemory(PhybixFree(A))
            ELSE Done(D) \cup NoMemory(PhybixFree(A)) \cup NoMemory(E)
    <2>1. withX = [typed EXCEPT !.tup = [k \in DOMAIN @ |-> [@[k] EXCEPT !.s = A.iso]]]
      BY <1>1, <1>2 DEF PendingLists
    <2> HIDE DEF typed, list, withX
    <2> QED BY <2>1 DEF AnyToNonIso, typed
  <1> HIDE DEF typed, withX
  <1>5. /\ B.entry = A.entry /\ B.pend = A.pend /\ B.iso = NotIso
        /\ D.entry = A.entry /\ D.pend = withX /\ D.iso = NotIso
        /\ E.entry = A.entry /\ E.pend = typed /\ E.iso = A.iso
        /\ B.vlen = A.vlen /\ B.vdim = A.vdim /\ D.vlen = A.vlen /\ D.vdim = A.vdim
        /\ E.vlen = A.vlen /\ E.vdim = A.vdim /\ E.valid = A.valid
        /\ B.valid = A.valid /\ D.valid = A.valid
    BY <1>1 DEF Matrices
  <1>6. Safe(A, AnyToNonIso(A))
    BY SafeAnyToNonIso
  <1> HIDE DEF B, D, E
  <1>7. ASSUME NEW r \in AnyToNonIso(A)
        PROVE  Shows(A, View(A), r) /\ (r.info = "SUCCESS" => r.m.iso = NotIso)
    <2>1. r \in Outcomes /\ Good(r.m) /\ (r.info = "SUCCESS" => r.m.valid)
      BY <1>6, <1>7 DEF Safe
    <2>2. CASE A.iso = NotIso
      BY <1>4, <1>7, <2>2, ShowsDone DEF Done
    <2>3. CASE A.iso # NotIso /\ r \in NoMemory(PhybixFree(A))
      BY <1>1, <2>3, ShowsFreed DEF NoMemory
    <2>4. CASE A.iso # NotIso /\ ~HasPending(A) /\ r \in Done(B)
      <3>1. Ready(B) /\ ~HasPending(B)
        BY <1>5, <2>1, <2>4 DEF Done, Ready, HasPending
      <3>2. View(B) = View(A)
        BY <1>5, <2>4, <3>1, PlainView
      <3> QED BY <1>5, <2>4, <3>1, <3>2, ShowsDone DEF Done
    <2>5. CASE A.iso # NotIso /\ HasPending(A) /\ r \in Done(D)
      <3>1. Ready(D)
        BY <2>1, <2>5 DEF Done, Ready
      <3>2. DOMAIN withX.tup = DOMAIN A.pend.tup
            /\ \A k \in DOMAIN withX.tup : withX.tup[k].s = A.iso
                                           /\ withX.tup[k].pos = A.pend.tup[k].pos
        <4>1. \A k \in DOMAIN A.pend.tup : A.pend.tup[k] \in Tuples
          BY <1>1
        <4>2. \A k \in DOMAIN A.pend.tup : /\ [A.pend.tup[k] EXCEPT !.s = A.iso].s = A.iso
                                          /\ [A.pend.tup[k] EXCEPT !.s = A.iso].pos
                                               = A.pend.tup[k].pos
          BY <4>1 DEF Tuples
        <4> QED BY <1>3, <4>2
      <3>3. \A i : At(withX, i) = At(A.pend, i)
        <4> HIDE DEF list
        <4> QED BY <3>2 DEF At
      <3>4. withX.tup \in Seq(Tuples) /\ withX.op = NoOp /\ A.iso \in Val
        BY <1>1, <1>3, <1>5, <2>5, <3>1 DEF Ready, Good, Matrices, PendingLists, IsoOK
      <3>5. ASSUME NEW i \in PendingPos(A)
            PROVE  Built(withX, NotIso, i) = Built(A.pend, A.iso, i)
        <4>1. At(withX, i) # {}
          BY <3>3, <3>5 DEF PendingPos, At
        <4>2. Built(withX, NotIso, i) = A.iso
          BY <1>3, <3>2, <3>4, <4>1, BuiltIso
        <4> QED BY <2>5, <4>2 DEF Built
      <3>6. View(D) = View(A)
        BY <1>5, <3>1, <3>3, <3>5, ViewRelisted
      <3> QED BY <1>5, <2>5, <3>1, <3>6, ShowsDone DEF Done
    <2>6. CASE A.iso # NotIso /\ HasPending(A) /\ r \in NoMemory(E)
      <3>1. Ready(E)
        BY <1>5, <2>1, <2>6 DEF NoMemory, Ready
      <3>2. View(E) = View(A)
        BY <1>2, <1>5, <2>6, <3>1, ViewRelisted DEF At, Built
      <3> QED BY <1>5, <2>6, <3>1, <3>2, ShowsDone DEF NoMemory
    <2> QED BY <1>4, <1>7, <2>2, <2>3, <2>4, <2>5, <2>6
  <1> QED BY <1>7 DEF Keeping

\* What GB_setElement does to the iso status is not seen, and an iso matrix
\* then is suited to the scalar.
LEMMA KeepingSetIsoStatus ==
  ASSUME NEW A, Ready(A), NEW s \in Val, NEW t \in Types, NEW accum
  PROVE  /\ Keeping(A, SetIsoStatus(A, s, t, accum))
         /\ \A r \in SetIsoStatus(A, s, t, accum) :
              r.info = "SUCCESS" => Suited(r.m, s, t, accum)
  <1> DEFINE differs == A.iso # NotIso /\ (accum # NoOp \/ Cast(t, s) # A.iso)
             first == /\ A.iso = NotIso /\ Nnz(A) = 0 /\ A.fmt # "full"
                      /\ ~HasPending(A) /\ accum = NoOp
             B == [A EXCEPT !.iso = Cast(t, s)]
  <1>1. A \in Matrices
    BY DEF Ready, Good
  <1>2. Safe(A, SetIsoStatus(A, s, t, accum))
    BY SafeSetIsoStatus
  <1>3. ASSUME NEW r \in SetIsoStatus(A, s, t, accum)
        PROVE  Shows(A, View(A), r) /\ (r.info = "SUCCESS" => Suited(r.m, s, t, accum))
    <2>1. CASE differs
      <3>1. r \in AnyToNonIso(A)
        BY <1>3, <2>1 DEF SetIsoStatus
      <3> QED BY <3>1, KeepingNonIso DEF Keeping, Suited
    <2>2. CASE ~differs /\ ~first
      <3>1. r \in Done(A)
        BY <1>3, <2>2 DEF SetIsoStatus
      <3> QED BY <2>2, <3>1, ShowsDone DEF Done, Suited
    <2>3. CASE first
      <3>1. r \in Done(B) \/ r \in NoMemory(PhybixFree(A))
        BY <1>3, <2>3 DEF SetIsoStatus, AnyToIso
      <3>2. B.entry = A.entry /\ B.pend = A.pend /\ B.vlen = A.vlen /\ B.vdim = A.vdim
            /\ B.iso = Cast(t, s)
        BY <1>1 DEF Matrices
      <3> HIDE DEF B
      <3>3. CASE r \in Done(B)
        <4>1. Ready(B)
          BY <1>2, <1>3, <3>3 DEF Safe, Done, Ready
        <4>2. View(B) = View(A)
          BY <2>3, <3>2, PlainView DEF HasPending
        <4> QED BY <2>3, <3>2, <3>3, <4>1, <4>2, ShowsDone DEF Done, Suited
      <3>4. CASE r \in NoMemory(PhybixFree(A))
        BY <1>1, <3>4, ShowsFreed DEF NoMemory
      <3> QED BY <3>1, <3>3, <3>4
    <2> QED BY <2>1, <2>2, <2>3
  <1> QED BY <1>3 DEF Keeping

\* Updating the entry, or adding a tuple and GB_block, puts the scalar in the
\* view.
LEMMA ShowsPutElement ==
  ASSUME NEW A, Ready(A), ~A.jumbled, NEW p \in Pos, InRange(A, p),
         NEW s \in Val, NEW t \in Types, NEW accum \in Ops, Suited(A, s, t, accum),
         EntryFound(A, p) \/ Compatible(A, t, accum),
         NEW r \in PutElement(A, p, s, t, accum)
  PROVE  Shows(A, Entered(View(A), p, s, t, accum), r)
  <1> DEFINE V == Entered(View(A), p, s, t, accum)
  <1>1. CASE EntryFound(A, p)
    BY <1>1, ShowsUpdateEntry DEF PutElement
  <1>2. CASE ~EntryFound(A, p)
    <2>1. PICK q \in PendingAdd(A, p, s, t, accum) : r \in Then(q, Block(q.m))
      BY <1>2 DEF PutElement
    <2>2. A.entry[p] = Absent /\ A.fmt \in {"hyper", "sparse"}
      BY <1>2, NotFoundAbsent
    <2>3. Shows(A, V, q)
      BY <1>2, <2>2, ShowsPendingAdd DEF Suited
    <2> HIDE DEF V
    <2>4. ASSUME q.info = "SUCCESS", NEW x \in Block(q.m)
          PROVE  Shows(q.m, V, x)
      <3>1. Ready(q.m) /\ View(q.m) = V
        BY <2>3, <2>4 DEF Shows, Ready
      <3> QED BY <2>4, <3>1, KeepingWaiters DEF Keeping
    <2>5. Shows(A, V, r)
      BY <2>1, <2>3, <2>4, ShowsStep
    <2> QED BY <2>5 DEF V
  <1> QED BY <1>1, <1>2

\* SetIsoStatus, and what follows it, of a matrix that is not jumbled and has
\* no tuples that are not compatible.
LEMMA ShowsAgain ==
  ASSUME NEW A, Ready(A), ~A.jumbled, ~HasPending(A), NEW p \in Pos, InRange(A, p),
         NEW s \in Val, NEW t \in Types, NEW accum \in Ops,
         NEW q \in SetIsoStatus(A, s, t, accum),
         NEW r \in Then(q, PutElement(q.m, p, s, t, accum))
  PROVE  Shows(A, Entered(View(A), p, s, t, accum), r)
  <1> DEFINE V == Entered(View(A), p, s, t, accum)
  <1>1. Shows(A, View(A), q) /\ (q.info = "SUCCESS" => Suited(q.m, s, t, accum))
    BY KeepingSetIsoStatus DEF Keeping
  <1>2. Fits(A, q.m)
    BY SafeSetIsoStatus DEF Safe
  <1>3. ASSUME q.info = "SUCCESS", NEW x \in PutElement(q.m, p, s, t, accum)
        PROVE  Shows(q.m, V, x)
    <2>1. Ready(q.m) /\ View(q.m) = View(A)
      BY <1>1, <1>3 DEF Shows, Ready
    <2>2. ~q.m.jumbled /\ InRange(q.m, p) /\ Compatible(q.m, t, accum)
      BY <1>2 DEF Fits, InRange, Compatible
    <2>3. Shows(q.m, Entered(View(q.m), p, s, t, accum), x)
      BY <1>1, <1>3, <2>1, <2>2, ShowsPutElement
    <2> QED BY <2>1, <2>3
  <1> HIDE DEF V
  <1>4. Shows(A, V, r)
    BY <1>1, <1>3, ShowsStep
  <1> QED BY <1>4 DEF V

\* GB_setElement of a matrix that is not jumbled.
LEMMA ShowsSetUnjumbled ==
  ASSUME NEW A, Ready(A), ~A.jumbled, NEW p \in Pos, InRange(A, p),
         NEW s \in Val, NEW t \in Types, NEW accum \in Ops,
         NEW r \in SetUnjumbled(A, p, s, t, accum)
  PROVE  Shows(A, Entered(View(A), p, s, t, accum), r)
  <1> DEFINE V == Entered(View(A), p, s, t, accum)
             again(B) == UNION {Then(x, PutElement(x.m, p, s, t, accum))
                                  : x \in SetIsoStatus(B, s, t, accum)}
             put(B) == IF ~EntryFound(B, p) /\ ~Compatible(B, t, accum)
                       THEN UNION {Then(x, again(x.m)) : x \in Wait(B)}
                       ELSE PutElement(B, p, s, t, accum)
  <1>1. PICK q \in SetIsoStatus(A, s, t, accum) : r \in Then(q, put(q.m))
    BY DEF SetUnjumbled
  <1>2. Shows(A, View(A), q) /\ (q.info = "SUCCESS" => Suited(q.m, s, t, accum))
    BY KeepingSetIsoStatus DEF Keeping
  <1>3. Fits(A, q.m)
    BY SafeSetIsoStatus DEF Safe
  <1>4. ASSUME q.info = "SUCCESS", NEW x \in put(q.m)
        PROVE  Shows(q.m, V, x)
    <2> DEFINE B == q.m
    <2>1. Ready(B) /\ View(B) = View(A) /\ ~B.jumbled /\ InRange(B, p)
          /\ Suited(B, s, t, accum)
      BY <1>2, <1>3, <1>4 DEF Shows, Ready, Fits, InRange
    <2>2. \/ x \in PutElement(B, p, s, t, accum)
             /\ (EntryFound(B, p) \/ Compatible(B, t, accum))
          \/ \E y \in Wait(B) : x \in Then(y, again(y.m))
      BY <1>4
    <2> SUFFICES Shows(B, V, x)
      OBVIOUS
    <2> HIDE DEF B, again
    <2>3. CASE /\ x \in PutElement(B, p, s, t, accum)
               /\ EntryFound(B, p) \/ Compatible(B, t, accum)
      BY <2>1, <2>3, ShowsPutElement
    <2>4. ASSUME NEW y \in Wait(B), x \in Then(y, again(y.m))
          PROVE  Shows(B, V, x)
      <3>1. Shows(B, View(B), y) /\ ~AnyPendingWork(y.m)
        BY <2>1, KeepingWait DEF Keeping
      <3>2. ASSUME y.info = "SUCCESS", NEW z \in again(y.m)
            PROVE  Shows(y.m, V, z)
        <4>1. Ready(y.m) /\ View(y.m) = View(A) /\ InRange(y.m, p)
          BY <2>1, <3>1, <3>2 DEF Shows, Ready, InRange
        <4>2. ~y.m.jumbled /\ ~HasPending(y.m)
          BY <3>1 DEF AnyPendingWork
        <4>3. PICK w \in SetIsoStatus(y.m, s, t, accum) :
                z \in Then(w, PutElement(w.m, p, s, t, accum))
          BY <3>2 DEF again
        <4>4. Shows(y.m, Entered(View(y.m), p, s, t, accum), z)
          BY <4>1, <4>2, <4>3, ShowsAgain
        <4> QED BY <4>1, <4>4
      <3> DEFINE S == again(y.m)
      <3>3. x \in Then(y, S)
        BY <2>4
      <3> HIDE DEF V, S
      <3> QED BY <3>1, <3>2, <3>3, ShowsStep DEF S
    <2> QED BY <2>2, <2>3, <2>4
  <1> DEFINE S == put(q.m)
  <1>5. r \in Then(q, S)
    BY <1>1
  <1> HIDE DEF V, put, S
  <1>6. Shows(A, V, r)
    BY <1>2, <1>4, <1>5, ShowsStep DEF S
  <1> QED BY <1>6 DEF V

\* GB_setElement of a position of the matrix.
LEMMA ShowsSetElement ==
  ASSUME NEW A, Ready(A), NEW p \in Nat \X Nat, InRange(A, p),
         NEW s \in Val, NEW t \in Types, NEW accum \in Ops,
         NEW r \in SetElement(A, p, s, t, accum)
  PROVE  Shows(A, Entered(View(A), p, s, t, accum), r)
  <1> DEFINE V == Entered(View(A), p, s, t, accum)
  <1>1. PICK q \in WaitIf(A.jumbled, A) : r \in Then(q, SetUnjumbled(q.m, p, s, t, accum))
    BY DEF SetElement
  <1>2. p \in Pos
    BY InRangePos DEF Ready, Good
  <1>3. Shows(A, View(A), q)
    BY KeepingWaiters DEF Keeping
  <1>4. q.info = "SUCCESS" => ~q.m.jumbled
    BY KeepingWait DEF WaitIf, AnyPendingWork, Done
  <1>5. ASSUME q.info = "SUCCESS", NEW x \in SetUnjumbled(q.m, p, s, t, accum)
        PROVE  Shows(q.m, V, x)
    <2>1. Ready(q.m) /\ View(q.m) = View(A) /\ InRange(q.m, p)
      BY <1>3, <1>5 DEF Shows, Ready, InRange
    <2>2. Shows(q.m, Entered(View(q.m), p, s, t, accum), x)
      BY <1>2, <1>4, <1>5, <2>1, ShowsSetUnjumbled
    <2> QED BY <2>1, <2>2
  <1> HIDE DEF V
  <1>6. Shows(A, V, r)
    BY <1>1, <1>3, <1>5, ShowsStep
  <1> QED BY <1>6 DEF V

-----------------------------------------------------------------------------
(* GB_Matrix_removeElement *)

\* What is left of the view once nothing is at p.
Removed(V, p) == [V EXCEPT ![p] = NoVal]

\* GB_removeElement of a matrix that is not full: the entry is gone.
LEMMA ShowsTryRemove ==
  ASSUME NEW A, Ready(A), ~A.jumbled, NEW p \in Pos, EntryFound(A, p) \/ ~HasPending(A),
         NEW r \in TryRemove(A, p), r.info # "CRASH"
  PROVE  Shows(A, Removed(View(A), p), r)
  <1> DEFINE V == Removed(View(A), p)
             B == DeleteEntry(A, p)
  <1>1. /\ A \in Matrices /\ A.valid /\ StructureOK(A) /\ WorkOK(A)
        /\ A.entry \in [Pos -> Val \cup {Absent, Zombie}]
    BY DEF Ready, Good, Matrices
  <1>2. A.fmt # "full" /\ (r \in Done(B) \/ (r \in Done(A) /\ ~EntryFound(A, p)))
    BY DEF TryRemove
  <1>3. DOMAIN View(A) = Pos
    BY ViewAt
  <1>4. V = [i \in Pos |-> V[i]] /\ V[p] = NoVal /\ \A i \in Pos : i # p => V[i] = View(A)[i]
    BY <1>3 DEF Removed
  <1>5. p \notin PendingPos(A)
    <2>1. A.fmt \in {"hyper", "sparse"} /\ EntryFound(A, p) => A.entry[p] # Absent
      BY DEF EntryFound
    <2>2. A.fmt = "bitmap" => ~HasPending(A)
      BY <1>1 DEF WorkOK, DenseSettled, AnyPendingWork
    <2>3. ~HasPending(A) => PendingPos(A) = {}
      BY PlainView
    <2> QED BY <1>1, <1>2, <2>1, <2>2, <2>3 DEF Matrices, Formats, WorkOK, PendingDisjoint
  <1>6. ASSUME r \in Done(A), ~EntryFound(A, p)
        PROVE  View(A) = V
    <2>1. A.entry[p] = Absent
      BY <1>6, NotFoundAbsent
    <2>2. View(A)[p] = NoVal
      BY <1>5, <2>1, ViewAt, ValAssumption
    <2> HIDE DEF V
    <2> QED BY <1>4, <2>2, ViewIs
  <1>7. Ready(B) /\ B.pend = A.pend /\ B.vlen = A.vlen /\ B.vdim = A.vdim
    BY <1>2, ReadyDeleteEntry
  <1>8. /\ \A i \in Pos : i # p => B.entry[i] = A.entry[i]
        /\ B.entry[p] \notin Val /\ B.iso = A.iso
    BY <1>1, ValAssumption DEF DeleteEntry, Matrices
  <1> HIDE DEF B, V
  <1>9. PendingPos(B) = PendingPos(A)
    BY <1>7 DEF PendingPos
  <1>10. ASSUME NEW i \in Pos
         PROVE  View(B)[i] = V[i]
    <2>1. CASE i = p
      BY <1>4, <1>5, <1>7, <1>8, <1>9, <2>1, ViewAt
    <2>2. CASE i # p /\ i \in PendingPos(A)
      <3>1. View(B)[i] = Built(A.pend, A.iso, i)
        BY <1>7, <1>8, <1>9, <2>2, ViewAt
      <3> QED BY <1>4, <2>2, <3>1, ViewAt
    <2>3. CASE i # p /\ i \notin PendingPos(A)
      BY <1>4, <1>7, <1>8, <1>9, <2>3, ViewAt
    <2> QED BY <2>1, <2>2, <2>3
  <1>11. View(B) = V
    BY <1>4, <1>7, <1>10, ViewIs
  <1>12. Shows(A, V, r)
    BY <1>2, <1>6, <1>7, <1>11, ShowsDone
  <1> QED BY <1>12 DEF V

\* A full matrix becomes one that GB_removeElement can search, and a jumbled
\* one is sorted.
LEMMA KeepingPrepareRemove ==
  ASSUME NEW A, Ready(A)
  PROVE  /\ Keeping(A, PrepareRemove(A))
         /\ \A r \in PrepareRemove(A) : r.info = "SUCCESS" => ~r.m.jumbled
  <1> DEFINE nonfull(B) == IF B.fmt = "full" THEN FullToNonfull(B) ELSE Done(B)
  <1>1. ASSUME NEW B, Ready(B), ~B.jumbled, NEW r \in nonfull(B)
        PROVE  Shows(B, View(B), r) /\ ~r.m.jumbled
    <2>1. CASE B.fmt = "full"
      <3>1. r \in FullToNonfull(B)
        BY <1>1, <2>1
      <3>2. Safe(B, FullToNonfull(B))
        BY <1>1, <2>1, SafeFullToNonfull
      <3>3. Alike(B, B) /\ B.fmt \in Formats
        BY <1>1, AlikeSelf DEF Ready, Good, Matrices
      <3>4. Retains(B, r)
        BY <3>1, <3>3, RetainsConversion, RetainsAnyTo DEF FullToNonfull
      <3> QED BY <1>1, <3>1, <3>2, <3>4, KeepingRetained DEF Safe, Fits
    <2>2. CASE B.fmt # "full"
      <3>1. r \in Done(B)
        BY <1>1, <2>2
      <3> QED BY <1>1, <3>1, ShowsDone DEF Done
    <2> QED BY <2>1, <2>2
  <1>2. PrepareRemove(A) = UNION {Then(r, nonfull(r.m)) : r \in WaitIf(A.jumbled, A)}
    BY DEF PrepareRemove
  <1> HIDE DEF nonfull
  <1>3. ASSUME NEW r \in PrepareRemove(A)
        PROVE  Shows(A, View(A), r) /\ (r.info = "SUCCESS" => ~r.m.jumbled)
    <2>1. PICK q \in WaitIf(A.jumbled, A) : r \in Then(q, nonfull(q.m))
      BY <1>2, <1>3
    <2>2. Shows(A, View(A), q)
      BY KeepingWaiters DEF Keeping
    <2>3. q.info = "SUCCESS" => ~q.m.jumbled /\ Ready(q.m) /\ View(q.m) = View(A)
      BY <2>2, KeepingWait DEF WaitIf, AnyPendingWork, Done, Shows, Ready
    <2>4. q.info = "SUCCESS" => \A s \in nonfull(q.m) : Shows(q.m, View(A), s) /\ ~s.m.jumbled
      BY <1>1, <2>3
    <2>5. Shows(A, View(A), r)
      BY <2>1, <2>2, <2>4, ShowsStep
    <2>6. r.info = "SUCCESS" => ~r.m.jumbled
      BY <2>1, <2>4 DEF Then
    <2> QED BY <2>5, <2>6
  <1> QED BY <1>3 DEF Keeping

\* A call that only observes, or finds its indices out of range.
Observes(A, r) ==
  \/ Shows(A, View(A), r) /\ r.info # "SUCCESS"
  \/ /\ r.info = "INVALID_INDEX" /\ Ready(r.m)
     /\ r.m.vlen = A.vlen /\ r.m.vdim = A.vdim /\ View(r.m) = View(A)

\* The entry is gone, once the matrix can be searched.
LEMMA ShowsRemovePrepared ==
  ASSUME NEW A, Ready(A), ~A.jumbled, NEW p \in Nat \X Nat,
         NEW r \in RemovePrepared(A, p), r.info # "CRASH"
  PROVE  IF InRange(A, p) THEN Shows(A, Removed(View(A), p), r) ELSE Observes(A, r)
  <1>1. CASE ~InRange(A, p)
    <2>1. r = [m |-> A, info |-> "INVALID_INDEX"]
      BY <1>1 DEF RemovePrepared
    <2> QED BY <1>1, <2>1 DEF Observes
  <1>2. CASE InRange(A, p) /\ (EntryFound(A, p) \/ ~HasPending(A))
    <2>1. r \in TryRemove(A, p) /\ p \in Pos
      BY <1>2, InRangePos DEF RemovePrepared, Ready, Good
    <2> QED BY <1>2, <2>1, ShowsTryRemove
  <1>3. CASE InRange(A, p) /\ ~EntryFound(A, p) /\ HasPending(A)
    <2> DEFINE V == Removed(View(A), p)
    <2>1. PICK q \in Wait(A) : r \in Then(q, TryRemove(q.m, p))
      BY <1>3 DEF RemovePrepared
    <2>2. Shows(A, View(A), q) /\ ~AnyPendingWork(q.m)
      BY KeepingWait DEF Keeping
    <2>3. p \in Pos
      BY <1>3, InRangePos DEF Ready, Good
    <2>4. CASE q.info = "SUCCESS"
      <3>1. /\ Ready(q.m) /\ View(q.m) = View(A) /\ ~q.m.jumbled /\ ~HasPending(q.m)
            /\ r \in TryRemove(q.m, p)
        BY <2>1, <2>2, <2>4 DEF Shows, Ready, AnyPendingWork, Then
      <3>2. Shows(q.m, V, r)
        BY <2>3, <3>1, ShowsTryRemove
      <3> HIDE DEF V
      <3>3. Shows(A, V, r)
        BY <2>2, <2>4, <3>1, <3>2 DEF Shows
      <3> QED BY <1>3, <3>3 DEF V
    <2>5. CASE q.info # "SUCCESS"
      <3>1. r = q
        BY <2>1, <2>5 DEF Then
      <3> HIDE DEF V
      <3>2. Shows(A, V, r)
        BY <2>2, <2>5, <3>1 DEF Shows
      <3> QED BY <1>3, <3>2 DEF V
    <2> QED BY <2>4, <2>5
  <1> QED BY <1>1, <1>2, <1>3

\* GB_Matrix_removeElement, where it does not crash.
LEMMA ShowsRemoveElement ==
  ASSUME NEW A, Ready(A), NEW p \in Nat \X Nat,
         NEW r \in RemoveElement(A, p), r.info # "CRASH"
  PROVE  \/ InRange(A, p) /\ Shows(A, Removed(View(A), p), r)
         \/ ~InRange(A, p) /\ Observes(A, r)
  <1> DEFINE V == Removed(View(A), p)
  <1>1. PICK q \in PrepareRemove(A) : r \in Then(q, RemovePrepared(q.m, p))
    BY DEF RemoveElement
  <1>2. Shows(A, View(A), q) /\ (q.info = "SUCCESS" => ~q.m.jumbled)
    BY KeepingPrepareRemove DEF Keeping
  <1>3. CASE q.info = "SUCCESS"
    <2>1. /\ Ready(q.m) /\ View(q.m) = View(A) /\ r \in RemovePrepared(q.m, p)
          /\ q.m.vlen = A.vlen /\ q.m.vdim = A.vdim
          /\ InRange(q.m, p) <=> InRange(A, p)
      BY <1>1, <1>2, <1>3 DEF Shows, Ready, Then, InRange
    <2>2. CASE InRange(A, p)
      <3>1. Shows(q.m, V, r)
        BY <1>2, <1>3, <2>1, <2>2, ShowsRemovePrepared
      <3> HIDE DEF V
      <3>2. Shows(A, V, r)
        BY <1>2, <1>3, <2>1, <3>1 DEF Shows
      <3> QED BY <2>2, <3>2 DEF V
    <2>3. CASE ~InRange(A, p)
      <3>1. Observes(q.m, r)
        BY <1>2, <1>3, <2>1, <2>3, ShowsRemovePrepared
      <3>2. Observes(A, r)
        BY <2>1, <3>1 DEF Observes, Shows
      <3> QED BY <2>3, <3>2
    <2> QED BY <2>2, <2>3
  <1>4. CASE q.info # "SUCCESS"
    <2>1. r = q
      BY <1>1, <1>4 DEF Then
    <2> HIDE DEF V
    <2>2. Shows(A, V, r) /\ Observes(A, r)
      BY <1>2, <1>4, <2>1 DEF Shows, Observes
    <2> QED BY <2>2 DEF V
  <1> QED BY <1>3, <1>4

-----------------------------------------------------------------------------
(* GrB_Matrix_extractElement and GrB_Matrix_nvals *)

\* What extractElement returns, once any pending work is finished.
LEMMA ExtractReturns ==
  ASSUME NEW A, Ready(A), NEW p \in Nat \X Nat,
         NEW r \in WaitIf(AnyPendingWork(A), A), r.info = "SUCCESS"
  PROVE  LET info == ExtractInfo(r.m, p)
         IN  /\ ~InRange(A, p) => info = "INVALID_INDEX"
             /\ InRange(A, p) /\ View(A)[p] = NoVal => info = "NO_VALUE"
             /\ InRange(A, p) /\ View(A)[p] # NoVal =>
                  info = "SUCCESS" /\ r.m.entry[p] = View(A)[p]
  <1>1. Shows(A, View(A), r)
    BY KeepingWaiters DEF Keeping
  <1>2. Ready(r.m) /\ View(r.m) = View(A) /\ (InRange(r.m, p) <=> InRange(A, p))
    BY <1>1 DEF Shows, Ready, InRange
  <1>3. ~r.m.jumbled /\ ~HasPending(r.m)
    BY KeepingWait DEF WaitIf, Done, AnyPendingWork
  <1>4. ASSUME InRange(A, p)
        PROVE  /\ View(A)[p] = IF r.m.entry[p] \in Val THEN r.m.entry[p] ELSE NoVal
               /\ r.m.entry[p] \in Val => EntryFound(r.m, p)
    <2>1. p \in Pos
      BY <1>4, InRangePos DEF Ready, Good
    <2>2. View(A)[p] = Plain(r.m.entry)[p]
      BY <1>2, <1>3, PlainView
    <2>3. ~EntryFound(r.m, p) => r.m.entry[p] = Absent
      BY <1>2, <1>3, <2>1, NotFoundAbsent
    <2> QED BY <2>1, <2>2, <2>3, ValAssumption DEF Plain
  <1> QED BY <1>2, <1>4, CallsAssumption DEF ExtractInfo

\* GrB_nnz less the zombies counts the live entries.
LEMMA LiveCountIs ==
  ASSUME NEW A, Ready(A)
  PROVE  Nnz(A) - A.nzombies = Cardinality(Live(A))
  <1>1. A \in Matrices /\ StructureOK(A) /\ A.entry \in [Pos -> Val \cup {Absent, Zombie}]
    BY DEF Ready, Good, Matrices
  <1>2. CASE A.fmt = "full"
    <2>1. Live(A) = Held(A) /\ Cardinality(Held(A)) = Dense(A) /\ Dense(A) \in Nat
      BY <1>1, <1>2, FullHolds, DenseNat DEF StructureOK, CountsExact
    <2>2. A.nzombies = 0
      BY <1>1, <1>2, FullHolds DEF AnyPendingWork, Matrices
    <2> QED BY <1>2, <2>1, <2>2 DEF Nnz
  <1>3. CASE A.fmt # "full"
    <2>1. Zombies(A) \subseteq Held(A) /\ IsFiniteSet(Held(A)) /\ IsFiniteSet(Zombies(A))
      BY HeldType, CountNat, ValAssumption DEF Zombies, Held
    <2>2. Held(A) \cap Zombies(A) = Zombies(A) /\ Held(A) \ Zombies(A) = Live(A)
      BY <1>1, <2>1, ValAssumption DEF Held, Zombies, Live
    <2>3. Cardinality(Held(A) \ Zombies(A))
            = Cardinality(Held(A)) - Cardinality(Held(A) \cap Zombies(A))
      BY <2>1, FS_Difference
    <2> QED BY <1>1, <1>3, <2>2, <2>3 DEF StructureOK, CountsExact, Nnz
  <1> QED BY <1>2, <1>3

\* GrB_Matrix_nvals counts the entries that the user sees.
LEMMA NvalsReturns ==
  ASSUME NEW A, Ready(A), NEW r \in WaitIf(HasPending(A), A), r.info = "SUCCESS"
  PROVE  Nnz(r.m) - r.m.nzombies = Cardinality({p \in Pos : View(A)[p] # NoVal})
  <1>1. Shows(A, View(A), r)
    BY KeepingWaiters DEF Keeping
  <1>2. Ready(r.m) /\ View(r.m) = View(A)
    BY <1>1 DEF Shows, Ready
  <1>3. ~HasPending(r.m)
    BY KeepingWait DEF WaitIf, Done, AnyPendingWork
  <1>4. View(A) = Plain(r.m.entry)
    BY <1>2, <1>3, PlainView
  <1>5. Live(r.m) = {p \in Pos : View(A)[p] # NoVal}
    BY <1>4, CallsAssumption DEF Live, Plain
  <1> QED BY <1>2, <1>5, LiveCountIs

-----------------------------------------------------------------------------
(* GB_clear *)

\* The view of a matrix without entries.
Cleared == [p \in Pos |-> NoVal]

\* Where nothing is held and nothing is pending, the user sees nothing.
LEMMA ViewEmpty ==
  ASSUME NEW A, A.pend.tup = <<>>, A.entry = EmptyEntry
  PROVE  View(A) = Cleared
  <1>1. View(A) = Plain(EmptyEntry)
    BY PlainView DEF HasPending
  <1> QED BY <1>1, ValAssumption DEF Plain, EmptyEntry, Cleared

\* GB_clear leaves no entry.
LEMMA ShowsClear ==
  ASSUME NEW A, Usable(A), NEW r \in Clear(A)
  PROVE  Shows(A, Cleared, r)
  <1> DEFINE bitmap == A.fmt = "bitmap" /\ SparsityControl(A) \cap {"sparse", "hyper"} = {}
             F == PhybixFree(A)
             fmt == IF HyperToSparseTest(A, 0) THEN "sparse" ELSE "hyper"
             fresh == [F EXCEPT !.valid = TRUE, !.fmt = fmt]
             B == [A EXCEPT !.entry = EmptyEntry, !.nvals = 0]
  <1>1. Ready(A) /\ A \in Matrices /\ A.valid /\ WorkOK(A)
    BY DEF Usable, Ready, Good
  <1>2. r \in Outcomes /\ Good(r.m)
    BY KeepsClear DEF Keeps
  <1>3. CASE bitmap
    <2>1. r \in Done(B)
      BY <1>3 DEF Clear
    <2>2. /\ B.entry = EmptyEntry /\ B.valid /\ B.pend = A.pend
          /\ B.vlen = A.vlen /\ B.vdim = A.vdim
      BY <1>1 DEF Matrices
    <2> HIDE DEF B
    <2>3. A.pend.tup = <<>>
      BY <1>1, <1>3 DEF WorkOK, DenseSettled, AnyPendingWork, HasPending
    <2>4. r.m = B /\ r.info = "SUCCESS"
      BY <2>1 DEF Done
    <2>5. Ready(B) /\ View(B) = Cleared
      BY <1>2, <2>2, <2>3, <2>4, ViewEmpty DEF Ready
    <2> QED BY <2>1, <2>2, <2>5, ShowsDone
  <1>4. CASE ~bitmap
    <2>1. r \in ConformSettled(fresh) \cup NoMemory(F)
      BY <1>4 DEF Clear
    <2>2. CASE r \in NoMemory(F)
      BY <1>1, <2>2, ShowsFreed
    <2>3. CASE r \in ConformSettled(fresh)
      <3>1. F \in Matrices /\ F.vlen = A.vlen /\ F.vdim = A.vdim
        BY <1>1, GoodFreed DEF Good, Fits
      <3>2. F.entry = EmptyEntry /\ F.pend = NoPending
        BY <1>1 DEF PhybixFree, Matrices
      <3> HIDE DEF F
      <3>3. fmt \in {"hyper", "sparse"}
        OBVIOUS
      <3> HIDE DEF fmt
      <3>4. fresh \in Matrices
        BY <3>1, <3>3 DEF Matrices, Formats
      <3>5. /\ fresh.valid /\ fresh.entry = EmptyEntry /\ fresh.pend = NoPending
            /\ fresh.vlen = A.vlen /\ fresh.vdim = A.vdim
        BY <3>1, <3>2, <3>4 DEF Matrices
      <3> HIDE DEF fresh
      <3>6. Alike(fresh, fresh) /\ fresh.fmt \in Formats /\ "fmt" \in DOMAIN fresh
        BY <3>4, AlikeSelf DEF Matrices
      <3>7. Retains(fresh, r)
        BY <2>3, <3>6, RetainsConformSettled
      <3>8. View(r.m) = Cleared
        BY <3>5, <3>7, AlikeView, ViewEmpty DEF Retains, NoPending
      <3> QED BY <1>2, <3>5, <3>7, <3>8 DEF Shows, Retains, Alike
    <2> QED BY <2>1, <2>2, <2>3
  <1> QED BY <1>3, <1>4

-----------------------------------------------------------------------------
(* The options of GB_matvec_set *)

\* The sparsity control and GxB_HYPER_HASH.
LEMMA KeepingControls ==
  ASSUME NEW A, Ready(A), NEW c \in (SUBSET Formats) \ {{}}, NEW nohash \in BOOLEAN
  PROVE  /\ Keeping(A, Conform([A EXCEPT !.control = c]))
         /\ Keeping(A, Conform([A EXCEPT !.nohash = nohash]))
  <1> DEFINE B == [A EXCEPT !.control = c]
             D == [A EXCEPT !.nohash = nohash]
  <1>1. Ready(B) /\ Fits(A, B) /\ Ready(D) /\ Fits(A, D)
    BY ReadySettings
  <1>2. Alike(A, B) /\ Alike(A, D)
    BY AlikeSelf, AlikeFields DEF Ready, Good, Matrices
  <1> HIDE DEF B, D
  <1>3. View(B) = View(A) /\ View(D) = View(A)
    BY <1>2, AlikeView
  <1>4. Keeping(B, Conform(B)) /\ Keeping(D, Conform(D))
    BY <1>1, KeepingConform
  <1>5. Keeping(A, Conform(B)) /\ Keeping(A, Conform(D))
    BY <1>1, <1>3, <1>4 DEF Keeping, Shows, Fits
  <1> QED BY <1>5 DEF B, D

\* A matrix whose entries are all equal looks the same when it becomes iso.
LEMMA KeepingAnyToIso ==
  ASSUME NEW A, Ready(A), AllEntriesAreIso(A), NEW value,
         value = A.entry[CHOOSE p \in Held(A) : TRUE]
  PROVE  Keeping(A, AnyToIso(A, value))
  <1>1. value \in Val /\ (\A p \in Live(A) : A.entry[p] = value) /\ ~HasPending(A)
    BY EntriesIso DEF AllEntriesAreIso
  <1>2. Safe(A, AnyToIso(A, value))
    BY <1>1, SafeAnyToIso
  <1> DEFINE B == [A EXCEPT !.iso = value]
  <1>3. B.entry = A.entry /\ B.pend = A.pend
    BY DEF Ready, Good, Matrices
  <1>4. AnyToIso(A, value) = Done(B) \cup NoMemory(PhybixFree(A))
    BY DEF AnyToIso
  <1> HIDE DEF B
  <1>5. View(B) = View(A)
    BY <1>1, <1>3, PlainView DEF HasPending
  <1>6. Ready(B) /\ Fits(A, B)
    <2> DEFINE s == [m |-> B, info |-> "SUCCESS"]
    <2>1. s \in AnyToIso(A, value) /\ s.m = B /\ s.info = "SUCCESS"
      BY <1>4 DEF Done
    <2> HIDE DEF s
    <2> QED BY <1>2, <2>1 DEF Safe, Ready
  <1>7. Keeping(A, Done(B))
    BY <1>5, <1>6, ShowsDone DEF Keeping, Fits
  <1>8. Keeping(A, NoMemory(PhybixFree(A)))
    BY ShowsFreed DEF Keeping, Ready, Good
  <1> QED BY <1>4, <1>7, <1>8 DEF Keeping

\* GxB_ISO.
LEMMA KeepingSetIso ==
  ASSUME NEW A, Ready(A), NEW wanted \in BOOLEAN
  PROVE  Keeping(A, SetIso(A, wanted))
  <1> DEFINE value == A.entry[CHOOSE p \in Held(A) : TRUE]
             done == CASE wanted /\ A.iso = NotIso /\ AllEntriesAreIso(A) -> AnyToIso(A, value)
                       [] ~wanted -> AnyToNonIso(A)
                       [] OTHER -> Done(A)
  <1>1. SetIso(A, wanted) = UNION {Then(r, Conform(r.m)) : r \in done}
    BY DEF SetIso
  <1>2. Keeping(A, done)
    <2>1. CASE wanted /\ A.iso = NotIso /\ AllEntriesAreIso(A)
      <3>1. done = AnyToIso(A, value)
        BY <2>1
      <3> HIDE DEF done
      <3> QED BY <2>1, <3>1, KeepingAnyToIso
    <2>2. CASE ~wanted
      <3>1. done = AnyToNonIso(A)
        BY <2>2
      <3> HIDE DEF done
      <3> QED BY <3>1, KeepingNonIso
    <2>3. CASE wanted /\ ~(A.iso = NotIso /\ AllEntriesAreIso(A))
      <3>1. done = Done(A)
        BY <2>3
      <3> HIDE DEF done
      <3> QED BY <3>1, ShowsDone DEF Keeping
    <2> QED BY <2>1, <2>2, <2>3
  <1> HIDE DEF done
  <1>3. ASSUME NEW q \in done, NEW r \in Then(q, Conform(q.m))
        PROVE  Shows(A, View(A), r)
    <2>1. Shows(A, View(A), q)
      BY <1>2 DEF Keeping
    <2>2. q.info = "SUCCESS" => \A s \in Conform(q.m) : Shows(q.m, View(A), s)
      BY <2>1, KeepingConform DEF Keeping, Shows, Ready
    <2> QED BY <1>3, <2>1, <2>2, ShowsStep
  <1> QED BY <1>1, <1>3 DEF Keeping

-----------------------------------------------------------------------------
(* GB_resize *)

\* What is left of the view in a matrix of vlen by vdim.
Cut(V, vlen, vdim) ==
  [p \in Pos |-> IF p[1] < vlen /\ p[2] < vdim THEN V[p] ELSE NoVal]

\* Entries that are cut, and entries that are only held in another way.
LEMMA PlainEntries ==
  ASSUME NEW A
  PROVE  /\ \A vlen, vdim :
              Plain(Truncated(A, vlen, vdim)) = Cut(Plain(A.entry), vlen, vdim)
         /\ \A B : Alike(A, B) => Plain(B.entry) = Plain(A.entry)
  BY ValAssumption DEF Plain, Truncated, Cut, Alike

\* Every entry that the user sees is in range.
LEMMA ViewInRange ==
  ASSUME NEW A, Ready(A), NEW p \in Pos, View(A)[p] # NoVal
  PROVE  InRange(A, p)
  <1>1. StructureOK(A) /\ WorkOK(A)
    BY DEF Ready, Good
  <1>2. CASE p \in PendingPos(A)
    BY <1>1, <1>2 DEF WorkOK, PendingDisjoint
  <1>3. CASE p \notin PendingPos(A)
    <2>1. A.entry[p] \in Val
      BY <1>3, ViewAt
    <2>2. p \in Held(A)
      BY <2>1, ValAssumption DEF Held
    <2> QED BY <1>1, <2>2 DEF StructureOK, EntriesInRange
  <1> QED BY <1>2, <1>3

\* A matrix without deferred work, of the size of A, that shows V.
Cropped(A, V, B) ==
  /\ Alike(B, B) /\ B.vlen = A.vlen /\ B.vdim = A.vdim
  /\ B.pend.tup = <<>> /\ Plain(B.entry) = V

\* Holding the entries in another way shows the same.
LEMMA CroppedRetains ==
  ASSUME NEW A, NEW V, NEW B, Cropped(A, V, B), NEW r, Retains(B, r)
  PROVE  Cropped(A, V, r.m) /\ r.info \in {"SUCCESS", "OUT_OF_MEMORY"}
         /\ {"m", "info"} \subseteq DOMAIN r
  <1>1. Alike(B, r.m)
    BY DEF Retains
  <1>2. Plain(r.m.entry) = Plain(B.entry)
    BY <1>1, PlainEntries
  <1>3. Alike(r.m, r.m)
    BY <1>1 DEF Alike
  <1> QED BY <1>1, <1>2, <1>3 DEF Cropped, Alike, Retains

\* The hyperlist and the entries of its vectors are cut.
LEMMA CroppedTrim ==
  ASSUME NEW A, NEW V, NEW B, Cropped(A, V, B), NEW vdim
  PROVE  Cropped(A, Cut(V, A.vlen, vdim), TrimVectors(B, vdim))
  <1> DEFINE e == Truncated(B, B.vlen, vdim)
             D == [B EXCEPT !.entry = e, !.h = {j \in @ : j < vdim}, !.Y = NoHash]
             E == [D EXCEPT !.nvals = Cardinality(Held(D)), !.nne = -1]
  <1>1. Plain(e) = Cut(V, A.vlen, vdim)
    BY PlainEntries DEF Cropped
  <1>2. TrimVectors(B, vdim) = E \/ TrimVectors(B, vdim) = D
    BY DEF TrimVectors
  <1> HIDE DEF e
  <1>3. Cropped(A, Cut(V, A.vlen, vdim), D)
    BY <1>1 DEF Cropped, Alike
  <1> HIDE DEF D
  <1>4. Cropped(A, Cut(V, A.vlen, vdim), E)
    BY <1>3 DEF Cropped, Alike
  <1> QED BY <1>2, <1>3, <1>4

\* The rows that stay are selected.
LEMMA CroppedRows ==
  ASSUME NEW A, NEW V, NEW B, Cropped(A, V, B), NEW vlen, NEW r \in SelectRows(B, vlen)
  PROVE  /\ {"m", "info"} \subseteq DOMAIN r /\ r.info \in {"SUCCESS", "OUT_OF_MEMORY"}
         /\ r.info = "SUCCESS" =>
              Cropped(A, IF vlen < A.vlen THEN Cut(V, vlen, A.vdim) ELSE V, r.m)
  <1> DEFINE e == Truncated(B, vlen, B.vdim)
             D == [B EXCEPT !.entry = e, !.Y = NoHash]
             E == [D EXCEPT !.nvals = Cardinality(Held(D)),
                            !.nne = Cardinality(Nonempty(D))]
  <1>1. B.vlen = A.vlen
    BY DEF Cropped
  <1>2. CASE vlen < A.vlen
    <2>1. r \in HyperPrune(E) \/ r \in NoMemory(B)
      BY <1>1, <1>2 DEF SelectRows
    <2>2. Plain(e) = Cut(V, vlen, A.vdim)
      BY PlainEntries DEF Cropped
    <2> HIDE DEF e
    <2>3. Cropped(A, Cut(V, vlen, A.vdim), D)
      BY <2>2 DEF Cropped, Alike
    <2> HIDE DEF D
    <2>4. Cropped(A, Cut(V, vlen, A.vdim), E)
      BY <2>3 DEF Cropped, Alike
    <2> HIDE DEF E
    <2>5. CASE r \in HyperPrune(E)
      <3>1. Retains(E, r)
        BY <2>4, <2>5, RetainsPrune DEF Cropped
      <3> QED BY <1>2, <2>4, <3>1, CroppedRetains
    <2>6. CASE r \in NoMemory(B)
      BY <2>6 DEF NoMemory
    <2> QED BY <2>1, <2>5, <2>6
  <1>3. CASE ~(vlen < A.vlen)
    <2>1. r \in Done(B)
      BY <1>1, <1>3 DEF SelectRows
    <2> QED BY <1>3, <2>1 DEF Done
  <1> QED BY <1>2, <1>3

\* Cutting the vectors, then the rows if there are fewer, cuts both.
LEMMA CutTwice ==
  ASSUME NEW A, Ready(A), NEW vlen \in 0 .. MaxVlen, NEW vdim \in 0 .. MaxVdim,
         NEW V, V = Cut(View(A), A.vlen, vdim)
  PROVE  (IF vlen < A.vlen THEN Cut(V, vlen, A.vdim) ELSE V) = Cut(View(A), vlen, vdim)
  <1> DEFINE W == IF vlen < A.vlen THEN Cut(V, vlen, A.vdim) ELSE V
  <1>1. \A p \in Pos : p[1] \in Int /\ p[2] \in Int
    BY DimsAssumption DEF Pos
  <1>2. A.vlen \in Int /\ A.vdim \in Int /\ vlen \in Int /\ vdim \in Int
    BY DimsAssumption DEF Ready, Good, Matrices
  <1>3. W = [p \in Pos |-> W[p]] /\ \A p \in Pos : W[p] = Cut(View(A), vlen, vdim)[p]
    <2>1. \A p \in Pos : View(A)[p] = NoVal \/ (p[1] < A.vlen /\ p[2] < A.vdim)
      BY ViewInRange DEF InRange
    <2> QED BY <1>1, <1>2, <2>1 DEF Cut
  <1> HIDE DEF W
  <1>4. W = Cut(View(A), vlen, vdim)
    BY <1>3 DEF Cut
  <1> QED BY <1>4 DEF W

\* What a step of GB_resize does: on success the matrix is cut and has its new
\* size; without memory it has the old size or the new one.
Cuts(A, vlen, vdim, r) ==
  /\ r \in Outcomes /\ r.info \in {"SUCCESS", "OUT_OF_MEMORY"}
  /\ \/ r.m.vlen = A.vlen /\ r.m.vdim = A.vdim
     \/ r.m.vlen = vlen /\ r.m.vdim = vdim
  /\ r.info = "SUCCESS" =>
       /\ Ready(r.m) /\ r.m.vlen = vlen /\ r.m.vdim = vdim
       /\ ~HasPending(r.m) /\ View(r.m) = Cut(View(A), vlen, vdim)

\* An idle matrix is cropped to itself.
LEMMA CroppedSelf ==
  ASSUME NEW A, Ready(A), ~HasPending(A)
  PROVE  Cropped(A, View(A), A)
  BY AlikeSelf, PlainView DEF Cropped, Ready, Good, HasPending

\* A full or bitmap matrix that shrinks.
LEMMA CutsShrinkDense ==
  ASSUME NEW A, Ready(A), ~AnyPendingWork(A), A.fmt \in {"full", "bitmap"},
         NEW vlen \in 0 .. MaxVlen, NEW vdim \in 0 .. MaxVdim,
         vlen <= A.vlen, vdim <= A.vdim,
         NEW r \in ShrinkDense(A, vlen, vdim)
  PROVE  Cuts(A, vlen, vdim, r)
  <1> DEFINE e == Truncated(A, vlen, vdim)
             B == [A EXCEPT !.entry = e, !.vlen = vlen, !.vdim = vdim]
             n == IF A.fmt = "bitmap" THEN Cardinality(Live(B)) ELSE B.nvals
             D == [B EXCEPT !.nvals = n, !.nne = AllVectors(B)]
  <1>1. r \in Done(D) \/ r \in NoMemory(A)
    BY DEF ShrinkDense
  <1>2. Resized(ShrinkDense(A, vlen, vdim))
    BY ResizedShrinkDense
  <1>3. r \in Outcomes /\ (r.info = "SUCCESS" => Ready(r.m) /\ ~AnyPendingWork(r.m))
    BY <1>2 DEF Resized
  <1>4. Plain(e) = Cut(View(A), vlen, vdim)
    BY PlainEntries, PlainView DEF AnyPendingWork
  <1> HIDE DEF e
  <1>5. /\ {"vlen", "vdim", "entry"} \subseteq DOMAIN B
        /\ B.vlen = vlen /\ B.vdim = vdim /\ B.entry = e
    BY DEF Ready, Good, Matrices
  <1> HIDE DEF B, n
  <1>6. D.vlen = vlen /\ D.vdim = vdim /\ D.entry = e
    BY <1>5
  <1> HIDE DEF D
  <1>7. CASE r \in Done(D)
    <2>1. r.m = D /\ r.info = "SUCCESS" /\ ~HasPending(D)
      BY <1>3, <1>7 DEF Done, AnyPendingWork
    <2>2. View(D) = Cut(View(A), vlen, vdim)
      BY <1>4, <1>6, <2>1, PlainView
    <2> QED BY <1>3, <1>6, <2>1, <2>2 DEF Cuts
  <1>8. CASE r \in NoMemory(A)
    BY <1>3, <1>8 DEF Cuts, NoMemory
  <1> QED BY <1>1, <1>7, <1>8

\* Any other matrix goes through the hypersparse structure.
LEMMA CutsResizeHyper ==
  ASSUME NEW A, Ready(A), ~AnyPendingWork(A),
         NEW vlen \in 0 .. MaxVlen, NEW vdim \in 0 .. MaxVdim,
         NEW r \in ResizeHyper(A, vlen, vdim)
  PROVE  Cuts(A, vlen, vdim, r)
  <1> DEFINE sized(q) == [q EXCEPT !.m = [@ EXCEPT !.vlen = vlen, !.vdim = vdim]]
             rows == UNION {Then(q, SelectRows(TrimVectors(q.m, vdim), vlen))
                              : q \in AnyToHyper(A)}
             pruned == UNION {Then(q, HyperPrune(q.m)) : q \in rows}
             V == Cut(View(A), A.vlen, vdim)
             W == IF vlen < A.vlen THEN Cut(V, vlen, A.vdim) ELSE V
             runs(q) == {"m", "info"} \subseteq DOMAIN q /\ q.info \in {"SUCCESS", "OUT_OF_MEMORY"}
  <1>1. Resized(ResizeHyper(A, vlen, vdim))
    BY ResizedHyper
  <1>2. r \in Outcomes /\ (r.info = "SUCCESS" => Ready(r.m) /\ ~AnyPendingWork(r.m))
    BY <1>1 DEF Resized
  <1>3. W = Cut(View(A), vlen, vdim)
    BY CutTwice
  <1>4. ASSUME NEW q \in rows
        PROVE  runs(q) /\ (q.info = "SUCCESS" => Cropped(A, W, q.m))
    <2>1. PICK w \in AnyToHyper(A) : q \in Then(w, SelectRows(TrimVectors(w.m, vdim), vlen))
      BY <1>4
    <2>2. Retains(A, w)
      BY AlikeSelf, RetainsAnyTo DEF Ready, Good, Matrices
    <2>3. Cropped(A, View(A), w.m) /\ runs(w)
      BY <2>2, CroppedSelf, CroppedRetains DEF AnyPendingWork
    <2>4. Cropped(A, V, TrimVectors(w.m, vdim))
      BY <2>3, CroppedTrim
    <2> HIDE DEF V
    <2>5. CASE w.info = "SUCCESS"
      <3>1. q \in SelectRows(TrimVectors(w.m, vdim), vlen)
        BY <2>1, <2>5 DEF Then
      <3> QED BY <2>4, <3>1, CroppedRows
    <2>6. CASE w.info # "SUCCESS"
      BY <2>1, <2>3, <2>6 DEF Then
    <2> QED BY <2>5, <2>6
  <1> HIDE DEF rows, W, V
  <1>5. ASSUME NEW q \in pruned
        PROVE  runs(q) /\ (q.info = "SUCCESS" => Cropped(A, W, q.m))
    <2>1. PICK w \in rows : q \in Then(w, HyperPrune(w.m))
      BY <1>5
    <2>2. runs(w) /\ (w.info = "SUCCESS" => Cropped(A, W, w.m))
      BY <1>4
    <2>3. CASE w.info = "SUCCESS"
      <3>1. q \in HyperPrune(w.m) /\ Cropped(A, W, w.m)
        BY <2>1, <2>2, <2>3 DEF Then
      <3>2. Retains(w.m, q)
        BY <3>1, RetainsPrune DEF Cropped
      <3> QED BY <3>1, <3>2, CroppedRetains
    <2>4. CASE w.info # "SUCCESS"
      BY <2>1, <2>2, <2>4 DEF Then
    <2> QED BY <2>3, <2>4
  <1>6. r \in {sized(q) : q \in pruned}
    BY DEF ResizeHyper, rows
  <1> HIDE DEF pruned
  <1>7. PICK q \in pruned : r = sized(q)
    BY <1>6
  <1> DEFINE m == [q.m EXCEPT !.vlen = vlen, !.vdim = vdim]
  <1>8. runs(q) /\ (q.info = "SUCCESS" => Cropped(A, W, q.m))
    BY <1>5
  <1>9. q.info = "SUCCESS" => Plain(m.entry) = W
    BY <1>8 DEF Cropped, Alike
  <1>10. r = [q EXCEPT !.m = m]
    BY <1>7
  <1>11. DOMAIN m = DOMAIN q.m
    OBVIOUS
  <1>12. m.vlen = vlen \/ "vlen" \notin DOMAIN m
    OBVIOUS
  <1>13. m.vdim = vdim \/ "vdim" \notin DOMAIN m
    OBVIOUS
  <1> HIDE DEF m
  <1>14. r.m = m /\ r.info = q.info
    BY <1>8, <1>10
  <1>15. {"vlen", "vdim"} \subseteq DOMAIN m
    BY <1>2, <1>14 DEF Outcomes, Matrices
  <1>16. m.vlen = vlen /\ m.vdim = vdim
    BY <1>12, <1>13, <1>15
  <1>17. r.info = "SUCCESS" => ~HasPending(r.m) /\ View(r.m) = Cut(View(A), vlen, vdim)
    BY <1>2, <1>3, <1>8, <1>9, <1>14, PlainView DEF AnyPendingWork
  <1> QED BY <1>2, <1>8, <1>14, <1>16, <1>17 DEF Cuts

\* GB_resize: on success the matrix is cut, and without memory it is freed,
\* with its old size or its new one.
ShowsResized(A, vlen, vdim, r) ==
  /\ Good(r.m)
  /\ \/ /\ r.info = "SUCCESS" /\ r.m.valid /\ r.m.vlen = vlen /\ r.m.vdim = vdim
        /\ View(r.m) = Cut(View(A), vlen, vdim)
     \/ /\ r.info = "OUT_OF_MEMORY" /\ ~r.m.valid
        /\ \/ r.m.vlen = A.vlen /\ r.m.vdim = A.vdim
           \/ r.m.vlen = vlen /\ r.m.vdim = vdim

\* An error frees the matrix, and leaves its size.
LEMMA ShowsResizeFreed ==
  ASSUME NEW A, NEW vlen, NEW vdim, NEW q \in Outcomes, q.info = "OUT_OF_MEMORY",
         \/ q.m.vlen = A.vlen /\ q.m.vdim = A.vdim
         \/ q.m.vlen = vlen /\ q.m.vdim = vdim
  PROVE  ShowsResized(A, vlen, vdim, FreeOnError(q))
  <1> DEFINE F == PhybixFree(q.m)
  <1>1. Good(F) /\ ~F.valid /\ F.vlen = q.m.vlen /\ F.vdim = q.m.vdim
    BY GoodFreed DEF Outcomes, Fits
  <1>2. FreeOnError(q) = [q EXCEPT !.m = F]
    BY DEF FreeOnError
  <1> HIDE DEF F
  <1>3. FreeOnError(q).m = F /\ FreeOnError(q).info = "OUT_OF_MEMORY"
    BY <1>2 DEF Outcomes
  <1> QED BY <1>1, <1>3 DEF ShowsResized

\* GB_resize cuts the view to the new dimensions, or frees the matrix.
LEMMA ShowsResize ==
  ASSUME NEW A, Usable(A), NEW vlen \in 0 .. MaxVlen, NEW vdim \in 0 .. MaxVdim,
         NEW r \in Resize(A, vlen, vdim)
  PROVE  ShowsResized(A, vlen, vdim, r)
  <1> DEFINE shrinking == vlen <= A.vlen /\ vdim <= A.vdim
             resized(B) == IF B.fmt \in {"full", "bitmap"} /\ shrinking
                           THEN ShrinkDense(B, vlen, vdim) ELSE ResizeHyper(B, vlen, vdim)
             worked == UNION {Then(x, resized(x.m)) : x \in WaitIf(AnyPendingWork(A), A)}
             conformed == UNION {Then(q, ConformSettled(q.m)) : q \in worked}
  <1>1. Ready(A) /\ Good(A) /\ A \in Matrices
    BY DEF Usable, Ready, Good
  <1>2. CASE vlen = A.vlen /\ vdim = A.vdim
    <2>1. r.m = A /\ r.info = "SUCCESS"
      BY <1>2 DEF Resize, Done
    <2> DEFINE V == View(A)
    <2>2. V = [p \in Pos |-> V[p]]
      BY DEF View
    <2>3. \A p \in Pos : V[p] = NoVal \/ (p[1] < vlen /\ p[2] < vdim)
      BY <1>1, <1>2, ViewInRange DEF InRange
    <2> HIDE DEF V
    <2>4. V = Cut(V, vlen, vdim)
      BY <2>2, <2>3 DEF Cut
    <2> QED BY <1>1, <1>2, <2>1, <2>4 DEF ShowsResized, Ready, V
  <1>3. CASE ~(vlen = A.vlen /\ vdim = A.vdim)
    <2>1. \E x \in conformed : r = FreeOnError(x)
      BY <1>3 DEF Resize
    <2>2. ASSUME NEW w \in WaitIf(AnyPendingWork(A), A), NEW q \in Then(w, resized(w.m))
          PROVE  Cuts(A, vlen, vdim, q)
      <3>1. Shows(A, View(A), w)
        BY <1>1, KeepingWaiters DEF Keeping
      <3>2. CASE w.info = "SUCCESS"
        <4>1. ~AnyPendingWork(w.m)
          BY <1>1, <2>2, <3>2, KeepingWait DEF WaitIf, Done
        <4>2. /\ Ready(w.m) /\ View(w.m) = View(A) /\ w.m.vlen = A.vlen /\ w.m.vdim = A.vdim
              /\ q \in resized(w.m)
          BY <2>2, <3>1, <3>2 DEF Shows, Ready, Then
        <4>3. CASE w.m.fmt \in {"full", "bitmap"} /\ shrinking
          <5>1. Cuts(w.m, vlen, vdim, q)
            BY <4>1, <4>2, <4>3, CutsShrinkDense
          <5> QED BY <4>2, <5>1 DEF Cuts
        <4>4. CASE ~(w.m.fmt \in {"full", "bitmap"} /\ shrinking)
          <5>1. Cuts(w.m, vlen, vdim, q)
            BY <4>1, <4>2, <4>4, CutsResizeHyper
          <5> QED BY <4>2, <5>1 DEF Cuts
        <4> QED BY <4>3, <4>4
      <3>3. CASE w.info # "SUCCESS"
        BY <2>2, <3>1, <3>3 DEF Then, Shows, Cuts
      <3> QED BY <3>2, <3>3
    <2> HIDE DEF resized
    <2>3. ASSUME NEW q \in worked
          PROVE  Cuts(A, vlen, vdim, q)
      BY <2>2, <2>3
    <2> HIDE DEF worked
    <2>4. ASSUME NEW q \in worked, NEW x \in Then(q, ConformSettled(q.m))
          PROVE  Cuts(A, vlen, vdim, x)
      <3>1. Cuts(A, vlen, vdim, q)
        BY <2>3, <2>4
      <3>2. CASE q.info = "SUCCESS"
        <4>1. /\ Ready(q.m) /\ ~HasPending(q.m) /\ x \in ConformSettled(q.m)
              /\ Alike(q.m, q.m) /\ q.m.fmt \in Formats /\ "fmt" \in DOMAIN q.m
          BY <2>4, <3>1, <3>2, AlikeSelf DEF Then, Cuts, Ready, Good, Matrices
        <4>2. Retains(q.m, x)
          BY <4>1, RetainsConformSettled
        <4>3. x \in Outcomes /\ Good(x.m) /\ Fits(q.m, x.m)
              /\ (x.info = "SUCCESS" => Ready(x.m))
          BY <4>1, SafeConformSettled DEF Safe, Ready
        <4>4. View(x.m) = View(q.m) /\ x.info \in {"SUCCESS", "OUT_OF_MEMORY"}
          BY <4>2, AlikeView DEF Retains
        <4> QED BY <3>1, <3>2, <4>1, <4>3, <4>4 DEF Cuts, Fits
      <3>3. CASE q.info # "SUCCESS"
        BY <2>4, <3>1, <3>3 DEF Then
      <3> QED BY <3>2, <3>3
    <2>5. ASSUME NEW x, Cuts(A, vlen, vdim, x)
          PROVE  ShowsResized(A, vlen, vdim, FreeOnError(x))
      <3>1. CASE x.info = "SUCCESS"
        BY <2>5, <3>1 DEF Cuts, ShowsResized, FreeOnError, Ready
      <3>2. CASE x.info # "SUCCESS"
        BY <2>5, <3>2, ShowsResizeFreed DEF Cuts
      <3> QED BY <3>1, <3>2
    <2> QED BY <2>1, <2>4, <2>5
  <1> QED BY <1>2, <1>3

-----------------------------------------------------------------------------
(* C = T *)

\* C = T takes the content of T, whatever work either of them had left.
LEMMA ShowsAssignResult ==
  ASSUME NEW A, Ready(A), NEW T, Ready(T), ~HasPending(T),
         T.vlen = A.vlen, T.vdim = A.vdim,
         NEW r \in AssignResult(A, T)
  PROVE  Shows(A, View(T), r)
  <1> DEFINE back(w) == IF w.info = "SUCCESS" THEN w ELSE [w EXCEPT !.m = A]
             finished == {back(w) : w \in WaitIf(T.nzombies > 0, T)}
             moved == UNION {Then(q, TransplantConform(A, q.m)) : q \in finished}
             V == View(T)
  <1>1. r \in NoMemory(A) \/ \E q \in moved : r \in Then(q, Block(q.m))
    BY DEF AssignResult
  <1>2. ASSUME NEW w \in WaitIf(T.nzombies > 0, T),
               NEW q \in Then(back(w), TransplantConform(A, back(w).m))
        PROVE  Shows(A, V, q)
    <2>1. Shows(T, V, w)
      BY KeepingWaiters DEF Keeping
    <2>2. w \in Outcomes /\ Fits(T, w.m)
      BY SafeWaitIf DEF Safe
    <2>3. CASE w.info = "SUCCESS"
      <3>1. /\ Ready(w.m) /\ ~HasPending(w.m) /\ View(w.m) = V
            /\ q \in TransplantConform(A, w.m)
        BY <1>2, <2>1, <2>2, <2>3 DEF Shows, Ready, Then, Fits
      <3>2. Alike(w.m, w.m) /\ w.m.fmt \in Formats /\ "fmt" \in DOMAIN w.m
        BY <3>1, AlikeSelf DEF Ready, Good, Matrices
      <3>3. Safe(w.m, TransplantConform(A, w.m))
        BY <3>1, SafeTransplantConform DEF Ready, Good
      <3>4. Retains(w.m, q)
        BY <3>1, <3>2, RetainsTransplantConform
      <3>5. Shows(w.m, View(w.m), q)
        BY <3>1, <3>3, <3>4, KeepingRetained
      <3> HIDE DEF V
      <3> QED BY <2>2, <3>1, <3>5 DEF Shows, Fits
    <2>4. CASE w.info # "SUCCESS"
      <3>1. q = [w EXCEPT !.m = A]
        BY <1>2, <2>2, <2>4 DEF Then, Outcomes
      <3>2. q.m = A /\ q.info = "OUT_OF_MEMORY" /\ q \in Outcomes
        BY <2>1, <2>2, <2>4, <3>1 DEF Outcomes, Shows, Ready, Good
      <3> HIDE DEF V
      <3> QED BY <3>2 DEF Shows, Ready
    <2> QED BY <2>3, <2>4
  <1> HIDE DEF back
  <1>3. ASSUME NEW q \in moved
        PROVE  Shows(A, V, q)
    BY <1>2, <1>3
  <1> HIDE DEF moved, V
  <1>4. ASSUME NEW q \in moved, r \in Then(q, Block(q.m))
        PROVE  Shows(A, V, r)
    <2>1. Shows(A, V, q)
      BY <1>3, <1>4
    <2>2. q.info = "SUCCESS" => \A s \in Block(q.m) : Shows(q.m, V, s)
      BY <2>1, KeepingWaiters DEF Keeping, Shows, Ready
    <2> QED BY <1>4, <2>1, <2>2, ShowsStep
  <1>5. ASSUME r \in NoMemory(A)
        PROVE  Shows(A, V, r)
    BY <1>5 DEF Shows, NoMemory, Ready, Good, Outcomes
  <1>6. Shows(A, V, r)
    BY <1>1, <1>4, <1>5
  <1> QED BY <1>6 DEF V

-----------------------------------------------------------------------------
(* The steps of the abstract map *)

\* What AbstractMatrix sees of a matrix.
LEMMA AbsIs ==
  ASSUME NEW A
  PROVE  AbsOf(A) = [valid |-> A.valid, vlen |-> A.vlen, vdim |-> A.vdim, val |-> View(A)]
  BY DEF AbsOf, View

\* Nothing is seen of a matrix that has been freed.
LEMMA ViewFreed ==
  ASSUME NEW A, Good(A), ~A.valid
  PROVE  View(A) = Cleared
  <1>1. Held(A) = {} /\ ~HasPending(A)
    BY DEF Good, Freed, AnyPendingWork
  <1>2. \A p \in Pos : A.entry[p] \notin Val
    BY <1>1, ValAssumption DEF Held
  <1>3. View(A) = Plain(A.entry)
    BY <1>1, PlainView
  <1> QED BY <1>2, <1>3 DEF Plain, Cleared

\* The map A' of a matrix with these fields.
Map(valid, vlen, vdim, val) ==
  [valid |-> valid, vlen |-> vlen, vdim |-> vdim, val |-> val]

\* A map with another value, and an invalid one.
LEMMA MapVal ==
  ASSUME NEW X, NEW valid, NEW vlen, NEW vdim, NEW val, X = Map(valid, vlen, vdim, val), NEW V
  PROVE  [X EXCEPT !.val = V] = Map(valid, vlen, vdim, V)
  BY DEF Map

\* The provers take this constant for a value like any other.
No == FALSE

\* The map of a matrix that a failure has freed.
LEMMA MapInvalid ==
  ASSUME NEW X, NEW valid, NEW vlen, NEW vdim, NEW val, X = Map(valid, vlen, vdim, val)
  PROVE  Abstract!Invalid(X) = Map(No, vlen, vdim, Cleared)
  <1> DEFINE Y == [X EXCEPT !.valid = No]
  <1>1. Y = Map(No, vlen, vdim, val)
    BY DEF Map
  <1>2. Abstract!NoContent = Cleared
    BY DEF Abstract!NoContent, Abstract!Pos, Pos, Cleared
  <1>3. Abstract!Invalid(X) = [Y EXCEPT !.val = Cleared]
    BY <1>2, Zenon DEF Abstract!Invalid, No
  <1> HIDE DEF Y
  <1> QED BY <1>1, <1>3, MapVal

\* A function that shows V updates the map to V, or runs out of memory.
LEMMA UpdateStep ==
  ASSUME C.valid = TRUE, NEW V, NEW r, Shows(C, V, r), C' = r.m, NEW call,
         Reply(call, r.info, NoVal)
  PROVE  Abstract!Update(call, [AbsOf(C) EXCEPT !.val = V])
  <1> DEFINE B == [AbsOf(C) EXCEPT !.val = V]
             valid == r.m.valid
  <1>1. AbsOf(C)' = Map(valid, C.vlen, C.vdim, View(r.m))
    BY AbsIs DEF Shows, Map
  <1>2. AbsOf(C) = Map(C.valid, C.vlen, C.vdim, View(C))
    BY AbsIs DEF Map
  <1>3. B = Map(C.valid, C.vlen, C.vdim, V)
    BY <1>2, MapVal
  <1>4. Abstract!Invalid(AbsOf(C)) = Map(No, C.vlen, C.vdim, Cleared)
    BY <1>2, MapInvalid
  <1>5. valid \in BOOLEAN /\ (~valid => View(r.m) = Cleared)
    BY ViewFreed DEF Shows, Good, Matrices
  <1>6. valid = TRUE \/ valid = FALSE
    BY <1>5
  <1>7. \/ r.info = "SUCCESS" /\ AbsOf(C)' = B
        \/ r.info = "OUT_OF_MEMORY" /\ AbsOf(C)' \in {AbsOf(C), B, Abstract!Invalid(AbsOf(C))}
    <2> HIDE DEF B
    <2>1. CASE valid = TRUE /\ View(r.m) = V
      <3>1. AbsOf(C)' = B
        BY <1>1, <1>3, <2>1
      <3> QED BY <3>1 DEF Shows
    <2>2. CASE valid = TRUE /\ View(r.m) # V
      <3>1. View(r.m) = View(C) /\ r.info = "OUT_OF_MEMORY"
        BY <2>2 DEF Shows
      <3> QED BY <1>1, <1>2, <2>2, <3>1
    <2>3. CASE valid = FALSE
      <3>1. r.info = "OUT_OF_MEMORY"
        BY <2>3 DEF Shows
      <3>2. valid = No /\ View(r.m) = Cleared
        BY <1>5, <2>3 DEF No
      <3> HIDE DEF valid
      <3> QED BY <1>1, <1>4, <3>1, <3>2
    <2> QED BY <1>6, <2>1, <2>2, <2>3
  <1> QED BY <1>7 DEF Reply, Abstract!Update, Abstract!Fail, Abstract!Reply

\* The fields of the map are those of the matrix.
LEMMA AbsFields ==
  ASSUME NEW A
  PROVE  /\ AbsOf(A).valid = A.valid /\ AbsOf(A).vlen = A.vlen /\ AbsOf(A).vdim = A.vdim
         /\ AbsOf(A).val = View(A)
         /\ AbsOf(A) = [AbsOf(A) EXCEPT !.val = View(A)]
  BY AbsIs

\* A function that keeps the view leaves the map as it is.
LEMMA KeepingStep ==
  ASSUME C.valid = TRUE, NEW r, Shows(C, View(C), r), C' = r.m, NEW call,
         Reply(call, r.info, NoVal)
  PROVE  Abstract!Update(call, AbsOf(C))
  BY UpdateStep, AbsFields

\* If it succeeds nothing has changed, and if not it runs out of memory.
LEMMA KeptStep ==
  ASSUME C.valid = TRUE, NEW r, Shows(C, View(C), r), C' = r.m
  PROVE  /\ r.info = "SUCCESS" => AbsOf(C)' = AbsOf(C)
         /\ r.info # "SUCCESS" =>
              \A call : Reply(call, r.info, NoVal) => Abstract!Fail(call, AbsOf(C))
  <1>1. ASSUME r.info = "SUCCESS"
        PROVE  AbsOf(C)' = AbsOf(C)
    <2>1. AbsOf(C)' = Map(r.m.valid, C.vlen, C.vdim, View(r.m))
      BY AbsIs DEF Shows, Map
    <2>2. AbsOf(C) = Map(C.valid, C.vlen, C.vdim, View(C))
      BY AbsIs DEF Map
    <2>3. View(r.m) = View(C)
      BY <1>1 DEF Shows
    <2>4. r.m.valid \in BOOLEAN /\ r.m.valid
      BY <1>1 DEF Shows, Good, Matrices
    <2>5. r.m.valid = C.valid
      BY <2>4
    <2> QED BY <2>1, <2>2, <2>3, <2>5
  <1>2. ASSUME r.info # "SUCCESS", NEW call, Reply(call, r.info, NoVal)
        PROVE  Abstract!Fail(call, AbsOf(C))
    <2>1. Abstract!Update(call, AbsOf(C))
      BY <1>2, KeepingStep
    <2>2. ~Abstract!Reply(call, "SUCCESS", NoVal)
      BY <1>2 DEF Reply, Abstract!Reply
    <2> QED BY <2>1, <2>2 DEF Abstract!Update
  <1> QED BY <1>1, <1>2

\* A call that only observes.
LEMMA ObserveStep ==
  ASSUME C.valid = TRUE, NEW r, Observes(C, r), C' = r.m, NEW call,
         Reply(call, r.info, NoVal)
  PROVE  Abstract!Observe(call, "INVALID_INDEX", NoVal)
  <1>1. CASE Shows(C, View(C), r) /\ r.info # "SUCCESS"
    BY <1>1, KeptStep DEF Abstract!Observe
  <1>2. CASE /\ r.info = "INVALID_INDEX" /\ Ready(r.m)
             /\ r.m.vlen = C.vlen /\ r.m.vdim = C.vdim /\ View(r.m) = View(C)
    <2>1. AbsOf(C)' = Map(r.m.valid, C.vlen, C.vdim, View(C))
      BY <1>2, AbsIs DEF Map
    <2>2. AbsOf(C) = Map(C.valid, C.vlen, C.vdim, View(C))
      BY AbsIs DEF Map
    <2>3. r.m.valid \in BOOLEAN /\ r.m.valid
      BY <1>2 DEF Ready, Good, Matrices
    <2>4. r.m.valid = C.valid
      BY <2>3
    <2>5. AbsOf(C)' = AbsOf(C)
      BY <2>1, <2>2, <2>4
    <2> QED BY <1>2, <2>5 DEF Reply, Abstract!Observe, Abstract!Reply
  <1> QED BY <1>1, <1>2 DEF Observes

\* A map with other dimensions and another value.
Recut(X, a, b, V) == [X EXCEPT !.vlen = a, !.vdim = b, !.val = V]

\* It is that map.
LEMMA MapResized ==
  ASSUME NEW X, NEW valid, NEW vlen, NEW vdim, NEW val, X = Map(valid, vlen, vdim, val),
         NEW a, NEW b, NEW V
  PROVE  Recut(X, a, b, V) = Map(valid, a, b, V)
  <1> DEFINE Y == [X EXCEPT !.vlen = a]
             Z == [Y EXCEPT !.vdim = b]
  <1>1. Recut(X, a, b, V) = [Z EXCEPT !.val = V]
    BY DEF Recut
  <1>2. Y = Map(valid, a, vdim, val)
    BY DEF Map
  <1> HIDE DEF Y
  <1>3. Z = Map(valid, a, b, val)
    BY <1>2 DEF Map
  <1> HIDE DEF Z
  <1> QED BY <1>1, <1>3, MapVal

\* GB_resize cuts the map, or frees it.
LEMMA ResizeStep ==
  ASSUME C.valid = TRUE, NEW vlen, NEW vdim, NEW r, ShowsResized(C, vlen, vdim, r), C' = r.m,
         NEW call, Reply(call, r.info, NoVal)
  PROVE  Abstract!Update(call, Recut(AbsOf(C), vlen, vdim, Cut(View(C), vlen, vdim)))
  <1> DEFINE V == Cut(View(C), vlen, vdim)
             B == Recut(AbsOf(C), vlen, vdim, V)
             valid == r.m.valid
  <1>1. AbsOf(C)' = Map(valid, r.m.vlen, r.m.vdim, View(r.m))
    BY AbsIs DEF Map
  <1>2. AbsOf(C) = Map(C.valid, C.vlen, C.vdim, View(C))
    BY AbsIs DEF Map
  <1> HIDE DEF V
  <1>3. B = Map(C.valid, vlen, vdim, V)
    BY <1>2, MapResized
  <1> HIDE DEF B
  <1>4. Abstract!Invalid(AbsOf(C)) = Map(No, C.vlen, C.vdim, Cleared)
    BY <1>2, MapInvalid
  <1>5. Abstract!Invalid(B) = Map(No, vlen, vdim, Cleared)
    BY <1>3, MapInvalid
  <1>6. valid \in BOOLEAN /\ (~valid => View(r.m) = Cleared)
    BY ViewFreed DEF ShowsResized, Good, Matrices
  <1>7. \/ r.info = "SUCCESS" /\ AbsOf(C)' = B
        \/ /\ r.info = "OUT_OF_MEMORY"
           /\ AbsOf(C)' \in {Abstract!Invalid(AbsOf(C)), Abstract!Invalid(B)}
    <2>1. CASE r.info = "SUCCESS"
      <3>1. /\ r.m.valid /\ r.m.vlen = vlen /\ r.m.vdim = vdim /\ View(r.m) = V
        BY <2>1 DEF ShowsResized, V
      <3>2. valid = C.valid
        BY <1>6, <3>1
      <3> HIDE DEF valid
      <3> QED BY <1>1, <1>3, <2>1, <3>1, <3>2
    <2>2. CASE r.info # "SUCCESS"
      <3>1. /\ r.info = "OUT_OF_MEMORY" /\ ~r.m.valid
            /\ \/ r.m.vlen = C.vlen /\ r.m.vdim = C.vdim
               \/ r.m.vlen = vlen /\ r.m.vdim = vdim
        BY <2>2 DEF ShowsResized
      <3>2. valid = No /\ View(r.m) = Cleared
        BY <1>6, <3>1 DEF No
      <3> HIDE DEF valid
      <3> QED BY <1>1, <1>4, <1>5, <3>1, <3>2
    <2> QED BY <2>1, <2>2
  <1> HIDE DEF valid
  <1>8. Abstract!Update(call, B)
    BY <1>7 DEF Reply, Abstract!Update, Abstract!Fail, Abstract!Reply
  <1> QED BY <1>8 DEF B, V

-----------------------------------------------------------------------------
(* Each user function is a step of AbstractMatrix *)

\* A call that is refused, and one that is served.
LEMMA PerformStep ==
  ASSUME Intact, NEW call \in Abstract!Requests, NEW S, Perform(call, S),
         ASSUME C.valid = TRUE, NEW r \in S, C' = r.m, Reply(call, r.info, NoVal)
         PROVE  Abstract!Serve
  PROVE  Abstract!Next
  <1>1. C.valid \in BOOLEAN
    BY DEF Intact, Good, Matrices
  <1>2. CASE C.valid /\ \E r \in S : C' = r.m /\ Reply(call, r.info, NoVal)
    <2>1. C.valid = TRUE
      BY <1>1, <1>2
    <2>2. Abstract!Serve
      BY <1>2, <2>1
    <2> QED BY <1>2, <2>2, AbsFields DEF Abstract!Next
  <1>3. CASE Refuse(call)
    <2>1. ~AbsOf(C).valid /\ AbsOf(C)' = AbsOf(C)
      BY <1>3, AbsFields DEF Refuse
    <2>2. Abstract!Reply(call, "INVALID_OBJECT", NoVal)
      BY <1>3 DEF Refuse, Reply, Abstract!Reply
    <2> QED BY <2>1, <2>2 DEF Abstract!Next, Abstract!Refuse
  <1> QED BY <1>2, <1>3 DEF Perform

\* GrB_Matrix_setElement.
LEMMA SetStep ==
  ASSUME Intact, GrB_Matrix_setElement
  PROVE  Abstract!Next
  <1>1. PICK p \in Indices, s \in Val, t \in Types, accum \in Ops :
          Perform(<<"set", p, s, t, accum>>, SetElement(C, p, s, t, accum))
    BY DEF GrB_Matrix_setElement
  <1> DEFINE call == <<"set", p, s, t, accum>>
             V == Entered(View(C), p, s, t, accum)
             v == IF accum # NoOp /\ View(C)[p] # NoVal THEN Apply(accum, View(C)[p], t, s)
                  ELSE Cast(t, s)
  <1>2. call \in Abstract!Requests
    BY DEF Abstract!Requests
  <1>3. p \in Nat \X Nat
    BY CallsAssumption
  <1> HIDE DEF call
  <1>4. ASSUME C.valid = TRUE, NEW r \in SetElement(C, p, s, t, accum), C' = r.m,
               Reply(call, r.info, NoVal)
        PROVE  Abstract!Set(p, s, t, accum)
    <2>1. Ready(C)
      BY <1>4 DEF Intact, Ready
    <2>2. CASE InRange(C, p)
      <3>1. Shows(C, V, r)
        BY <1>3, <1>4, <2>1, <2>2, ShowsSetElement
      <3> HIDE DEF V
      <3>2. Abstract!Update(call, [AbsOf(C) EXCEPT !.val = V])
        BY <1>4, <3>1, UpdateStep
      <3>3. V = [AbsOf(C).val EXCEPT ![p] = v]
        BY AbsFields DEF V, Entered
      <3>4. [AbsOf(C) EXCEPT !.val = V] = [AbsOf(C) EXCEPT !.val[p] = v]
        BY <3>3
      <3>5. Abstract!Update(call, [AbsOf(C) EXCEPT !.val[p] = v])
        BY <3>2, <3>4
      <3> QED BY <2>2, <3>5, AbsFields
              DEF Abstract!Set, Abstract!InRange, Abstract!Present, InRange, call
    <2>3. CASE ~InRange(C, p)
      <3>1. r.m = C /\ r.info = "INVALID_INDEX"
        BY <1>4, <2>3 DEF SetElement
      <3>2. AbsOf(C)' = AbsOf(C) /\ Abstract!Reply(call, "INVALID_INDEX", NoVal)
        BY <1>4, <3>1 DEF Reply, Abstract!Reply
      <3> QED BY <2>3, <3>2, AbsFields DEF Abstract!Set, Abstract!InRange, InRange, call
    <2> QED BY <2>2, <2>3
  <1>5. ASSUME C.valid = TRUE, NEW r \in SetElement(C, p, s, t, accum), C' = r.m,
               Reply(call, r.info, NoVal)
        PROVE  Abstract!Serve
    BY <1>4, <1>5 DEF Abstract!Serve
  <1>6. Perform(call, SetElement(C, p, s, t, accum))
    BY <1>1 DEF call
  <1> QED BY <1>2, <1>5, <1>6, PerformStep

\* The outcomes of GrB_Matrix_removeElement where it does not crash.
LEMMA RemoveStep ==
  ASSUME Intact, GrB_Matrix_removeElement, reply'.info # "CRASH"
  PROVE  Abstract!Next
  <1>1. PICK p \in Indices : Perform(<<"remove", p>>, RemoveElement(C, p))
    BY DEF GrB_Matrix_removeElement
  <1> DEFINE call == <<"remove", p>>
             V == Removed(View(C), p)
             S == {r \in RemoveElement(C, p) : r.info # "CRASH"}
  <1>2. call \in Abstract!Requests
    BY DEF Abstract!Requests
  <1>3. p \in Nat \X Nat
    BY CallsAssumption
  <1>4. Perform(call, S)
    BY <1>1 DEF Perform, Reply
  <1> HIDE DEF call
  <1>5. ASSUME C.valid = TRUE, NEW r \in S, C' = r.m, Reply(call, r.info, NoVal)
        PROVE  Abstract!Remove(p)
    <2>1. Ready(C) /\ r \in RemoveElement(C, p) /\ r.info # "CRASH"
      BY <1>5 DEF Intact, Ready
    <2>2. CASE InRange(C, p) /\ Shows(C, V, r)
      <3> HIDE DEF V
      <3>1. Abstract!Update(call, [AbsOf(C) EXCEPT !.val = V])
        BY <1>5, <2>2, UpdateStep
      <3>2. V = [AbsOf(C).val EXCEPT ![p] = NoVal]
        BY AbsFields DEF V, Removed
      <3>3. [AbsOf(C) EXCEPT !.val = V] = [AbsOf(C) EXCEPT !.val[p] = NoVal]
        BY <3>2
      <3>4. Abstract!Update(call, [AbsOf(C) EXCEPT !.val[p] = NoVal])
        BY <3>1, <3>3
      <3> QED BY <2>2, <3>4, AbsFields DEF Abstract!Remove, Abstract!InRange, InRange, call
    <2>3. CASE ~InRange(C, p) /\ Observes(C, r)
      <3>1. Abstract!Observe(call, "INVALID_INDEX", NoVal)
        BY <1>5, <2>3, ObserveStep
      <3> QED BY <2>3, <3>1, AbsFields DEF Abstract!Remove, Abstract!InRange, InRange, call
    <2> QED BY <1>3, <2>1, <2>2, <2>3, ShowsRemoveElement
  <1>6. ASSUME C.valid = TRUE, NEW r \in S, C' = r.m, Reply(call, r.info, NoVal)
        PROVE  Abstract!Serve
    BY <1>5, <1>6 DEF Abstract!Serve
  <1> HIDE DEF S
  <1> QED BY <1>2, <1>4, <1>6, PerformStep

\* A refused call.
LEMMA RefuseStep ==
  ASSUME Intact, NEW call \in Abstract!Requests, Refuse(call)
  PROVE  Abstract!Next
  <1>1. ~AbsOf(C).valid /\ AbsOf(C)' = AbsOf(C)
    BY AbsFields DEF Refuse
  <1>2. Abstract!Reply(call, "INVALID_OBJECT", NoVal)
    BY DEF Refuse, Reply, Abstract!Reply
  <1> QED BY <1>1, <1>2 DEF Abstract!Next, Abstract!Refuse

\* GrB_Matrix_extractElement returns what the user sees at p.
LEMMA ExtractStep ==
  ASSUME Intact, GrB_Matrix_extractElement
  PROVE  Abstract!Next
  <1>1. PICK p \in Indices :
          \/ Refuse(<<"extract", p>>)
          \/ /\ C.valid
             /\ \E r \in WaitIf(AnyPendingWork(C), C) :
                  LET info == IF r.info = "SUCCESS" THEN ExtractInfo(r.m, p) ELSE r.info
                  IN  /\ C' = r.m
                      /\ Reply(<<"extract", p>>, info,
                               IF info = "SUCCESS" THEN r.m.entry[p] ELSE NoVal)
    BY DEF GrB_Matrix_extractElement
  <1> DEFINE call == <<"extract", p>>
             info(r) == IF r.info = "SUCCESS" THEN ExtractInfo(r.m, p) ELSE r.info
             x == View(C)[p]
  <1>2. call \in Abstract!Requests
    BY DEF Abstract!Requests
  <1>3. CASE Refuse(call)
    BY <1>2, <1>3, RefuseStep
  <1>4. CASE ~Refuse(call)
    <2>1. PICK r \in WaitIf(AnyPendingWork(C), C) :
            /\ C' = r.m
            /\ Reply(call, info(r), IF info(r) = "SUCCESS" THEN r.m.entry[p] ELSE NoVal)
      BY <1>1, <1>4
    <2>2. C.valid /\ Ready(C) /\ C.valid = TRUE
      BY <1>1, <1>4 DEF Intact, Ready, Good, Matrices
    <2>3. Shows(C, View(C), r)
      BY <2>2, KeepingWaiters DEF Keeping
    <2>4. CASE r.info = "SUCCESS"
      <3>1. /\ ~InRange(C, p) => ExtractInfo(r.m, p) = "INVALID_INDEX"
            /\ InRange(C, p) /\ x = NoVal => ExtractInfo(r.m, p) = "NO_VALUE"
            /\ InRange(C, p) /\ x # NoVal =>
                  ExtractInfo(r.m, p) = "SUCCESS" /\ r.m.entry[p] = x
        BY <2>2, <2>4, ExtractReturns, CallsAssumption
      <3>2. AbsOf(C)' = AbsOf(C)
        BY <2>1, <2>2, <2>3, <2>4, KeptStep
      <3> HIDE DEF x, call
      <3>3. /\ ~InRange(C, p) => Reply(call, "INVALID_INDEX", NoVal)
            /\ InRange(C, p) /\ x = NoVal => Reply(call, "NO_VALUE", NoVal)
            /\ InRange(C, p) /\ x # NoVal => Reply(call, "SUCCESS", x)
        BY <2>1, <2>4, <3>1
      <3>4. /\ ~InRange(C, p) => Abstract!Observe(call, "INVALID_INDEX", NoVal)
            /\ InRange(C, p) /\ x = NoVal => Abstract!Observe(call, "NO_VALUE", NoVal)
            /\ InRange(C, p) /\ x # NoVal => Abstract!Observe(call, "SUCCESS", x)
        BY <3>2, <3>3 DEF Reply, Abstract!Reply, Abstract!Observe
      <3>5. InRange(C, p) <=> Abstract!InRange(p)
        BY AbsFields DEF InRange, Abstract!InRange
      <3>6. x = AbsOf(C).val[p]
        BY AbsFields DEF x
      <3>7. Abstract!Extract(p)
        BY <3>4, <3>5, <3>6 DEF Abstract!Extract, Abstract!Present, call
      <3> QED BY <2>2, <3>7, AbsFields DEF Abstract!Next, Abstract!Serve
    <2>5. CASE r.info # "SUCCESS"
      <3>1. info(r) = r.info /\ Reply(call, r.info, NoVal)
        BY <2>1, <2>5
      <3> HIDE DEF call
      <3>2. Abstract!Fail(call, AbsOf(C))
        BY <2>1, <2>2, <2>3, <2>5, <3>1, KeptStep
      <3>3. Abstract!Extract(p)
        BY <3>2 DEF Abstract!Extract, Abstract!Observe, call
      <3> QED BY <2>2, <3>3, AbsFields DEF Abstract!Next, Abstract!Serve
    <2> QED BY <2>4, <2>5
  <1> QED BY <1>3, <1>4

\* The same operator, in AbstractMatrix.
LEMMA CardSame ==
  ASSUME NEW S
  PROVE  Abstract!Cardinality(S) = Cardinality(S)
  BY DEF Cardinality, Abstract!Cardinality

\* GrB_Matrix_nvals counts the entries that the user sees.
LEMMA NvalsStep ==
  ASSUME Intact, GrB_Matrix_nvals
  PROVE  Abstract!Next
  <1> DEFINE call == <<"nvals">>
             n == Cardinality({p \in Pos : View(C)[p] # NoVal})
  <1>1. call \in Abstract!Requests
    BY DEF Abstract!Requests
  <1>2. CASE Refuse(call)
    BY <1>1, <1>2, RefuseStep
  <1>3. CASE ~Refuse(call)
    <2>1. PICK r \in WaitIf(HasPending(C), C) :
            /\ C' = r.m
            /\ Reply(call, r.info,
                     IF r.info = "SUCCESS" THEN Nnz(r.m) - r.m.nzombies ELSE NoVal)
      BY <1>3 DEF GrB_Matrix_nvals
    <2>2. C.valid /\ Ready(C) /\ C.valid = TRUE
      BY <1>3 DEF Intact, Ready, Good, Matrices, GrB_Matrix_nvals
    <2>3. Shows(C, View(C), r)
      BY <2>2, KeepingWaiters DEF Keeping
    <2>4. Abstract!Nvals
      <3>1. CASE r.info = "SUCCESS"
        <4>1. Nnz(r.m) - r.m.nzombies = n
          BY <2>2, <3>1, NvalsReturns
        <4>2. AbsOf(C)' = AbsOf(C)
          BY <2>1, <2>2, <2>3, <3>1, KeptStep
        <4>3. n = Abstract!Cardinality({p \in Abstract!Pos : Abstract!Present(p)})
          BY AbsFields, CardSame DEF Abstract!Present, Abstract!Pos, Pos
        <4> HIDE DEF n
        <4>4. Reply(call, "SUCCESS", n)
          BY <2>1, <3>1, <4>1
        <4> QED BY <4>2, <4>3, <4>4
                DEF Reply, Abstract!Reply, Abstract!Observe, Abstract!Nvals
      <3>2. CASE r.info # "SUCCESS"
        <4>1. Reply(call, r.info, NoVal)
          BY <2>1, <3>2
        <4>2. Abstract!Fail(call, AbsOf(C))
          BY <2>1, <2>2, <2>3, <3>2, <4>1, KeptStep
        <4> QED BY <4>2 DEF Abstract!Observe, Abstract!Nvals
      <3> QED BY <3>1, <3>2
    <2> QED BY <2>2, <2>4, AbsFields DEF Abstract!Next, Abstract!Serve
  <1> QED BY <1>2, <1>3

\* The functions that change how the matrix is held, and nothing else.
LEMMA SettingStep ==
  ASSUME Intact, NEW call \in Abstract!Settings, NEW S, Perform(call, S),
         C.valid => Keeping(C, S)
  PROVE  Abstract!Next
  <1>1. call \in Abstract!Requests
    BY DEF Abstract!Requests
  <1>2. ASSUME C.valid = TRUE, NEW r \in S, C' = r.m, Reply(call, r.info, NoVal)
        PROVE  Abstract!Serve
    <2>1. Shows(C, View(C), r)
      BY <1>2 DEF Keeping
    <2>2. Abstract!Update(call, AbsOf(C))
      BY <1>2, <2>1, KeepingStep
    <2> QED BY <2>2 DEF Abstract!Serve
  <1> QED BY <1>1, <1>2, PerformStep

\* GrB_Matrix_wait and the options of GrB_Matrix_set.
LEMMA SettingsStep ==
  ASSUME Intact,
         GrB_Matrix_wait \/ GxB_SPARSITY_CONTROL \/ GxB_HYPER_HASH \/ GxB_ISO
  PROVE  Abstract!Next
  <1>1. C.valid => Ready(C)
    BY DEF Intact, Ready
  <1>2. CASE GrB_Matrix_wait
    <2>1. <<"wait">> \in Abstract!Settings
      BY DEF Abstract!Settings
    <2>2. C.valid => Keeping(C, MatrixWait(C))
      BY <1>1, KeepingWaiters
    <2> QED BY <1>2, <2>1, <2>2, SettingStep DEF GrB_Matrix_wait
  <1>3. CASE GxB_SPARSITY_CONTROL
    <2>1. PICK c \in Controls : Perform(<<"control", c>>, SetSparsityControl(C, c))
      BY <1>3 DEF GxB_SPARSITY_CONTROL
    <2>2. <<"control", c>> \in Abstract!Settings
      BY DEF Abstract!Settings
    <2>3. C.valid => Keeping(C, SetSparsityControl(C, c))
      BY <1>1, CallsAssumption, KeepingControls DEF SetSparsityControl
    <2> QED BY <2>1, <2>2, <2>3, SettingStep
  <1>4. CASE GxB_HYPER_HASH
    <2>1. PICK wanted \in BOOLEAN : Perform(<<"hash", wanted>>, SetHyperHash(C, wanted))
      BY <1>4 DEF GxB_HYPER_HASH
    <2>2. <<"hash", wanted>> \in Abstract!Settings
      BY DEF Abstract!Settings
    <2>3. C.valid => Keeping(C, SetHyperHash(C, wanted))
      <3> DEFINE nohash == ~wanted
      <3>1. nohash \in BOOLEAN
        OBVIOUS
      <3>2. SetHyperHash(C, wanted) = Conform([C EXCEPT !.nohash = nohash])
        BY DEF SetHyperHash
      <3>3. NewControls \cup Controls \subseteq (SUBSET Formats) \ {{}}
        BY CallsAssumption
      <3>4. Formats \in (SUBSET Formats) \ {{}}
        BY DEF Formats
      <3> HIDE DEF nohash
      <3> QED BY <1>1, <3>1, <3>2, <3>4, KeepingControls
    <2> QED BY <2>1, <2>2, <2>3, SettingStep
  <1>5. CASE GxB_ISO
    <2>1. PICK wanted \in BOOLEAN : Perform(<<"iso", wanted>>, SetIso(C, wanted))
      BY <1>5 DEF GxB_ISO
    <2>2. <<"iso", wanted>> \in Abstract!Settings
      BY DEF Abstract!Settings
    <2>3. C.valid => Keeping(C, SetIso(C, wanted))
      BY <1>1, KeepingSetIso
    <2> QED BY <2>1, <2>2, <2>3, SettingStep
  <1> QED BY <1>2, <1>3, <1>4, <1>5

\* GrB_Matrix_clear.
LEMMA ClearStep ==
  ASSUME Intact, GrB_Matrix_clear
  PROVE  Abstract!Next
  <1> DEFINE call == <<"clear">>
             S == Clear(C)
  <1>1. call \in Abstract!Requests
    BY DEF Abstract!Requests
  <1>2. Perform(call, S)
    BY DEF GrB_Matrix_clear
  <1>3. ASSUME C.valid = TRUE, NEW r \in S, C' = r.m, Reply(call, r.info, NoVal)
        PROVE  Abstract!Serve
    <2>1. Shows(C, Cleared, r)
      BY <1>3, IntactUsable, ShowsClear
    <2> HIDE DEF call
    <2>2. Abstract!Update(call, [AbsOf(C) EXCEPT !.val = Cleared])
      BY <1>3, <2>1, UpdateStep
    <2>3. Abstract!NoContent = Cleared
      BY DEF Abstract!NoContent, Abstract!Pos, Pos, Cleared
    <2> QED BY <2>2, <2>3 DEF Abstract!Serve, Abstract!Clear, call
  <1> HIDE DEF S
  <1> QED BY <1>1, <1>2, <1>3, PerformStep

\* GrB_Matrix_resize.
LEMMA ResizedStep ==
  ASSUME Intact, GrB_Matrix_resize
  PROVE  Abstract!Next
  <1>1. PICK d \in NewDims : Perform(<<"resize", d>>, Resize(C, d[1], d[2]))
    BY DEF GrB_Matrix_resize
  <1> DEFINE call == <<"resize", d>>
             S == Resize(C, d[1], d[2])
             V == Cut(View(C), d[1], d[2])
  <1>2. call \in Abstract!Requests
    BY DEF Abstract!Requests
  <1>3. Perform(call, S)
    BY <1>1
  <1>4. ASSUME C.valid = TRUE, NEW r \in S, C' = r.m, Reply(call, r.info, NoVal)
        PROVE  Abstract!Resize(d)
    <2>1. d[1] \in 0 .. MaxVlen /\ d[2] \in 0 .. MaxVdim
      BY CallsAssumption
    <2>2. ShowsResized(C, d[1], d[2], r)
      BY <1>4, <2>1, IntactUsable, ShowsResize
    <2> HIDE DEF call, V
    <2>3. Abstract!Update(call, Recut(AbsOf(C), d[1], d[2], V))
      BY <1>4, <2>2, ResizeStep DEF V
    <2>4. V = [p \in Abstract!Pos |-> IF p[1] < d[1] /\ p[2] < d[2]
                                       THEN AbsOf(C).val[p] ELSE NoVal]
      BY AbsFields DEF V, Cut, Abstract!Pos, Pos
    <2> QED BY <2>3, <2>4, Zenon DEF Recut, Abstract!Resize, call
  <1>5. ASSUME C.valid = TRUE, NEW r \in S, C' = r.m, Reply(call, r.info, NoVal)
        PROVE  Abstract!Serve
    BY <1>4, <1>5 DEF Abstract!Serve
  <1> HIDE DEF S, call
  <1> QED BY <1>2, <1>3, <1>5, PerformStep

\* The assignment C = T of a result.
LEMMA AssignStep ==
  ASSUME Intact, Assign
  PROVE  Abstract!Next
  <1>1. PICK T \in Results :
          T.vlen = C.vlen /\ T.vdim = C.vdim /\ Perform(<<"assign", T>>, AssignResult(C, T))
    BY DEF Assign
  <1> DEFINE call == <<"assign", T>>
             S == AssignResult(C, T)
             Contents == [X \in Results |-> AbsOf(X)]
  <1>2. call \in Abstract!Requests
    BY DEF Abstract!Requests
  <1>3. Ready(T) /\ ~HasPending(T)
    BY ResultsAssumption DEF Ready, Good, MatrixOK, HasPending, NoPending
  <1>4. Perform(call, S)
    BY <1>1
  <1>5. ASSUME C.valid = TRUE, NEW r \in S, C' = r.m, Reply(call, r.info, NoVal)
        PROVE  Abstract!Serve
    <2>1. Shows(C, View(T), r)
      BY <1>1, <1>3, <1>5, ShowsAssignResult DEF Intact, Ready
    <2> HIDE DEF call
    <2>2. Abstract!Update(call, [AbsOf(C) EXCEPT !.val = View(T)])
      BY <1>5, <2>1, UpdateStep
    <2>3. Contents[T] = AbsOf(T)
      OBVIOUS
    <2> HIDE DEF Contents
    <2>4. /\ Contents[T].vlen = AbsOf(C).vlen /\ Contents[T].vdim = AbsOf(C).vdim
          /\ Contents[T].val = View(T)
      BY <1>1, <2>3, AbsFields
    <2>5. Abstract!Update(call, [AbsOf(C) EXCEPT !.val = Contents[T].val])
      BY <2>2, <2>4
    <2>6. Abstract!Assign(T)
      BY <2>4, <2>5 DEF Abstract!Assign, call, Contents
    <2> QED BY <2>6 DEF Abstract!Serve
  <1> HIDE DEF S, call
  <1> QED BY <1>2, <1>4, <1>5, PerformStep

\* A new matrix is an empty map.
LEMMA InitStep ==
  ASSUME Init
  PROVE  Abstract!Init
  <1>1. PICK d \in NewDims, c \in NewControls : C \in Created(d[1], d[2], c)
    BY DEF Init
  <1> DEFINE A == NewMatrix(d[1], d[2])
             set == SetSparsityControl(A, c)
  <1>2. d[1] \in 0 .. MaxVlen /\ d[2] \in 0 .. MaxVdim /\ c \in (SUBSET Formats) \ {{}}
    BY CallsAssumption
  <1>3. Ready(A)
    BY <1>2, UsableNewMatrix DEF Usable
  <1>4. A.vlen = d[1] /\ A.vdim = d[2] /\ A.pend.tup = <<>> /\ A.entry = EmptyEntry
    BY DEF NewMatrix, NoPending
  <1>5. C = A \/ \E r \in set : r.info = "SUCCESS" /\ C = r.m
    BY <1>1 DEF Created
  <1> HIDE DEF A
  <1>6. View(A) = Cleared
    BY <1>4, ViewEmpty
  <1>7. Keeping(A, set)
    BY <1>2, <1>3, KeepingControls DEF SetSparsityControl
  <1> HIDE DEF set
  <1>8. C.vlen = d[1] /\ C.vdim = d[2] /\ View(C) = Cleared /\ C.valid /\ C.valid \in BOOLEAN
    <2>1. CASE C = A
      BY <1>3, <1>4, <1>6, <2>1 DEF Ready, Good, Matrices
    <2>2. CASE \E r \in set : r.info = "SUCCESS" /\ C = r.m
      <3>1. PICK r \in set : r.info = "SUCCESS" /\ C = r.m
        BY <2>2
      <3>2. Shows(A, View(A), r)
        BY <1>7, <3>1 DEF Keeping
      <3> QED BY <1>4, <1>6, <3>1, <3>2 DEF Shows, Good, Matrices
    <2> QED BY <1>5, <2>1, <2>2
  <1>9. Abstract!NoContent = Cleared
    BY DEF Abstract!NoContent, Abstract!Pos, Pos, Cleared
  <1>10. C.valid = TRUE
    BY <1>8
  <1>11. AbsOf(C) = [valid |-> TRUE, vlen |-> d[1], vdim |-> d[2], val |-> Abstract!NoContent]
    BY <1>8, <1>9, <1>10, AbsIs
  <1> QED BY <1>11 DEF Init, Abstract!Init

\* Every call that does not crash is a step of AbstractMatrix.
LEMMA RefinesNext ==
  ASSUME Intact, SurvivingNext
  PROVE  Abstract!Next
  BY SetStep, RemoveStep, ExtractStep, NvalsStep, SettingsStep, ClearStep, ResizedStep,
     AssignStep DEF SurvivingNext, OtherCall

-----------------------------------------------------------------------------
(* The theorem *)

\* However its work is deferred, whatever structure it is held in and wherever
\* memory runs out, a GrB_Matrix is a map from positions to values that each
\* user function updates at once, and every value returned is the one that the
\* calls so far have given: as long as GrB_Matrix_removeElement does not crash.
THEOREM ImplementsMap == SurvivingSpec => Refines
  <1>1. Init => Intact
    BY InvInit DEF Inv
  <1>2. Intact /\ [SurvivingNext]_vars => Intact'
    <2>1. CASE SurvivingNext
      BY <2>1, IntactNext DEF SurvivingNext, Next, Inv
    <2>2. CASE UNCHANGED vars
      BY <2>2 DEF vars, Intact
    <2> QED BY <2>1, <2>2
  <1>3. Init => Abstract!Init
    BY InitStep
  <1>4. Intact /\ [SurvivingNext]_vars => [Abstract!Next]_<<AbsOf(C), reply>>
    <2>1. CASE SurvivingNext
      BY <2>1, RefinesNext
    <2>2. CASE UNCHANGED vars
      BY <2>2 DEF vars, AbsOf
    <2> QED BY <2>1, <2>2
  <1> QED BY <1>1, <1>2, <1>3, <1>4, PTL DEF SurvivingSpec, Refines, Abstract!Spec
=============================================================================
