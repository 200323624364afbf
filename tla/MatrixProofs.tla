----------------------------- MODULE MatrixProofs -----------------------------
(***************************************************************************)
(* The safety invariants of one GrB_Matrix, proved for every bound on the  *)
(* dimensions, every type, operator and option, and every set of calls.    *)
(***************************************************************************)
EXTENDS MatrixInvariants, MatrixOpsProofs

-----------------------------------------------------------------------------
(* The inductive invariant: MatrixOK alone says nothing of the type, and Good  *)
(* says in addition what the functions rely on of a matrix that is valid.   *)

Intact == Good(C) /\ Orderly(C)

Inv == Intact /\ reply \in Replies

\* The inductive invariant implies the properties that the runs check.
LEMMA InvSound ==
  ASSUME Inv
  PROVE  /\ TypeOK /\ StructureSound /\ WorkSound /\ IsoSound /\ FreedSound
  BY DEF Inv, Intact, Orderly, Good, TypeOK, StructureSound, WorkSound, IsoSound,
         FreedSound, MatrixOK

\* A matrix that is not freed can be given to any user function.
LEMMA IntactUsable ==
  ASSUME Intact, C.valid
  PROVE  Usable(C)
  BY DEF Intact, Usable, Ready

\* A new matrix is sound, with whatever sparsity control its user sets.
LEMMA InvInit ==
  ASSUME Init
  PROVE  Inv
  <1>1. PICK d \in NewDims, c \in NewControls : C \in Created(d[1], d[2], c)
    BY DEF Init
  <1>2. d[1] \in 0 .. MaxVlen /\ d[2] \in 0 .. MaxVdim /\ c \in (SUBSET Formats) \ {{}}
    BY CallsAssumption
  <1> DEFINE A == NewMatrix(d[1], d[2])
             set == SetSparsityControl(A, c)
  <1>3. Usable(A)
    BY <1>2, UsableNewMatrix
  <1>4. C = A \/ \E q \in set : C = q.m
    BY <1>1 DEF Created
  <1> HIDE DEF A
  <1>5. Keeps(set)
    BY <1>2, <1>3, SafeSetSparsityControl, SafeKeeps DEF Usable
  <1>6. Good(C) /\ Orderly(C)
    BY <1>3, <1>4, <1>5 DEF Usable, Ready, Keeps
  <1>7. reply \in Replies
    BY DEF Init, Replies, Requests, Infos
  <1> QED BY <1>6, <1>7 DEF Inv, Intact

-----------------------------------------------------------------------------
(* One step *)

\* A call with sound outcomes, or refused.
LEMMA InvPerform ==
  ASSUME Intact, NEW call \in Requests, NEW S, C.valid => Keeps(S), Perform(call, S)
  PROVE  Inv'
  <1>1. CASE C.valid /\ \E r \in S : C' = r.m /\ Reply(call, r.info, NoVal)
    <2>1. PICK r \in S : C' = r.m /\ Reply(call, r.info, NoVal)
      BY <1>1
    <2>2. r \in Outcomes /\ Good(r.m) /\ Orderly(r.m)
      BY <1>1, <2>1 DEF Keeps
    <2>3. reply' \in Replies
      BY <2>1, <2>2 DEF Reply, Replies, Infos, Outcomes
    <2> QED BY <2>1, <2>2, <2>3 DEF Inv, Intact
  <1>2. CASE Refuse(call)
    BY <1>2 DEF Inv, Intact, Refuse, Reply, Replies, Infos
  <1> QED BY <1>1, <1>2 DEF Perform

\* A refused call changes nothing (GB_valid_matrix).
LEMMA InvRefuse ==
  ASSUME Intact, NEW call \in Requests, Refuse(call)
  PROVE  Inv'
  BY DEF Inv, Intact, Refuse, Reply, Replies, Infos

\* The value that GrB_Matrix_extractElement returns is one of the matrix type.
LEMMA InvExtract ==
  ASSUME Intact, GrB_Matrix_extractElement
  PROVE  Inv'
  <1>1. PICK p \in Indices :
          \/ Refuse(<<"extract", p>>)
          \/ /\ C.valid
             /\ \E r \in WaitIf(AnyPendingWork(C), C) :
                  LET info == IF r.info = "SUCCESS" THEN ExtractInfo(r.m, p) ELSE r.info
                  IN  /\ C' = r.m
                      /\ Reply(<<"extract", p>>, info,
                               IF info = "SUCCESS" THEN r.m.entry[p] ELSE NoVal)
    BY DEF GrB_Matrix_extractElement
  <1>2. <<"extract", p>> \in Requests
    BY DEF Requests
  <1>3. CASE Refuse(<<"extract", p>>)
    BY <1>2, <1>3, InvRefuse
  <1>4. CASE ~Refuse(<<"extract", p>>)
    <2> DEFINE info(r) == IF r.info = "SUCCESS" THEN ExtractInfo(r.m, p) ELSE r.info
    <2>1. PICK r \in WaitIf(AnyPendingWork(C), C) :
            /\ C' = r.m
            /\ Reply(<<"extract", p>>, info(r),
                     IF info(r) = "SUCCESS" THEN r.m.entry[p] ELSE NoVal)
      BY <1>1, <1>4
    <2>2. C.valid /\ Usable(C)
      BY <1>1, <1>4, IntactUsable
    <2>3. r \in Outcomes /\ Good(r.m) /\ Orderly(r.m)
      BY <2>2, SafeWaitIf, SafeKeeps DEF Usable, Keeps
    <2>4. info(r) \in Infos /\ (info(r) = "SUCCESS" => r.m.entry[p] \in Val)
      BY <2>3 DEF ExtractInfo, Infos, Outcomes
    <2> HIDE DEF info
    <2>5. reply' \in Replies
      BY <1>2, <2>1, <2>4 DEF Reply, Replies
    <2> QED BY <2>1, <2>3, <2>5 DEF Inv, Intact
  <1> QED BY <1>3, <1>4

\* The number of live entries, once the pending tuples are assembled.
LEMMA LiveCount ==
  ASSUME NEW A, Ready(A)
  PROVE  Nnz(A) - A.nzombies \in Nat
  <1>1. A \in Matrices /\ StructureOK(A)
    BY DEF Ready, Good
  <1>2. CASE A.fmt = "full"
    <2>1. A.nzombies = 0 /\ Nnz(A) \in Nat
      BY <1>1, <1>2, FullHolds, DenseNat DEF AnyPendingWork, Nnz, Matrices
    <2> QED BY <2>1
  <1>3. CASE A.fmt # "full"
    <2>1. A.nvals - A.nzombies = Cardinality(Held(A) \ Zombies(A))
      <3>1. Zombies(A) \subseteq Held(A) /\ IsFiniteSet(Held(A)) /\ IsFiniteSet(Zombies(A))
        BY HeldType, CountNat, ValAssumption DEF Zombies, Held
      <3>2. Held(A) \cap Zombies(A) = Zombies(A)
        BY <3>1
      <3>3. Cardinality(Held(A) \ Zombies(A))
              = Cardinality(Held(A)) - Cardinality(Held(A) \cap Zombies(A))
        BY <3>1, FS_Difference
      <3> QED BY <1>1, <1>3, <3>2, <3>3 DEF StructureOK, CountsExact
    <2>2. Cardinality(Held(A) \ Zombies(A)) \in Nat
      BY HeldType, CountNat
    <2> QED BY <1>3, <2>1, <2>2 DEF Nnz
  <1> QED BY <1>2, <1>3

\* GrB_Matrix_nvals, which may assemble pending tuples, keeps the invariant.
LEMMA InvNvals ==
  ASSUME Intact, GrB_Matrix_nvals
  PROVE  Inv'
  <1>1. <<"nvals">> \in Requests
    BY DEF Requests
  <1>2. CASE Refuse(<<"nvals">>)
    BY <1>1, <1>2, InvRefuse
  <1>3. CASE ~Refuse(<<"nvals">>)
    <2>1. C.valid /\ Usable(C)
      BY <1>3, IntactUsable DEF GrB_Matrix_nvals
    <2>2. PICK r \in WaitIf(HasPending(C), C) :
            /\ C' = r.m
            /\ Reply(<<"nvals">>, r.info,
                     IF r.info = "SUCCESS" THEN Nnz(r.m) - r.m.nzombies ELSE NoVal)
      BY <1>3 DEF GrB_Matrix_nvals
    <2>3. /\ r \in Outcomes /\ Good(r.m) /\ Orderly(r.m)
          /\ r.info = "SUCCESS" => r.m.valid
      BY <2>1, SafeWaitIf, SafeKeeps DEF Usable, Keeps, Safe
    <2>4. r.info = "SUCCESS" => Nnz(r.m) - r.m.nzombies \in Nat
      BY <2>3, LiveCount DEF Ready
    <2>5. reply' \in Replies
      BY <1>1, <2>2, <2>3, <2>4 DEF Reply, Replies, Infos, Outcomes
    <2> QED BY <2>2, <2>3, <2>5 DEF Inv, Intact
  <1> QED BY <1>2, <1>3

\* Every user function keeps the invariant, whatever was replied before.
LEMMA IntactNext ==
  ASSUME Intact, Next
  PROVE  Inv'
  <1>1. C.valid => Usable(C) /\ Ready(C) /\ Orderly(C)
    BY IntactUsable DEF Usable
  <1>3. CASE GrB_Matrix_setElement
    <2>1. PICK p \in Indices, s \in Val, t \in Types, accum \in Ops :
            Perform(<<"set", p, s, t, accum>>, SetElement(C, p, s, t, accum))
      BY <1>3 DEF GrB_Matrix_setElement
    <2>2. <<"set", p, s, t, accum>> \in Requests
      BY DEF Requests
    <2>3. C.valid => Keeps(SetElement(C, p, s, t, accum))
      BY <1>1, CallsAssumption, KeepsSetElement
    <2> QED BY <2>1, <2>2, <2>3, InvPerform
  <1>4. CASE GrB_Matrix_removeElement
    <2>1. PICK p \in Indices : Perform(<<"remove", p>>, RemoveElement(C, p))
      BY <1>4 DEF GrB_Matrix_removeElement
    <2>2. <<"remove", p>> \in Requests
      BY DEF Requests
    <2>3. C.valid => Keeps(RemoveElement(C, p))
      BY <1>1, CallsAssumption, KeepsRemoveElement
    <2> QED BY <2>1, <2>2, <2>3, InvPerform
  <1>5. CASE GrB_Matrix_extractElement
    BY <1>5, InvExtract
  <1>6. CASE GrB_Matrix_nvals
    BY <1>6, InvNvals
  <1>7. CASE GrB_Matrix_wait
    <2>1. <<"wait">> \in Requests
      BY DEF Requests
    <2>2. C.valid => Keeps(MatrixWait(C))
      BY <1>1, SafeMatrixWait, SafeKeeps DEF Settled
    <2> QED BY <1>7, <2>1, <2>2, InvPerform DEF GrB_Matrix_wait
  <1>8. CASE GrB_Matrix_clear
    <2>1. <<"clear">> \in Requests
      BY DEF Requests
    <2>2. C.valid => Keeps(Clear(C))
      BY <1>1, KeepsClear
    <2> QED BY <1>8, <2>1, <2>2, InvPerform DEF GrB_Matrix_clear
  <1>9. CASE GrB_Matrix_resize
    <2>1. PICK d \in NewDims : Perform(<<"resize", d>>, Resize(C, d[1], d[2]))
      BY <1>9 DEF GrB_Matrix_resize
    <2>2. <<"resize", d>> \in Requests
      BY DEF Requests
    <2>3. C.valid => Keeps(Resize(C, d[1], d[2]))
      BY <1>1, CallsAssumption, KeepsResize
    <2> QED BY <2>1, <2>2, <2>3, InvPerform
  <1>10. CASE GxB_SPARSITY_CONTROL
    <2>1. PICK c \in Controls : Perform(<<"control", c>>, SetSparsityControl(C, c))
      BY <1>10 DEF GxB_SPARSITY_CONTROL
    <2>2. <<"control", c>> \in Requests
      BY DEF Requests
    <2>3. C.valid => Keeps(SetSparsityControl(C, c))
      BY <1>1, CallsAssumption, SafeSetSparsityControl, SafeKeeps
    <2> QED BY <2>1, <2>2, <2>3, InvPerform
  <1>11. CASE GxB_HYPER_HASH
    <2>1. PICK wanted \in BOOLEAN : Perform(<<"hash", wanted>>, SetHyperHash(C, wanted))
      BY <1>11 DEF GxB_HYPER_HASH
    <2>2. <<"hash", wanted>> \in Requests
      BY DEF Requests
    <2>3. C.valid => Keeps(SetHyperHash(C, wanted))
      BY <1>1, SafeSetHyperHash, SafeKeeps
    <2> QED BY <2>1, <2>2, <2>3, InvPerform
  <1>12. CASE GxB_ISO
    <2>1. PICK wanted \in BOOLEAN : Perform(<<"iso", wanted>>, SetIso(C, wanted))
      BY <1>12 DEF GxB_ISO
    <2>2. <<"iso", wanted>> \in Requests
      BY DEF Requests
    <2>3. C.valid => Keeps(SetIso(C, wanted))
      BY <1>1, SafeSetIso, SafeKeeps
    <2> QED BY <2>1, <2>2, <2>3, InvPerform
  <1>13. CASE Assign
    <2>1. PICK T \in Results : Perform(<<"assign", T>>, AssignResult(C, T))
      BY <1>13 DEF Assign
    <2>2. <<"assign", T>> \in Requests
      BY DEF Requests
    <2>3. Ready(T) /\ ~HasPending(T)
      BY ResultsAssumption DEF Ready, Good, MatrixOK, HasPending, NoPending
    <2>4. C.valid => Keeps(AssignResult(C, T))
      BY <1>1, <2>3, KeepsAssignResult
    <2> QED BY <2>1, <2>2, <2>4, InvPerform
  <1> QED BY <1>3, <1>4, <1>5, <1>6, <1>7, <1>8, <1>9, <1>10, <1>11, <1>12, <1>13
          DEF Next, OtherCall

-----------------------------------------------------------------------------
(* The theorems *)

\* The inductive invariant holds of every behaviour.
THEOREM Invariant == Spec => []Inv
  <1>1. Init => Inv
    BY InvInit
  <1>2. Inv /\ [Next]_vars => Inv'
    BY IntactNext DEF Inv, Intact, vars
  <1> QED BY <1>1, <1>2, PTL DEF Spec

\* The matrix always has the type of struct GB_Matrix_opaque, and each call
\* returns a GrB_Info and a value that it may return.
THEOREM TypeCorrect == Spec => []TypeOK
  <1>1. Inv => TypeOK
    BY InvSound
  <1> QED BY <1>1, Invariant, PTL

\* The counters, the hyperlist and the hash always agree with the entries.
THEOREM StructureIsSound == Spec => []StructureSound
  <1>1. Inv => StructureSound
    BY InvSound
  <1> QED BY <1>1, Invariant, PTL

\* The deferred work is always such that finishing it is correct, and there
\* is never more of it than GB_block allows.
THEOREM WorkIsSound == Spec => []WorkSound
  <1>1. Inv => WorkSound
    BY InvSound
  <1> QED BY <1>1, Invariant, PTL

\* One value always stands for all entries of an iso matrix.
THEOREM IsoIsSound == Spec => []IsoSound
  <1>1. Inv => IsoSound
    BY InvSound
  <1> QED BY <1>1, Invariant, PTL

\* Wherever memory runs out, a matrix is either sound or freed as a whole.
THEOREM FreedIsSound == Spec => []FreedSound
  <1>1. Inv => FreedSound
    BY InvSound
  <1> QED BY <1>1, Invariant, PTL

-----------------------------------------------------------------------------
(* The sparsity control, and the count A->nvec_nonempty.  What a function does *)
(* to them depends on the header of the matrix alone, not on its soundness.  *)

\* The header: the fields that this section is about.
Header(A) ==
  /\ {"vdim", "fmt", "nne", "control"} \subseteq DOMAIN A
  /\ A.vdim \in Nat /\ A.fmt \in Formats /\ A.control \in (SUBSET Formats) \ {{}}

\* The matrix is held as its sparsity control allows.
Controlled(A) ==
  A.fmt \in SparsityControl(A) \/ (A.fmt = "bitmap" /\ A.control = {"full"})

\* B has the settings and the number of vectors of A, and its nonempty vectors
\* are counted if those of A are.
Follows(A, B) ==
  /\ Header(B) /\ B.vdim = A.vdim /\ B.control = A.control
  /\ A.nne >= 0 => B.nne >= 0

\* The outcome r of a function that is given A, and can only fail for want of
\* memory.
Obeys(A, r) ==
  /\ {"m", "info"} \subseteq DOMAIN r
  /\ r.info = "SUCCESS" \/ (r.info = "OUT_OF_MEMORY" /\ MemoryMayFail)
  /\ Follows(A, r.m)

\* A matrix of the data model has a header.
LEMMA HeaderType ==
  ASSUME NEW A \in Matrices
  PROVE  Header(A)
  BY DimsAssumption DEF Matrices, Header

\* The matrix is held as before.
LEMMA ControlledSame ==
  ASSUME NEW A, NEW B, Controlled(A), B.fmt = A.fmt, B.vdim = A.vdim, B.control = A.control
  PROVE  Controlled(B)
  BY DEF Controlled, SparsityControl

\* What follows B follows A, if B does.
LEMMA FollowsTrans ==
  ASSUME NEW A, NEW B, NEW D, Follows(A, B), Follows(B, D)
  PROVE  Follows(A, D)
  BY DEF Follows

\* Success, and a failure for want of memory.
LEMMA ObeysDone ==
  ASSUME NEW A, NEW B, Follows(A, B), NEW r, r \in Done(B) \/ r \in NoMemory(B)
  PROVE  Obeys(A, r) /\ r.m = B
  BY DEF Obeys, Done, NoMemory

\* One function after another.
LEMMA ObeysStep ==
  ASSUME NEW A, NEW r, Obeys(A, r), NEW S, NEW q \in Then(r, S),
         r.info = "SUCCESS" => \A s \in S : Obeys(r.m, s)
  PROVE  /\ Obeys(A, q)
         /\ q.info = "SUCCESS" => r.info = "SUCCESS" /\ q \in S
  <1>1. CASE r.info = "SUCCESS"
    BY <1>1, FollowsTrans DEF Then, Obeys
  <1>2. CASE r.info # "SUCCESS"
    BY <1>2 DEF Then
  <1> QED BY <1>1, <1>2

\* GB_nvec_nonempty and GB_nvec_nonempty_update count.
LEMMA FollowsUpdateNne ==
  ASSUME NEW A, Header(A)
  PROVE  Follows(A, UpdateNne(A)) /\ UpdateNne(A).nne >= 0 /\ UpdateNne(A).fmt = A.fmt
  <1>1. NvecNonempty(A) >= 0
    BY HeldCounts DEF NvecNonempty, AllVectors, Header
  <1>2. UpdateNne(A).nne >= 0
    BY <1>1 DEF UpdateNne, Header
  <1> QED BY <1>2 DEF UpdateNne, Header, Follows

\* The one step conversions.
LEMMA ObeysConversion ==
  ASSUME NEW A, Header(A), NEW r
  PROVE  /\ r \in FullToBitmap(A) =>
              Obeys(A, r) /\ (r.info = "SUCCESS" => r.m.fmt = "bitmap")
         /\ r \in FullToSparse(A) \cup BitmapToSparse(A) \cup HyperToSparse(A) =>
              Obeys(A, r) /\ (r.info = "SUCCESS" => r.m.fmt = "sparse")
         /\ r \in SparseToHyper(A) =>
              Obeys(A, r) /\ (r.info = "SUCCESS" => r.m.fmt = "hyper")
         /\ r \in SparseToBitmap(A) =>
              Obeys(A, r) /\ (r.info = "SUCCESS" => r.m.fmt = "bitmap")
  <1>1. Cardinality(Nonempty(A)) >= 0 /\ AllVectors(A) >= 0
    BY HeldCounts DEF AllVectors, Header
  <1> DEFINE c == Cardinality(Nonempty(A))
             v == AllVectors(A)
  <1> HIDE DEF c, v
  <1>2. c >= 0 /\ v >= 0
    BY <1>1 DEF c, v
  <1>3. ASSUME r \in FullToBitmap(A)
        PROVE  Obeys(A, r) /\ (r.info = "SUCCESS" => r.m.fmt = "bitmap")
    <2> DEFINE B == [A EXCEPT !.fmt = "bitmap", !.nvals = Dense(A)]
    <2>1. Follows(A, B) /\ B.fmt = "bitmap" /\ Follows(A, A)
      BY DEF Follows, Header, Formats
    <2>2. r \in Done(B) \/ r \in NoMemory(A)
      BY <1>3 DEF FullToBitmap
    <2> HIDE DEF B
    <2> QED BY <2>1, <2>2, ObeysDone, DoneResult
  <1>4. ASSUME r \in FullToSparse(A) \cup BitmapToSparse(A) \cup HyperToSparse(A)
        PROVE  Obeys(A, r) /\ (r.info = "SUCCESS" => r.m.fmt = "sparse")
    <2> DEFINE B == [A EXCEPT !.fmt = "sparse", !.nvals = Dense(A), !.nne = v]
               D == [A EXCEPT !.fmt = "sparse", !.nne = c]
               E(n) == [A EXCEPT !.fmt = "sparse", !.h = {}, !.Y = NoHash, !.nne = n]
    <2>1. /\ Follows(A, B) /\ B.fmt = "sparse" /\ Follows(A, D) /\ D.fmt = "sparse"
          /\ Follows(A, A)
      BY <1>2 DEF Follows, Header, Formats
    <2>2. \A n \in {c, A.nne} : Follows(A, E(n)) /\ E(n).fmt = "sparse"
      BY <1>2 DEF Follows, Header, Formats
    <2>3. \/ r \in Done(B) \/ r \in Done(D) \/ r \in NoMemory(A)
          \/ \E n \in {c, A.nne} : r \in Done(E(n))
      <3>1. r \in FullToSparse(A) => r \in Done(B) \/ r \in NoMemory(A)
        BY DEF FullToSparse, v
      <3>2. r \in BitmapToSparse(A) => r \in Done(D) \/ r \in NoMemory(A)
        BY DEF BitmapToSparse, c
      <3>3. r \in HyperToSparse(A) =>
              (\E n \in {c, A.nne} : r \in Done(E(n))) \/ r \in NoMemory(A)
        <4> DEFINE all == A.vdim # 1 /\ A.h = 0 .. A.vdim - 1
                   n == IF all THEN A.nne ELSE c
        <4>1. r \in HyperToSparse(A) => r \in Done(E(n)) \/ r \in NoMemory(A)
          BY DEF HyperToSparse, c, Header
        <4>2. n \in {c, A.nne}
          OBVIOUS
        <4> QED BY <4>1, <4>2
      <3> QED BY <1>4, <3>1, <3>2, <3>3
    <2> HIDE DEF B, D, E
    <2> QED BY <2>1, <2>2, <2>3, ObeysDone, DoneResult
  <1>5. ASSUME r \in SparseToHyper(A)
        PROVE  Obeys(A, r) /\ (r.info = "SUCCESS" => r.m.fmt = "hyper")
    <2> DEFINE B == [A EXCEPT !.fmt = "hyper", !.h = Nonempty(A), !.nne = c]
    <2>1. Follows(A, B) /\ B.fmt = "hyper" /\ Follows(A, A)
      BY <1>2 DEF Follows, Header, Formats
    <2>2. r \in Done(B) \/ r \in NoMemory(A)
      BY <1>5 DEF SparseToHyper, c
    <2> HIDE DEF B
    <2> QED BY <2>1, <2>2, ObeysDone, DoneResult
  <1>6. ASSUME r \in SparseToBitmap(A)
        PROVE  Obeys(A, r) /\ (r.info = "SUCCESS" => r.m.fmt = "bitmap")
    <2> DEFINE e == [p \in Pos |-> IF A.entry[p] = Zombie THEN Absent ELSE A.entry[p]]
               B == [A EXCEPT !.fmt = "bitmap", !.entry = e, !.nvals = @ - A.nzombies,
                              !.nzombies = 0, !.nne = v, !.h = {}, !.Y = NoHash,
                              !.jumbled = FALSE, !.unsorted = {}]
    <2>1. r \in SparseToBitmap(A) => r \in Done(B) \/ r \in NoMemory(A)
      BY DEF SparseToBitmap, v
    <2> HIDE DEF e
    <2>2. Follows(A, B) /\ B.fmt = "bitmap" /\ Follows(A, A)
      BY <1>2 DEF Follows, Header, Formats
    <2> HIDE DEF B
    <2> QED BY <1>6, <2>1, <2>2, ObeysDone, DoneResult
  <1> QED BY <1>3, <1>4, <1>5, <1>6

-----------------------------------------------------------------------------
(* GB_conform gives the matrix a structure that its control allows *)

\* From any structure to a given one.
LEMMA ObeysAnyTo ==
  ASSUME NEW A, Header(A), NEW r
  PROVE  /\ r \in AnyToSparse(A) => Obeys(A, r) /\ (r.info = "SUCCESS" => r.m.fmt = "sparse")
         /\ r \in AnyToHyper(A) => Obeys(A, r) /\ (r.info = "SUCCESS" => r.m.fmt = "hyper")
         /\ r \in AnyToBitmap(A) => Obeys(A, r) /\ (r.info = "SUCCESS" => r.m.fmt = "bitmap")
  <1>1. Follows(A, A) /\ A.fmt \in {"hyper", "sparse", "bitmap", "full"}
    BY DEF Follows, Header, Formats
  <1>2. ASSUME NEW q \in AnyToSparse(A)
        PROVE  Obeys(A, q) /\ (q.info = "SUCCESS" => q.m.fmt = "sparse")
    <2>1. CASE A.fmt = "sparse"
      BY <1>1, <1>2, <2>1, ObeysDone DEF AnyToSparse
    <2>2. CASE A.fmt # "sparse"
      BY <1>1, <1>2, <2>2, ObeysConversion DEF AnyToSparse
    <2> QED BY <2>1, <2>2
  <1>3. ASSUME r \in AnyToHyper(A)
        PROVE  Obeys(A, r) /\ (r.info = "SUCCESS" => r.m.fmt = "hyper")
    <2>1. CASE A.fmt = "hyper"
      BY <1>1, <1>3, <2>1, ObeysDone DEF AnyToHyper
    <2>2. CASE A.fmt # "hyper"
      <3>1. PICK q \in AnyToSparse(A) : r \in Then(q, SparseToHyper(q.m))
        BY <1>3, <2>2 DEF AnyToHyper
      <3>2. Obeys(A, q) /\ Header(q.m)
        BY <1>2 DEF Obeys, Follows
      <3> QED BY <3>1, <3>2, ObeysStep, ObeysConversion
    <2> QED BY <2>1, <2>2
  <1>4. ASSUME r \in AnyToBitmap(A)
        PROVE  Obeys(A, r) /\ (r.info = "SUCCESS" => r.m.fmt = "bitmap")
    <2>1. CASE A.fmt = "bitmap"
      BY <1>1, <1>4, <2>1, ObeysDone DEF AnyToBitmap
    <2>2. CASE A.fmt # "bitmap"
      BY <1>1, <1>4, <2>2, ObeysConversion DEF AnyToBitmap
    <2> QED BY <2>1, <2>2
  <1> QED BY <1>2, <1>3, <1>4

\* GB_conform_hyper leaves the matrix sparse or hypersparse.
LEMMA ObeysConformHyper ==
  ASSUME NEW A, Header(A), NEW r \in ConformHyper(A)
  PROVE  /\ Obeys(A, r)
         /\ r.info = "SUCCESS" /\ A.fmt \in {"hyper", "sparse"} =>
              r.m.fmt \in {"hyper", "sparse"}
  <1> DEFINE B == UpdateNne(A)
  <1>1. Follows(A, B) /\ Header(B) /\ B.fmt = A.fmt
    BY FollowsUpdateNne DEF Follows
  <1>2. \/ r \in SparseToHyper(B) \/ r \in HyperToSparse(B) \/ r \in Done(B)
    BY DEF ConformHyper
  <1> HIDE DEF B
  <1>3. Obeys(B, r) /\ (r.info = "SUCCESS" => r.m.fmt \in {"hyper", "sparse"} \/ r.m = B)
    <2>1. Follows(B, B)
      BY <1>1 DEF Follows
    <2> QED BY <1>1, <1>2, <2>1, ObeysConversion, ObeysDone
  <1> QED BY <1>1, <1>3, FollowsTrans DEF Obeys

\* The structure is the target, if it is only one.
LEMMA ObeysConvertTo ==
  ASSUME NEW A, Header(A), A.nne >= 0, NEW target, NEW r \in ConvertTo(A, target)
  PROVE  /\ Obeys(A, r)
         /\ r.info = "SUCCESS" =>
              \/ \E f \in Formats : target = {f} /\ r.m.fmt = f
              \/ r.m.fmt \in {"hyper", "sparse"} /\ \A f \in Formats : target # {f}
  <1>1. Follows(A, A) /\ Formats = {"hyper", "sparse", "bitmap", "full"}
    BY DEF Follows, Header, Formats
  <1>2. CASE target = {"full"}
    <2>1. r \in Done(AnyToFull(A))
      BY <1>2 DEF ConvertTo
    <2>2. Follows(A, AnyToFull(A)) /\ AnyToFull(A).fmt = "full"
      <3>1. AllVectors(A) >= 0
        BY DEF AllVectors, Header
      <3> DEFINE v == AllVectors(A)
      <3> HIDE DEF v
      <3>2. v >= 0
        BY <3>1 DEF v
      <3>3. AnyToFull(A)
              = IF A.fmt = "full" THEN A
                ELSE [A EXCEPT !.fmt = "full", !.nvals = 0, !.nne = v, !.h = {}, !.Y = NoHash]
        BY DEF AnyToFull, v
      <3> QED BY <1>1, <3>2, <3>3 DEF Follows, Header
    <2> QED BY <1>1, <1>2, <2>1, <2>2, ObeysDone
  <1>3. CASE target = {"bitmap"}
    BY <1>1, <1>3, ObeysAnyTo DEF ConvertTo
  <1>4. CASE target = {"hyper"}
    BY <1>1, <1>4, ObeysAnyTo DEF ConvertTo
  <1>5. CASE target = {"sparse"}
    BY <1>1, <1>5, ObeysAnyTo DEF ConvertTo
  <1>6. CASE \A f \in Formats : target # {f}
    <2>1. r \in IF A.fmt \in {"full", "bitmap"}
                THEN UNION {Then(q, ConformHyper(q.m)) : q \in AnyToSparse(A)}
                ELSE ConformHyper(A)
      BY <1>1, <1>6 DEF ConvertTo
    <2>2. CASE A.fmt \in {"full", "bitmap"}
      <3>1. PICK q \in AnyToSparse(A) : r \in Then(q, ConformHyper(q.m))
        BY <2>1, <2>2
      <3>2. Obeys(A, q) /\ Header(q.m) /\ (q.info = "SUCCESS" => q.m.fmt = "sparse")
        BY ObeysAnyTo DEF Obeys, Follows
      <3>3. \A s \in ConformHyper(q.m) : Obeys(q.m, s)
        BY <3>2, ObeysConformHyper
      <3>4. Obeys(A, r) /\ (r.info = "SUCCESS" => q.info = "SUCCESS" /\ r \in ConformHyper(q.m))
        BY <3>1, <3>2, <3>3, ObeysStep
      <3> QED BY <1>6, <3>2, <3>4, ObeysConformHyper
    <2>3. CASE A.fmt \notin {"full", "bitmap"}
      BY <1>1, <1>6, <2>1, <2>3, ObeysConformHyper DEF Header
    <2> QED BY <2>2, <2>3
  <1> QED BY <1>1, <1>2, <1>3, <1>4, <1>5, <1>6

\* A single vector is never hypersparse, and some structure is always allowed.
LEMMA ControlAllows ==
  ASSUME NEW A, Header(A)
  PROVE  LET c == SparsityControl(A)
         IN  c \subseteq Formats /\ c # {} /\ (c = {"full"} => A.control = {"full"})
  BY DEF SparsityControl, Header, Formats

\* The switch of GB_conform leaves structures that the control allows.
LEMMA TargetAllowed ==
  ASSUME NEW A, Header(A)
  PROVE  LET t == ConformTarget(A)
             c == SparsityControl(A)
         IN  /\ t # {} /\ t \subseteq Formats
             /\ t \subseteq c \/ (t = {"bitmap"} /\ A.control = {"full"})
             /\ (\E f \in Formats : t = {f}) \/ {"hyper", "sparse"} \subseteq t
  <1> DEFINE c == SparsityControl(A)
             others == c \ {"full"}
             bitmap == /\ "bitmap" \in others
                       /\ \/ others = {"bitmap"}
                          \/ A.fmt = "full"
                          \/ A.fmt = "bitmap" /\ ~BitmapToSparseTest(A)
                          \/ A.fmt \in {"hyper", "sparse"} /\ SparseToBitmapTest(A)
             t == ConformTarget(A)
  <1>1. c \subseteq Formats /\ c # {} /\ (c = {"full"} => A.control = {"full"})
    BY ControlAllows
  <1>2. \/ "full" \in c /\ t = {"full"}
        \/ (bitmap \/ others = {}) /\ t = {"bitmap"}
        \/ ~(bitmap \/ others = {}) /\ t = others \ {"bitmap"}
    BY DEF ConformTarget
  <1>3. bitmap => "bitmap" \in others
    OBVIOUS
  <1>4. others = {"bitmap"} => bitmap
    OBVIOUS
  <1> HIDE DEF c, bitmap, t
  <1>5. CASE "full" \in c /\ t = {"full"}
    BY <1>5 DEF Formats, t, c
  <1>6. CASE (bitmap \/ others = {}) /\ t = {"bitmap"}
    BY <1>1, <1>3, <1>6 DEF Formats, t, c
  <1>7. CASE ~(bitmap \/ others = {}) /\ t = others \ {"bitmap"}
    <2>1. t # {} /\ t \subseteq {"hyper", "sparse"} /\ t \subseteq c
      BY <1>1, <1>4, <1>7 DEF Formats
    <2> QED BY <2>1 DEF Formats, t, c
  <1> QED BY <1>2, <1>5, <1>6, <1>7

\* GB_conform counts the nonempty vectors first.
LEMMA FollowsConformStart ==
  ASSUME NEW A, Header(A)
  PROVE  Follows(A, ConformStart(A)) /\ ConformStart(A).nne >= 0
  <1> DEFINE B == UpdateNne(A)
  <1>1. Follows(A, B) /\ B.nne >= 0
    BY FollowsUpdateNne
  <1>2. ConformStart(A) = IF A.nohash THEN [B EXCEPT !.Y = NoHash] ELSE B
    BY DEF ConformStart, HyperHashFree
  <1> HIDE DEF B
  <1>3. DOMAIN [B EXCEPT !.Y = NoHash] = DOMAIN B
    OBVIOUS
  <1> QED BY <1>1, <1>2, <1>3 DEF Follows, Header

\* Unless it runs out of memory, GB_conform without pending tuples leaves the
\* matrix as its control allows; the nonempty vectors are counted in any case.
LEMMA ObeysConformSettled ==
  ASSUME NEW A, Header(A), NEW r \in ConformSettled(A)
  PROVE  /\ Obeys(A, r) /\ r.m.nne >= 0
         /\ r.info = "SUCCESS" => Controlled(r.m)
  <1> DEFINE B == ConformStart(A)
             t == ConformTarget(A)
             c == SparsityControl(A)
  <1>1. Follows(A, B) /\ B.nne >= 0 /\ Header(B)
    BY FollowsConformStart DEF Follows
  <1>2. r \in ConvertTo(B, t)
    BY DEF ConformSettled
  <1>3. /\ t # {} /\ t \subseteq Formats
        /\ t \subseteq c \/ (t = {"bitmap"} /\ A.control = {"full"})
        /\ (\E f \in Formats : t = {f}) \/ {"hyper", "sparse"} \subseteq t
    BY TargetAllowed
  <1> HIDE DEF B, t
  <1>4. /\ Obeys(B, r)
        /\ r.info = "SUCCESS" =>
             \/ \E f \in Formats : t = {f} /\ r.m.fmt = f
             \/ r.m.fmt \in {"hyper", "sparse"} /\ \A f \in Formats : t # {f}
    BY <1>1, <1>2, ObeysConvertTo
  <1>5. Obeys(A, r) /\ r.m.nne >= 0
    BY <1>1, <1>4, FollowsTrans DEF Obeys, Follows
  <1>6. ASSUME r.info = "SUCCESS"
        PROVE  Controlled(r.m)
    <2>1. SparsityControl(r.m) = c /\ r.m.control = A.control
      BY <1>5 DEF SparsityControl, Obeys, Follows
    <2>2. r.m.fmt \in t
      BY <1>3, <1>4, <1>6
    <2> HIDE DEF c
    <2> QED BY <1>3, <2>1, <2>2 DEF Controlled
  <1> QED BY <1>5, <1>6

-----------------------------------------------------------------------------
(* GB_wait conforms what it has assembled *)

\* GB_hyper_prune and GB_unjumble.
LEMMA ObeysPrune ==
  ASSUME NEW A, Header(A), NEW r, r \in HyperPrune(A) \/ r \in Unjumble(A)
  PROVE  Obeys(A, r) /\ (r.info = "SUCCESS" => r.m.fmt = A.fmt)
  <1> DEFINE B == UpdateNne(A)
             D == [B EXCEPT !.h = Nonempty(B), !.Y = NoHash,
                            !.nne = Cardinality(Nonempty(B))]
             E == [B EXCEPT !.jumbled = FALSE, !.unsorted = {}]
  <1>1. Follows(A, B) /\ B.fmt = A.fmt /\ Header(B) /\ Follows(A, A)
    BY FollowsUpdateNne DEF Follows
  <1>2. \/ r \in Done(A) \/ r \in Done(B) \/ r \in NoMemory(B)
        \/ r \in Done(D) \/ r \in Done(E)
    BY DEF HyperPrune, Unjumble
  <1> HIDE DEF B
  <1>3. Cardinality(Nonempty(B)) >= 0
    BY HeldCounts
  <1>4. Follows(B, D) /\ D.fmt = B.fmt /\ Follows(B, E) /\ E.fmt = B.fmt
    BY <1>1, <1>3 DEF Follows, Header
  <1> HIDE DEF D, E
  <1>5. Follows(A, D) /\ Follows(A, E)
    BY <1>1, <1>4, FollowsTrans
  <1> QED BY <1>1, <1>2, <1>4, <1>5, ObeysDone

\* GB_transplant takes the content of T, but the settings of the matrix.
LEMMA FollowsTransplant ==
  ASSUME NEW A, Header(A), NEW T, Header(T), T.vdim = A.vdim
  PROVE  LET B == Transplant(A, T)
         IN  /\ Header(B) /\ B.vdim = A.vdim /\ B.control = A.control
             /\ B.nne = T.nne /\ B.fmt \in {T.fmt, "full"}
  <1> DEFINE full == T.fmt = "full" \/ (T.fmt = "sparse" /\ AsIfFull(T))
             f == IF full THEN "full" ELSE T.fmt
             n == IF full THEN 0 ELSE T.nvals
             y == IF T.fmt = "hyper" /\ ~A.nohash THEN T.Y ELSE NoHash
             B == [T EXCEPT !.fmt = f, !.nvals = n, !.Y = y,
                            !.control = A.control, !.nohash = A.nohash]
  <1>1. Transplant(A, T) = B
    BY DEF Transplant
  <1>2. f \in {T.fmt, "full"}
    OBVIOUS
  <1> HIDE DEF f, n, y
  <1> QED BY <1>1, <1>2 DEF Header, Formats

\* The transplanted matrix is as the control of the one it replaces allows.
LEMMA ObeysTransplantConform ==
  ASSUME NEW A, Header(A), NEW T, Header(T), T.vdim = A.vdim,
         NEW r \in TransplantConform(A, T)
  PROVE  /\ Obeys(A, r) /\ r.m.nne >= 0
         /\ r.info = "SUCCESS" => Controlled(r.m)
  <1> DEFINE B == Transplant(A, T)
  <1>1. Header(B) /\ B.vdim = A.vdim /\ B.control = A.control
    BY FollowsTransplant
  <1> HIDE DEF B
  <1>2. Obeys(B, r) /\ r.m.nne >= 0 /\ (r.info = "SUCCESS" => Controlled(r.m))
    BY <1>1, ObeysConformSettled DEF TransplantConform, B
  <1> QED BY <1>1, <1>2 DEF Obeys, Follows

\* Pruning the zombies counts the nonempty vectors that are left.
LEMMA ObeysRemoveZombies ==
  ASSUME NEW A, Header(A), NEW r \in RemoveZombies(A)
  PROVE  Obeys(A, r)
  <1> DEFINE live == [p \in Pos |-> IF A.entry[p] = Zombie THEN Absent ELSE A.entry[p]]
             W == [A EXCEPT !.entry = live, !.nvals = @ - A.nzombies,
                            !.nzombies = 0, !.Y = NoHash]
             B == [W EXCEPT !.nne = Cardinality(Nonempty(W))]
  <1>1. Follows(A, A)
    BY DEF Follows
  <1>2. \/ r \in Done(A) \/ r \in NoMemory(A)
        \/ \E q \in HyperPrune(B) : r \in Then(q, Done(Transplant(A, q.m)))
    BY DEF RemoveZombies
  <1> HIDE DEF live
  <1>3. Header(W) /\ W.vdim = A.vdim /\ W.control = A.control
    BY DEF Header
  <1> HIDE DEF W
  <1>4. Cardinality(Nonempty(W)) >= 0
    BY HeldCounts
  <1>5. Header(B) /\ B.vdim = A.vdim /\ B.control = A.control /\ B.nne >= 0
    BY <1>3, <1>4 DEF Header
  <1> HIDE DEF B
  <1>6. ASSUME NEW q \in HyperPrune(B), r \in Then(q, Done(Transplant(A, q.m)))
        PROVE  Obeys(A, r)
    <2> DEFINE D == Transplant(A, q.m)
    <2>1. Obeys(B, q)
      BY <1>5, ObeysPrune
    <2>2. Obeys(A, q)
      BY <1>5, <2>1 DEF Obeys, Follows
    <2>3. Header(D) /\ D.vdim = A.vdim /\ D.control = A.control /\ D.nne >= 0
      BY <1>5, <2>1, FollowsTransplant DEF Obeys, Follows
    <2> HIDE DEF D
    <2>4. Follows(q.m, D)
      BY <1>5, <2>2, <2>3 DEF Obeys, Follows
    <2>5. CASE q.info = "SUCCESS"
      BY <1>6, <2>2, <2>3, <2>5, ObeysDone DEF Then, D, Follows
    <2>6. CASE q.info # "SUCCESS"
      BY <1>6, <2>2, <2>6 DEF Then
    <2> QED BY <2>5, <2>6
  <1> QED BY <1>1, <1>2, <1>6, ObeysDone

\* The merged matrix is conformed, and the hash that is put back changes
\* nothing of that.
LEMMA ObeysMergePending ==
  ASSUME NEW A, Header(A), NEW T, NEW r \in MergePending(A, T)
  PROVE  /\ Obeys(A, r)
         /\ r.info = "SUCCESS" => Controlled(r.m) /\ r.m.nne >= 0
  <1> DEFINE e == [p \in Pos |-> IF T.entry[p] # Absent THEN T.entry[p] ELSE A.entry[p]]
             list == IF A.fmt = "hyper" THEN A.h \cup T.h ELSE A.h
             S0 == [A EXCEPT !.fmt = A.fmt, !.entry = e, !.h = list, !.Y = NoHash]
             S == [S0 EXCEPT !.nvals = Cardinality(Held(S0)),
                             !.nne = Cardinality(Nonempty(S0))]
             keep == A.fmt = "hyper" /\ ~A.nohash /\ A.Y # NoHash /\ S.h = A.h
             restored(m) == IF keep /\ m.fmt = "hyper" /\ m.Y = NoHash
                            THEN [m EXCEPT !.Y = A.Y] ELSE m
             put(q) == IF q.info = "SUCCESS" THEN [q EXCEPT !.m = restored(@)] ELSE q
  <1>1. AddPending(A, T) = S
    BY DEF AddPending
  <1>2. MergePending(A, T) = {put(q) : q \in TransplantConform(A, S)} \cup NoMemory(A)
    <2> DEFINE P == AddPending(A, T)
               kept == A.fmt = "hyper" /\ ~A.nohash /\ A.Y # NoHash /\ P.h = A.h
               back(m) == IF kept /\ m.fmt = "hyper" /\ m.Y = NoHash
                          THEN [m EXCEPT !.Y = A.Y] ELSE m
    <2>1. MergePending(A, T)
            = {IF q.info = "SUCCESS" THEN [q EXCEPT !.m = back(@)] ELSE q
                 : q \in TransplantConform(A, P)} \cup NoMemory(A)
      BY DEF MergePending
    <2>2. P = S
      BY <1>1
    <2> HIDE DEF P, S
    <2> QED BY <2>1, <2>2
  <1> HIDE DEF e, list
  <1>3. Header(S0) /\ S0.vdim = A.vdim
    BY DEF Header
  <1> HIDE DEF S0
  <1>4. Header(S) /\ S.vdim = A.vdim
    BY <1>3 DEF Header
  <1> HIDE DEF S
  <1>5. ASSUME NEW q \in TransplantConform(A, S)
        PROVE  /\ Obeys(A, put(q))
               /\ put(q).info = "SUCCESS" => Controlled(put(q).m) /\ put(q).m.nne >= 0
    <2>1. /\ Obeys(A, q) /\ q.m.nne >= 0
          /\ q.info = "SUCCESS" => Controlled(q.m)
      BY <1>4, <1>5, ObeysTransplantConform
    <2>2. CASE q.info # "SUCCESS"
      BY <2>1, <2>2
    <2>3. CASE q.info = "SUCCESS"
      <3> DEFINE m == restored(q.m)
      <3>1. /\ Header(m) /\ m.vdim = q.m.vdim /\ m.control = q.m.control
            /\ m.fmt = q.m.fmt /\ m.nne = q.m.nne
        BY <2>1 DEF Obeys, Follows, Header
      <3>2. put(q) = [q EXCEPT !.m = m]
        BY <2>3
      <3> HIDE DEF m
      <3>3. put(q).m = m /\ put(q).info = "SUCCESS" /\ DOMAIN put(q) = DOMAIN q
        BY <2>1, <2>3, <3>2 DEF Obeys
      <3>4. Controlled(m)
        BY <2>1, <2>3, <3>1, ControlledSame
      <3> HIDE DEF put
      <3> QED BY <2>1, <3>1, <3>3, <3>4 DEF Obeys, Follows
    <2> QED BY <2>2, <2>3
  <1>6. Follows(A, A)
    BY DEF Follows
  <1>7. ASSUME NEW q \in NoMemory(A)
        PROVE  Obeys(A, q) /\ q.info # "SUCCESS"
    <2>1. Obeys(A, q)
      BY <1>6, ObeysDone
    <2> QED BY <2>1 DEF NoMemory
  <1> HIDE DEF put
  <1> QED BY <1>2, <1>5, <1>7

\* What GB_wait does with pending tuples or zombies ends in GB_conform.
LEMMA ObeysFinishWork ==
  ASSUME NEW A, Header(A), NEW r \in FinishWork(A)
  PROVE  /\ Obeys(A, r)
         /\ r.info = "SUCCESS" => Controlled(r.m) /\ r.m.nne >= 0
  <1> DEFINE T == BuildPending(A)
             B == [A EXCEPT !.pend = NoPending]
             finish(D) == IF ~HasPending(A) THEN ConformSettled(D)
                          ELSE IF Nnz(D) = 0 THEN TransplantConform(D, T)
                          ELSE MergePending(D, T)
  <1>1. \/ r \in NoMemory(A)
        \/ \E q \in UNION {Then(p, Unjumble(p.m)) : p \in RemoveZombies(B)} :
             r \in Then(q, finish(q.m))
    BY DEF FinishWork
  <1>2. Follows(A, A)
    BY DEF Follows
  <1>3. CASE r \in NoMemory(A)
    <2>1. Obeys(A, r)
      BY <1>2, <1>3, ObeysDone
    <2> QED BY <1>3, <2>1 DEF NoMemory
  <1>4. Follows(A, B)
    BY DEF Follows, Header
  <1> HIDE DEF B
  <1>5. Header(T) /\ T.vdim = A.vdim
    <2> DEFINE held == PendingPos(A)
               vecs == {p[2] : p \in held}
               e == [p \in Pos |-> IF p \in held THEN Assembled(A, p) ELSE Absent]
    <2>1. T = [A EXCEPT !.fmt = "hyper", !.entry = e, !.nvals = Cardinality(held),
                        !.nzombies = 0, !.nne = Cardinality(vecs), !.h = vecs,
                        !.Y = NoHash, !.jumbled = FALSE, !.unsorted = {},
                        !.pend = NoPending, !.control = Formats, !.nohash = FALSE]
      BY DEF BuildPending
    <2> HIDE DEF T, e, vecs
    <2> QED BY <2>1 DEF Header, Formats
  <1> HIDE DEF T
  <1>6. CASE r \notin NoMemory(A)
    <2>1. PICK p \in RemoveZombies(B) :
            \E q \in Then(p, Unjumble(p.m)) : r \in Then(q, finish(q.m))
      BY <1>1, <1>6
    <2> PICK q \in Then(p, Unjumble(p.m)) : r \in Then(q, finish(q.m))
      BY <2>1
    <2>2. Obeys(B, p) /\ Header(p.m)
      BY <1>4, ObeysRemoveZombies DEF Follows, Obeys
    <2>3. Obeys(B, q) /\ Header(q.m)
      <3>1. \A s \in Unjumble(p.m) : Obeys(p.m, s)
        BY <2>2, ObeysPrune
      <3> QED BY <2>2, <3>1, ObeysStep DEF Obeys, Follows
    <2>4. Obeys(A, q) /\ q.m.vdim = A.vdim
      BY <1>4, <2>3, FollowsTrans DEF Obeys, Follows
    <2>5. ASSUME NEW s \in finish(q.m)
          PROVE  /\ Obeys(q.m, s)
                 /\ s.info = "SUCCESS" => Controlled(s.m) /\ s.m.nne >= 0
      <3>1. \/ s \in ConformSettled(q.m) \/ s \in TransplantConform(q.m, T)
            \/ s \in MergePending(q.m, T)
        BY <2>5
      <3> QED BY <1>5, <2>3, <2>4, <3>1, ObeysConformSettled, ObeysTransplantConform,
                 ObeysMergePending
    <2> HIDE DEF finish
    <2>6. Obeys(A, r) /\ (r.info = "SUCCESS" => r \in finish(q.m))
      BY <2>4, <2>5, ObeysStep
    <2> QED BY <2>5, <2>6
  <1> QED BY <1>3, <1>6

\* The outcome r of a function that also leaves the matrix as its control allows.
Tends(A, r) ==
  Obeys(A, r) /\ (r.info = "SUCCESS" /\ Controlled(A) => Controlled(r.m))

\* GB_phybix_free keeps the settings.
LEMMA FollowsFree ==
  ASSUME NEW A, Header(A)
  PROVE  Follows(A, PhybixFree(A))
  <1> DEFINE F == PhybixFree(A)
  <1>1. DOMAIN F = DOMAIN A
    BY DEF PhybixFree
  <1>2. F.fmt = "full" /\ F.nne = 0 /\ F.vdim = A.vdim /\ F.control = A.control
    BY DEF PhybixFree, Header
  <1> HIDE DEF F
  <1>3. Header(F)
    BY <1>1, <1>2 DEF Header, Formats
  <1>4. Follows(A, F)
    BY <1>2, <1>3 DEF Follows
  <1> QED BY <1>4 DEF F

\* The structure does not change, or the matrix is freed.
LEMMA TendsSame ==
  ASSUME NEW A, NEW B, Follows(A, B), NEW r,
         \/ r \in Done(B) /\ B.fmt = A.fmt
         \/ r \in NoMemory(B)
         \/ r \in NoMemory(PhybixFree(B))
  PROVE  Tends(A, r)
  <1>1. CASE r \in Done(B) /\ B.fmt = A.fmt
    BY <1>1, ObeysDone, ControlledSame DEF Tends, Follows
  <1>2. CASE r \in NoMemory(B)
    BY <1>2, ObeysDone DEF Tends, NoMemory
  <1>3. CASE r \in NoMemory(PhybixFree(B))
    <2> DEFINE F == PhybixFree(B)
    <2>1. Follows(A, F)
      <3>1. Follows(B, F)
        BY FollowsFree DEF Follows
      <3> QED BY <3>1, FollowsTrans
    <2> HIDE DEF F
    <2>2. r \in NoMemory(F)
      BY <1>3 DEF F
    <2> QED BY <2>1, <2>2, ObeysDone DEF Tends, NoMemory
  <1> QED BY <1>1, <1>2, <1>3

\* One function after another.
LEMMA TendsStep ==
  ASSUME NEW A, NEW r, Tends(A, r), NEW S, NEW q \in Then(r, S),
         r.info = "SUCCESS" => \A s \in S : Tends(r.m, s)
  PROVE  Tends(A, q)
  <1>1. Obeys(A, q) /\ (q.info = "SUCCESS" => r.info = "SUCCESS" /\ q \in S)
    BY ObeysStep DEF Tends
  <1> QED BY <1>1 DEF Tends

\* GB_wait keeps the structure that the control allows, and counts.
LEMMA TendsWait ==
  ASSUME NEW A, Header(A), NEW r \in Wait(A)
  PROVE  Tends(A, r)
  <1>1. Follows(A, A)
    BY DEF Follows
  <1>2. CASE r \in Done(A)
    BY <1>1, <1>2, TendsSame
  <1>3. CASE r \in Done(UpdateNne(A))
    <2>1. Follows(A, UpdateNne(A)) /\ UpdateNne(A).fmt = A.fmt
      BY FollowsUpdateNne
    <2> QED BY <1>3, <2>1, TendsSame
  <1>4. CASE \E q : (q \in FinishWork(A) \/ q \in Unjumble(A)) /\ r = FreeOnError(q)
    <2>1. PICK q : (q \in FinishWork(A) \/ q \in Unjumble(A)) /\ r = FreeOnError(q)
      BY <1>4
    <2>2. Tends(A, q)
      <3>1. CASE q \in FinishWork(A)
        BY <3>1, ObeysFinishWork DEF Tends
      <3>2. CASE q \in Unjumble(A)
        BY <3>2, ObeysPrune, ControlledSame DEF Tends, Obeys, Follows
      <3> QED BY <2>1, <3>1, <3>2
    <2>3. CASE q.info = "SUCCESS"
      BY <2>1, <2>2, <2>3 DEF FreeOnError
    <2>4. CASE q.info # "SUCCESS"
      <3> DEFINE F == PhybixFree(q.m)
      <3>1. Follows(q.m, F)
        BY <2>2, FollowsFree DEF Tends, Obeys, Follows
      <3>2. r = [q EXCEPT !.m = F]
        BY <2>1, <2>4 DEF FreeOnError
      <3> HIDE DEF F
      <3>3. r.m = F /\ r.info = q.info /\ DOMAIN r = DOMAIN q
        BY <2>2, <3>2 DEF Tends, Obeys
      <3> QED BY <2>2, <2>4, <3>1, <3>3, FollowsTrans DEF Tends, Obeys
    <2> QED BY <2>3, <2>4
  <1> QED BY <1>2, <1>3, <1>4 DEF Wait, Header, Formats

\* GB_MATRIX_WAIT, GB_hyper_hash_build, GrB_Matrix_wait and GB_block.
LEMMA TendsWaiters ==
  ASSUME NEW A, Header(A), NEW r
  PROVE  /\ \A cond : r \in WaitIf(cond, A) => Tends(A, r)
         /\ r \in Materialize(A) => Tends(A, r)
         /\ r \in MatrixWait(A) => Tends(A, r)
         /\ r \in Block(A) => Tends(A, r)
  <1>1. Follows(A, A) /\ (r \in Done(A) => Tends(A, r))
    BY TendsSame DEF Follows
  <1>2. ASSUME r \in Materialize(A)
        PROVE  Tends(A, r)
    <2>1. PICK q \in Wait(A) : r \in Then(q, HyperHashBuild(q.m))
      BY <1>2 DEF Materialize
    <2>2. Tends(A, q) /\ Header(q.m)
      BY TendsWait DEF Tends, Obeys, Follows
    <2>3. ASSUME NEW s \in HyperHashBuild(q.m)
          PROVE  Tends(q.m, s)
      <3> DEFINE B == q.m
                 D == [B EXCEPT !.Y = B.h]
      <3>1. Follows(B, D) /\ D.fmt = B.fmt /\ Follows(B, B)
        BY <2>2 DEF Follows, Header
      <3>2. s \in Done(B) \/ s \in Done(D) \/ s \in NoMemory(PhybixFree(B))
        BY <2>3 DEF HyperHashBuild
      <3> HIDE DEF B, D
      <3>3. Tends(B, s)
        BY <3>1, <3>2, TendsSame
      <3> QED BY <3>3 DEF B
    <2> QED BY <2>1, <2>2, <2>3, TendsStep
  <1> QED BY <1>1, <1>2, TendsWait DEF WaitIf, MatrixWait, Block

\* GB_conform of any matrix, whatever its structure was before.
LEMMA ObeysConform ==
  ASSUME NEW A, Header(A), NEW r \in Conform(A)
  PROVE  /\ Obeys(A, r) /\ r.m.nne >= 0
         /\ r.info = "SUCCESS" => Controlled(r.m)
  <1>1. CASE r \in ConformSettled(A)
    BY <1>1, ObeysConformSettled
  <1>2. CASE r \notin ConformSettled(A)
    <2> DEFINE B == ConformStart(A)
    <2>1. /\ ConformTarget(A) = {"bitmap"}
          /\ \E q \in Wait(B) : r \in Then(q, AnyToBitmap(q.m))
      BY <1>2 DEF Conform
    <2>2. Follows(A, B) /\ B.nne >= 0 /\ Header(B)
      BY FollowsConformStart DEF Follows
    <2> HIDE DEF B
    <2>3. PICK q \in Wait(B) : r \in Then(q, AnyToBitmap(q.m))
      BY <2>1
    <2>4. Obeys(B, q) /\ Header(q.m)
      BY <2>2, TendsWait DEF Tends, Obeys, Follows
    <2>5. \A s \in AnyToBitmap(q.m) : Obeys(q.m, s) /\ (s.info = "SUCCESS" => s.m.fmt = "bitmap")
      BY <2>4, ObeysAnyTo
    <2>6. Obeys(B, r) /\ (r.info = "SUCCESS" => r \in AnyToBitmap(q.m))
      BY <2>3, <2>4, <2>5, ObeysStep
    <2>7. Obeys(A, r) /\ r.m.nne >= 0
      BY <2>2, <2>6, FollowsTrans DEF Obeys, Follows
    <2>8. "bitmap" \in SparsityControl(A) \/ A.control = {"full"}
      BY <2>1, TargetAllowed
    <2>9. SparsityControl(r.m) = SparsityControl(A) /\ r.m.control = A.control
      BY <2>7 DEF SparsityControl, Obeys, Follows
    <2> QED BY <2>5, <2>6, <2>7, <2>8, <2>9 DEF Controlled
  <1> QED BY <1>1, <1>2

-----------------------------------------------------------------------------
(* The user functions *)

\* Of the outcomes of a user function that is given A, the nonempty vectors are
\* counted in all, and those that did not run out of memory leave the matrix
\* as its control allows.
Minds(A, S) ==
  \A r \in S : /\ A.nne >= 0 => r.m.nne >= 0
               /\ r.info = "OUT_OF_MEMORY" => MemoryMayFail
               /\ r.info # "OUT_OF_MEMORY" /\ Controlled(A) => Controlled(r.m)

\* A function that minds its matrix, or refuses its arguments.
LEMMA TendsMinds ==
  ASSUME NEW A, NEW S,
         \A r \in S : Tends(A, r) \/ (r.m = A /\ r.info # "OUT_OF_MEMORY")
  PROVE  Minds(A, S)
  BY DEF Minds, Tends, Obeys, Follows

\* GB_conform to other settings.
LEMMA MindsConform ==
  ASSUME NEW A, NEW B, Header(B)
  PROVE  Minds(A, Conform(B))
  <1> SUFFICES ASSUME NEW r \in Conform(B)
               PROVE  /\ A.nne >= 0 => r.m.nne >= 0
                      /\ r.info = "OUT_OF_MEMORY" => MemoryMayFail
                      /\ r.info # "OUT_OF_MEMORY" /\ Controlled(A) => Controlled(r.m)
    BY DEF Minds
  <1> QED BY ObeysConform DEF Obeys

\* The sparsity control and the hyper_hash option.
LEMMA MindsSettings ==
  ASSUME NEW A, Header(A), NEW c \in (SUBSET Formats) \ {{}}, NEW wanted
  PROVE  Minds(A, SetSparsityControl(A, c)) /\ Minds(A, SetHyperHash(A, wanted))
  <1> DEFINE B == [A EXCEPT !.control = c]
             D == [A EXCEPT !.nohash = ~wanted]
  <1>1. Header(B) /\ Header(D)
    BY DEF Header
  <1>2. SetSparsityControl(A, c) = Conform(B) /\ SetHyperHash(A, wanted) = Conform(D)
    BY DEF SetSparsityControl, SetHyperHash
  <1> HIDE DEF B, D
  <1> QED BY <1>1, <1>2, MindsConform

\* The conversions to and from iso.
LEMMA TendsIso ==
  ASSUME NEW A, Header(A), NEW v, NEW r, r \in AnyToIso(A, v) \/ r \in AnyToNonIso(A)
  PROVE  Tends(A, r)
  <1> DEFINE typed == [A.pend EXCEPT !.type = CType]
             withX == [typed EXCEPT !.tup =
                         [k \in DOMAIN @ |-> [@[k] EXCEPT !.s = A.iso]]]
             B == [A EXCEPT !.iso = v]
             D == [A EXCEPT !.iso = NotIso]
             E == [A EXCEPT !.iso = NotIso, !.pend = withX]
             G == [A EXCEPT !.pend = typed]
  <1>1. r \in AnyToIso(A, v) => r \in Done(B) \/ r \in NoMemory(PhybixFree(A))
    BY DEF AnyToIso
  <1>2. r \in AnyToNonIso(A) =>
          \/ r \in Done(A) \/ r \in Done(D) \/ r \in Done(E)
          \/ r \in NoMemory(PhybixFree(A)) \/ r \in NoMemory(G)
    BY DEF AnyToNonIso
  <1> HIDE DEF typed, withX
  <1>3. /\ Follows(A, A) /\ Follows(A, B) /\ B.fmt = A.fmt /\ Follows(A, D) /\ D.fmt = A.fmt
        /\ Follows(A, E) /\ E.fmt = A.fmt /\ Follows(A, G)
    BY DEF Follows, Header
  <1> HIDE DEF B, D, E, G
  <1> QED BY <1>1, <1>2, <1>3, TendsSame

\* GxB_ISO.
LEMMA MindsSetIso ==
  ASSUME NEW A, Header(A), NEW wanted
  PROVE  Minds(A, SetIso(A, wanted))
  <1> DEFINE value == A.entry[CHOOSE p \in Held(A) : TRUE]
  <1> SUFFICES ASSUME NEW r \in SetIso(A, wanted)
               PROVE  /\ A.nne >= 0 => r.m.nne >= 0
                      /\ r.info = "OUT_OF_MEMORY" => MemoryMayFail
                      /\ r.info # "OUT_OF_MEMORY" /\ Controlled(A) => Controlled(r.m)
    BY DEF Minds
  <1>1. \E q \in AnyToIso(A, value) \cup AnyToNonIso(A) \cup Done(A) :
          r \in Then(q, Conform(q.m))
    BY DEF SetIso
  <1> HIDE DEF value
  <1>2. PICK q \in AnyToIso(A, value) \cup AnyToNonIso(A) \cup Done(A) :
          r \in Then(q, Conform(q.m))
    BY <1>1
  <1>3. Tends(A, q)
    BY <1>2, TendsIso, TendsSame DEF Follows
  <1>4. Header(q.m) /\ Obeys(A, q)
    BY <1>3 DEF Tends, Obeys, Follows
  <1>5. \A s \in Conform(q.m) : Obeys(q.m, s)
    BY <1>4, ObeysConform
  <1>6. Obeys(A, r) /\ (r.info = "SUCCESS" => r \in Conform(q.m))
    BY <1>2, <1>4, <1>5, ObeysStep
  <1> QED BY <1>4, <1>6, ObeysConform DEF Obeys, Follows

\* A new entry, or a new value of one, does not change the structure.
LEMMA TendsPutElement ==
  ASSUME NEW A, Header(A), NEW p, NEW s, NEW t, NEW accum,
         NEW r \in PutElement(A, p, s, t, accum)
  PROVE  Tends(A, r)
  <1>1. CASE r \in Done(UpdateEntry(A, p, s, t, accum))
    <2> DEFINE B == UpdateEntry(A, p, s, t, accum)
    <2>1. Follows(A, B) /\ B.fmt = A.fmt
      BY DEF Follows, Header, UpdateEntry
    <2> HIDE DEF B
    <2>2. r \in Done(B)
      BY <1>1 DEF B
    <2> QED BY <2>1, <2>2, TendsSame
  <1>2. CASE r \notin Done(UpdateEntry(A, p, s, t, accum))
    <2>1. PICK q \in PendingAdd(A, p, s, t, accum) : r \in Then(q, Block(q.m))
      BY <1>2 DEF PutElement
    <2>2. Tends(A, q)
      <3>1. \E l : q \in Done([A EXCEPT !.pend = l]) \cup NoMemory(PhybixFree(A))
        BY DEF PendingAdd
      <3>2. PICK l : q \in Done([A EXCEPT !.pend = l]) \cup NoMemory(PhybixFree(A))
        BY <3>1
      <3> DEFINE B == [A EXCEPT !.pend = l]
      <3>3. Follows(A, B) /\ B.fmt = A.fmt /\ Follows(A, A)
        BY DEF Follows, Header
      <3>4. q \in Done(B) \/ q \in NoMemory(PhybixFree(A))
        BY <3>2
      <3> HIDE DEF B
      <3> QED BY <3>3, <3>4, TendsSame
    <2>3. \A x \in Block(q.m) : Tends(q.m, x)
      BY <2>2, TendsWaiters DEF Tends, Obeys, Follows
    <2> QED BY <2>1, <2>2, <2>3, TendsStep
  <1> QED BY <1>1, <1>2

\* The iso status may change before the entry is set, or set again.
LEMMA TendsSetUnjumbled ==
  ASSUME NEW A, Header(A), NEW p, NEW s, NEW t, NEW accum,
         NEW r \in SetUnjumbled(A, p, s, t, accum)
  PROVE  Tends(A, r)
  <1> DEFINE iso(B) == SetIsoStatus(B, s, t, accum)
             again(B) == UNION {Then(q, PutElement(q.m, p, s, t, accum)) : q \in iso(B)}
             put(B) == IF ~EntryFound(B, p) /\ ~Compatible(B, t, accum)
                       THEN UNION {Then(q, again(q.m)) : q \in Wait(B)}
                       ELSE PutElement(B, p, s, t, accum)
  <1>1. ASSUME NEW B, Header(B), NEW q \in iso(B)
        PROVE  Tends(B, q) /\ Header(q.m)
    <2>1. q \in AnyToNonIso(B) \/ q \in AnyToIso(B, Cast(t, s)) \/ q \in Done(B)
      BY <1>1 DEF SetIsoStatus
    <2>2. Tends(B, q)
      BY <1>1, <2>1, TendsIso, TendsSame DEF Follows
    <2> QED BY <2>2 DEF Tends, Obeys, Follows
  <1>2. r \in UNION {Then(q, put(q.m)) : q \in iso(A)}
    BY DEF SetUnjumbled
  <1> HIDE DEF iso
  <1>3. ASSUME NEW B, Header(B), NEW x \in again(B)
        PROVE  Tends(B, x)
    <2>1. PICK q \in iso(B) : x \in Then(q, PutElement(q.m, p, s, t, accum))
      BY <1>3
    <2>2. Tends(B, q) /\ Header(q.m)
      BY <1>1, <1>3
    <2>3. \A y \in PutElement(q.m, p, s, t, accum) : Tends(q.m, y)
      BY <2>2, TendsPutElement
    <2> QED BY <2>1, <2>2, <2>3, TendsStep
  <1> HIDE DEF again
  <1>4. ASSUME NEW B, Header(B), NEW x \in put(B)
        PROVE  Tends(B, x)
    <2>1. CASE x \in PutElement(B, p, s, t, accum)
      BY <1>4, <2>1, TendsPutElement
    <2>2. CASE x \notin PutElement(B, p, s, t, accum)
      <3>1. PICK q \in Wait(B) : x \in Then(q, again(q.m))
        BY <1>4, <2>2
      <3>2. Tends(B, q) /\ Header(q.m)
        BY <1>4, TendsWait DEF Tends, Obeys, Follows
      <3>3. \A y \in again(q.m) : Tends(q.m, y)
        BY <1>3, <3>2
      <3> QED BY <3>1, <3>2, <3>3, TendsStep
    <2> QED BY <2>1, <2>2
  <1> HIDE DEF put
  <1>5. PICK q \in iso(A) : r \in Then(q, put(q.m))
    BY <1>2
  <1>6. Tends(A, q) /\ Header(q.m)
    BY <1>1
  <1>7. \A y \in put(q.m) : Tends(q.m, y)
    BY <1>4, <1>6
  <1> QED BY <1>5, <1>6, <1>7, TendsStep

\* GrB_Matrix_setElement.
LEMMA MindsSetElement ==
  ASSUME NEW A, Header(A), NEW p, NEW s, NEW t, NEW accum
  PROVE  Minds(A, SetElement(A, p, s, t, accum))
  <1>1. ASSUME NEW r \in SetElement(A, p, s, t, accum)
        PROVE  Tends(A, r) \/ (r.m = A /\ r.info # "OUT_OF_MEMORY")
    <2>1. CASE InRange(A, p)
      <3>1. PICK q \in WaitIf(A.jumbled, A) : r \in Then(q, SetUnjumbled(q.m, p, s, t, accum))
        BY <1>1, <2>1 DEF SetElement
      <3>2. Tends(A, q)
        BY TendsWaiters
      <3>3. \A x \in SetUnjumbled(q.m, p, s, t, accum) : Tends(q.m, x)
        BY <3>2, TendsSetUnjumbled DEF Tends, Obeys, Follows
      <3> QED BY <3>1, <3>2, <3>3, TendsStep
    <2>2. CASE ~InRange(A, p)
      BY <1>1, <2>2 DEF SetElement
    <2> QED BY <2>1, <2>2
  <1> QED BY <1>1, TendsMinds

\* A full matrix from which an entry is removed becomes one that its control
\* allows.
LEMMA ObeysFullToNonfull ==
  ASSUME NEW A, Header(A), NEW r \in FullToNonfull(A)
  PROVE  Obeys(A, r) /\ (r.info = "SUCCESS" => Controlled(r.m))
  <1> DEFINE c == SparsityControl(A)
  <1>1. c \subseteq Formats /\ c # {} /\ (c = {"full"} => A.control = {"full"})
    BY ControlAllows
  <1>2. CASE "bitmap" \in c \/ c = {"full"}
    <2>1. Obeys(A, r) /\ (r.info = "SUCCESS" => r.m.fmt = "bitmap")
      BY <1>2, ObeysConversion DEF FullToNonfull
    <2>2. SparsityControl(r.m) = c /\ r.m.control = A.control
      BY <2>1 DEF SparsityControl, Obeys, Follows
    <2> QED BY <1>1, <1>2, <2>1, <2>2 DEF Controlled
  <1>3. CASE ~("bitmap" \in c \/ c = {"full"})
    <2>1. \/ "sparse" \in c /\ r \in FullToSparse(A)
          \/ "sparse" \notin c /\ r \in AnyToHyper(A)
      BY <1>3 DEF FullToNonfull
    <2>2. "sparse" \notin c => "hyper" \in c
      BY <1>1, <1>3 DEF Formats
    <2> HIDE DEF c
    <2>3. /\ Obeys(A, r)
          /\ r.info = "SUCCESS" => r.m.fmt \in c
      BY <2>1, <2>2, ObeysConversion, ObeysAnyTo
    <2>4. SparsityControl(r.m) = c
      BY <2>3 DEF SparsityControl, Obeys, Follows, c
    <2> QED BY <2>3, <2>4 DEF Controlled
  <1> QED BY <1>2, <1>3

\* GrB_Matrix_removeElement, also where it crashes.
LEMMA MindsRemoveElement ==
  ASSUME NEW A, Header(A), NEW p
  PROVE  Minds(A, RemoveElement(A, p))
  <1> DEFINE nonfull(B) == IF B.fmt = "full" THEN FullToNonfull(B) ELSE Done(B)
             Kept(B, r) == /\ B.nne >= 0 => r.m.nne >= 0
                           /\ r.info # "OUT_OF_MEMORY" /\ Controlled(B) => Controlled(r.m)
                           /\ r.info = "OUT_OF_MEMORY" => MemoryMayFail
  <1>1. ASSUME NEW B, Header(B), NEW r \in TryRemove(B, p)
        PROVE  Kept(B, r)
    <2>1. CASE r.m = B /\ r.info # "OUT_OF_MEMORY"
      BY <2>1
    <2>2. CASE r \in Done(DeleteEntry(B, p))
      <3>1. Follows(B, DeleteEntry(B, p)) /\ DeleteEntry(B, p).fmt = B.fmt
        BY <1>1 DEF DeleteEntry, Follows, Header
      <3>2. Tends(B, r)
        BY <2>2, <3>1, TendsSame
      <3>3. r.info # "OUT_OF_MEMORY"
        BY <2>2 DEF Done
      <3> QED BY <3>2, <3>3 DEF Tends, Obeys, Follows, Done
    <2> QED BY <1>1, <2>1, <2>2 DEF TryRemove, Done
  <1>2. ASSUME NEW B, NEW q, Tends(B, q), NEW S, NEW r \in Then(q, S),
               q.info = "SUCCESS" => \A x \in S : Kept(q.m, x)
        PROVE  Kept(B, r)
    <2>1. CASE q.info = "SUCCESS"
      BY <1>2, <2>1 DEF Then, Tends, Obeys, Follows
    <2>2. CASE q.info # "SUCCESS"
      BY <1>2, <2>2 DEF Then, Tends, Obeys, Follows
    <2> QED BY <2>1, <2>2
  <1>3. ASSUME NEW B, Header(B), NEW r \in RemovePrepared(B, p)
        PROVE  Kept(B, r)
    <2>1. CASE r.m = B /\ r.info # "OUT_OF_MEMORY"
      BY <2>1
    <2>2. CASE r \in TryRemove(B, p)
      BY <1>1, <1>3, <2>2
    <2>3. CASE \E q \in Wait(B) : r \in Then(q, TryRemove(q.m, p))
      <3>1. PICK q \in Wait(B) : r \in Then(q, TryRemove(q.m, p))
        BY <2>3
      <3>2. Tends(B, q) /\ Header(q.m)
        BY <1>3, TendsWait DEF Tends, Obeys, Follows
      <3>3. \A x \in TryRemove(q.m, p) : Kept(q.m, x)
        BY <1>1, <3>2
      <3> HIDE DEF Kept
      <3> QED BY <1>2, <3>1, <3>2, <3>3
    <2> QED BY <1>3, <2>1, <2>2, <2>3 DEF RemovePrepared
  <1>4. ASSUME NEW B, Header(B), NEW r \in nonfull(B)
        PROVE  Tends(B, r)
    <2>1. CASE r \in Done(B)
      BY <1>4, <2>1, TendsSame DEF Follows
    <2>2. CASE r \in FullToNonfull(B)
      BY <1>4, <2>2, ObeysFullToNonfull DEF Tends
    <2> QED BY <1>4, <2>1, <2>2
  <1>5. ASSUME NEW r \in RemoveElement(A, p)
        PROVE  Kept(A, r)
    <2>1. PICK q \in PrepareRemove(A) : r \in Then(q, RemovePrepared(q.m, p))
      BY <1>5 DEF RemoveElement
    <2>2. PICK w \in WaitIf(A.jumbled, A) : q \in Then(w, nonfull(w.m))
      BY <2>1 DEF PrepareRemove
    <2>3. Tends(A, w) /\ Header(w.m)
      BY TendsWaiters DEF Tends, Obeys, Follows
    <2>4. \A x \in nonfull(w.m) : Tends(w.m, x)
      BY <1>4, <2>3
    <2> HIDE DEF nonfull, Kept
    <2>5. Tends(A, q)
      BY <2>2, <2>3, <2>4, TendsStep
    <2>6. \A x \in RemovePrepared(q.m, p) : Kept(q.m, x)
      BY <1>3, <2>5 DEF Tends, Obeys, Follows
    <2> QED BY <1>2, <2>1, <2>5, <2>6
  <1> QED BY <1>5 DEF Minds

\* GrB_Matrix_clear.
LEMMA TendsClear ==
  ASSUME NEW A, Header(A), NEW r \in Clear(A)
  PROVE  Tends(A, r)
  <1> DEFINE F == PhybixFree(A)
             f == IF HyperToSparseTest(A, 0) THEN "sparse" ELSE "hyper"
             fresh == [F EXCEPT !.valid = TRUE, !.fmt = f]
             B == [A EXCEPT !.entry = EmptyEntry, !.nvals = 0]
  <1>1. r \in Done(B) \/ r \in ConformSettled(fresh) \/ r \in NoMemory(F)
    BY DEF Clear
  <1>2. Follows(A, F)
    BY FollowsFree
  <1>3. f \in Formats
    BY DEF Formats
  <1> HIDE DEF F, f
  <1>4. Follows(A, fresh) /\ Header(fresh)
    BY <1>2, <1>3 DEF Follows, Header
  <1>5. Follows(A, B) /\ B.fmt = A.fmt
    BY DEF Follows, Header
  <1> HIDE DEF fresh, B
  <1>6. CASE r \in Done(B) \/ r \in NoMemory(F)
    BY <1>2, <1>5, <1>6, TendsSame
  <1>7. CASE r \in ConformSettled(fresh)
    <2>1. Obeys(fresh, r) /\ (r.info = "SUCCESS" => Controlled(r.m))
      BY <1>4, <1>7, ObeysConformSettled
    <2> QED BY <1>4, <2>1, FollowsTrans DEF Tends, Obeys
  <1> QED BY <1>1, <1>6, <1>7

\* So it minds the matrix.
LEMMA MindsClear ==
  ASSUME NEW A, Header(A)
  PROVE  Minds(A, Clear(A))
  BY TendsClear, TendsMinds

\* The outcome of a step that may change the number of vectors.
Runs(r) ==
  /\ {"m", "info"} \subseteq DOMAIN r /\ Header(r.m)
  /\ r.info = "SUCCESS" \/ (r.info = "OUT_OF_MEMORY" /\ MemoryMayFail)

\* One step after another.
LEMMA RunsStep ==
  ASSUME NEW r, Runs(r), NEW S, NEW q \in Then(r, S),
         r.info = "SUCCESS" => \A s \in S : Runs(s)
  PROVE  Runs(q)
  BY DEF Then

\* A step that takes a matrix to B, or has no memory for it.
LEMMA RunsDone ==
  ASSUME NEW B, Header(B), NEW r, r \in Done(B) \/ r \in NoMemory(B)
  PROVE  Runs(r)
  BY DEF Runs, Done, NoMemory

\* A bitmap or full matrix that shrinks.
LEMMA RunsShrinkDense ==
  ASSUME NEW A, Header(A), NEW vlen, NEW vdim \in Nat, NEW r \in ShrinkDense(A, vlen, vdim)
  PROVE  Runs(r)
  <1> DEFINE B == [A EXCEPT !.entry = Truncated(A, vlen, vdim), !.vlen = vlen, !.vdim = vdim]
             n == IF A.fmt = "bitmap" THEN Cardinality(Live(B)) ELSE B.nvals
             D == [B EXCEPT !.nvals = n, !.nne = AllVectors(B)]
  <1>1. r \in Done(D) \/ r \in NoMemory(A)
    BY DEF ShrinkDense
  <1>2. Header(B)
    BY DEF Header
  <1> HIDE DEF B, n
  <1>3. Header(D)
    BY <1>2 DEF Header
  <1> HIDE DEF D
  <1> QED BY <1>1, <1>3, RunsDone

\* The hyperlist and the rows are trimmed.
LEMMA RunsResizeHyper ==
  ASSUME NEW A, Header(A), NEW vlen, NEW vdim \in Nat, NEW r \in ResizeHyper(A, vlen, vdim)
  PROVE  Runs(r)
  <1> DEFINE sized(q) == [q EXCEPT !.m = [@ EXCEPT !.vlen = vlen, !.vdim = vdim]]
             rows == UNION {Then(q, SelectRows(TrimVectors(q.m, vdim), vlen))
                              : q \in AnyToHyper(A)}
             pruned == UNION {Then(q, HyperPrune(q.m)) : q \in rows}
  <1>1. ASSUME NEW B, Header(B)
        PROVE  Header(TrimVectors(B, vdim))
    BY <1>1 DEF TrimVectors, Header
  <1>2. ASSUME NEW B, Header(B), NEW q \in HyperPrune(B)
        PROVE  Runs(q)
    BY <1>2, ObeysPrune DEF Obeys, Follows, Runs
  <1>3. ASSUME NEW B, Header(B), NEW q \in SelectRows(B, vlen)
        PROVE  Runs(q)
    <2> DEFINE D == [B EXCEPT !.entry = Truncated(B, vlen, B.vdim), !.Y = NoHash]
               E == [D EXCEPT !.nvals = Cardinality(Held(D)),
                              !.nne = Cardinality(Nonempty(D))]
    <2>1. q \in HyperPrune(E) \/ q \in NoMemory(B) \/ q \in Done(B)
      BY <1>3 DEF SelectRows
    <2>2. Header(D)
      BY <1>3 DEF Header
    <2> HIDE DEF D
    <2>3. Header(E)
      BY <2>2 DEF Header
    <2> HIDE DEF E
    <2> QED BY <1>2, <1>3, <2>1, <2>3, RunsDone
  <1>4. ASSUME NEW q \in rows
        PROVE  Runs(q)
    <2>1. PICK w \in AnyToHyper(A) : q \in Then(w, SelectRows(TrimVectors(w.m, vdim), vlen))
      BY <1>4
    <2>2. Runs(w)
      BY ObeysAnyTo DEF Obeys, Follows, Runs
    <2>3. \A x \in SelectRows(TrimVectors(w.m, vdim), vlen) : Runs(x)
      BY <1>1, <1>3, <2>2 DEF Runs
    <2> QED BY <2>1, <2>2, <2>3, RunsStep
  <1> HIDE DEF rows
  <1>5. ASSUME NEW q \in pruned
        PROVE  Runs(q)
    <2>1. PICK w \in rows : q \in Then(w, HyperPrune(w.m))
      BY <1>5
    <2>2. \A x \in HyperPrune(w.m) : Runs(x)
      BY <1>2, <1>4 DEF Runs
    <2> QED BY <1>4, <2>1, <2>2, RunsStep
  <1>6. r \in {sized(q) : q \in pruned}
    BY DEF ResizeHyper, rows
  <1> HIDE DEF pruned
  <1>7. PICK q \in pruned : r = sized(q)
    BY <1>6
  <1> DEFINE m == [q.m EXCEPT !.vlen = vlen, !.vdim = vdim]
  <1>8. Runs(q)
    BY <1>5
  <1>9. Header(m)
    BY <1>8 DEF Runs, Header
  <1>10. r = [q EXCEPT !.m = m]
    BY <1>7
  <1> HIDE DEF m
  <1>11. r.m = m /\ r.info = q.info /\ DOMAIN r = DOMAIN q
    BY <1>8, <1>10 DEF Runs
  <1> QED BY <1>8, <1>9, <1>11 DEF Runs

\* GrB_Matrix_resize conforms what is left, or frees it.
LEMMA MindsResize ==
  ASSUME NEW A, Header(A), NEW vlen, NEW vdim \in Nat
  PROVE  Minds(A, Resize(A, vlen, vdim))
  <1> DEFINE shrinking == vlen <= A.vlen /\ vdim <= A.vdim
             resized(B) == IF B.fmt \in {"full", "bitmap"} /\ shrinking
                           THEN ShrinkDense(B, vlen, vdim) ELSE ResizeHyper(B, vlen, vdim)
             worked == UNION {Then(r, resized(r.m)) : r \in WaitIf(AnyPendingWork(A), A)}
             conformed == UNION {Then(q, ConformSettled(q.m)) : q \in worked}
  <1>1. CASE vlen = A.vlen /\ vdim = A.vdim
    <2>1. \A r \in Resize(A, vlen, vdim) : Tends(A, r)
      BY <1>1, TendsSame DEF Resize, Follows
    <2> QED BY <2>1, TendsMinds
  <1>2. CASE ~(vlen = A.vlen /\ vdim = A.vdim)
    <2>1. Resize(A, vlen, vdim) = {FreeOnError(r) : r \in conformed}
      BY <1>2 DEF Resize
    <2> HIDE DEF shrinking
    <2>2. ASSUME NEW B, Header(B), NEW q \in resized(B)
          PROVE  Runs(q)
      BY <2>2, RunsShrinkDense, RunsResizeHyper
    <2> HIDE DEF resized
    <2>3. ASSUME NEW q \in worked
          PROVE  Runs(q)
      <3>1. PICK w \in WaitIf(AnyPendingWork(A), A) : q \in Then(w, resized(w.m))
        BY <2>3
      <3>2. Tends(A, w)
        BY TendsWaiters
      <3>3. Runs(w)
        BY <3>2 DEF Tends, Obeys, Follows, Runs
      <3>4. \A x \in resized(w.m) : Runs(x)
        BY <2>2, <3>3 DEF Runs
      <3> QED BY <3>1, <3>3, <3>4, RunsStep
    <2> HIDE DEF worked
    <2>4. ASSUME NEW r \in conformed
          PROVE  /\ Runs(r)
                 /\ r.info = "SUCCESS" => r.m.nne >= 0 /\ Controlled(r.m)
      <3>1. PICK q \in worked : r \in Then(q, ConformSettled(q.m))
        BY <2>4
      <3>2. Runs(q) /\ Header(q.m)
        BY <2>3 DEF Runs
      <3>3. \A x \in ConformSettled(q.m) :
              Runs(x) /\ (x.info = "SUCCESS" => x.m.nne >= 0 /\ Controlled(x.m))
        BY <3>2, ObeysConformSettled DEF Runs, Obeys, Follows
      <3> QED BY <3>1, <3>2, <3>3 DEF Then
    <2> HIDE DEF conformed
    <2>5. ASSUME NEW r \in conformed
          PROVE  LET f == FreeOnError(r)
                 IN  /\ f.m.nne >= 0
                     /\ f.info = "OUT_OF_MEMORY" => MemoryMayFail
                     /\ f.info # "OUT_OF_MEMORY" => Controlled(f.m)
      <3>1. CASE r.info = "SUCCESS"
        BY <2>4, <2>5, <3>1 DEF FreeOnError
      <3>2. CASE r.info # "SUCCESS"
        <4> DEFINE F == PhybixFree(r.m)
        <4>1. Runs(r)
          BY <2>4, <2>5
        <4>2. F.nne = 0
          BY <4>1 DEF PhybixFree, Runs, Header
        <4>3. FreeOnError(r) = [r EXCEPT !.m = F]
          BY <3>2 DEF FreeOnError
        <4> HIDE DEF F
        <4> QED BY <3>2, <4>1, <4>2, <4>3 DEF Runs
      <3> QED BY <3>1, <3>2
    <2> QED BY <2>1, <2>5 DEF Minds
  <1> QED BY <1>1, <1>2

\* A result that is moved into C, whatever settings it had.
LEMMA MindsAssignResult ==
  ASSUME NEW A, Header(A), NEW T, Header(T), T.vdim = A.vdim
  PROVE  Minds(A, AssignResult(A, T))
  <1> DEFINE back(r) == IF r.info = "SUCCESS" THEN r ELSE [r EXCEPT !.m = A]
             finished == {back(r) : r \in WaitIf(T.nzombies > 0, T)}
             moved == UNION {Then(r, TransplantConform(A, r.m)) : r \in finished}
  <1>1. Follows(A, A)
    BY DEF Follows
  <1>2. ASSUME NEW r \in WaitIf(T.nzombies > 0, T)
        PROVE  /\ {"m", "info"} \subseteq DOMAIN back(r)
               /\ \/ back(r).info = "SUCCESS" /\ Header(back(r).m) /\ back(r).m.vdim = A.vdim
                  \/ back(r).info = "OUT_OF_MEMORY" /\ MemoryMayFail /\ back(r).m = A
    <2>1. Obeys(T, r)
      BY <1>2, TendsWaiters DEF Tends
    <2> QED BY <2>1 DEF Obeys, Follows
  <1>3. AssignResult(A, T) = NoMemory(A) \cup UNION {Then(r, Block(r.m)) : r \in moved}
    BY DEF AssignResult
  <1> HIDE DEF back
  <1>4. ASSUME NEW q \in moved
        PROVE  Tends(A, q)
    <2>1. PICK r \in WaitIf(T.nzombies > 0, T) : q \in Then(back(r), TransplantConform(A, back(r).m))
      BY <1>4
    <2>2. CASE back(r).info = "SUCCESS"
      BY <1>2, <2>1, <2>2, ObeysTransplantConform DEF Then, Tends
    <2>3. CASE back(r).info # "SUCCESS"
      <3>1. q = back(r)
        BY <2>1, <2>3 DEF Then
      <3> QED BY <1>1, <1>2, <2>3, <3>1 DEF Tends, Obeys
    <2> QED BY <2>2, <2>3
  <1> HIDE DEF moved
  <1>5. ASSUME NEW r \in AssignResult(A, T)
        PROVE  Tends(A, r)
    <2>1. CASE r \in NoMemory(A)
      BY <1>1, <2>1, TendsSame
    <2>2. CASE r \notin NoMemory(A)
      <3>1. PICK q \in moved : r \in Then(q, Block(q.m))
        BY <1>3, <1>5, <2>2
      <3>2. Tends(A, q)
        BY <1>4
      <3>3. \A x \in Block(q.m) : Tends(q.m, x)
        BY <3>2, TendsWaiters DEF Tends, Obeys, Follows
      <3> QED BY <3>1, <3>2, <3>3, TendsStep
    <2> QED BY <2>1, <2>2
  <1> QED BY <1>5, TendsMinds

\* Once it has succeeded, GrB_Matrix_wait leaves no hash to be built.
LEMMA WaitedHashed ==
  ASSUME NEW A, Ready(A), NEW r \in MatrixWait(A), r.info = "SUCCESS"
  PROVE  ~AnyPendingWork(r.m) /\ ~HyperHashNeed(r.m)
  <1>1. ~AnyPendingWork(r.m)
    BY SafeMatrixWait DEF Settled
  <1>2. CASE r \in Done(A) /\ ~HyperHashNeed(A)
    <2>1. r.m = A
      BY <1>2 DEF Done
    <2> QED BY <1>1, <1>2, <2>1
  <1>3. CASE r \in Materialize(A)
    <2>1. PICK q \in Wait(A) : r \in Then(q, HyperHashBuild(q.m))
      BY <1>3 DEF Materialize
    <2>2. q.info = "SUCCESS" /\ r \in HyperHashBuild(q.m)
      BY <2>1 DEF Then
    <2>3. q.m \in Matrices
      BY SafeWait DEF Settled, Safe, Good
    <2> DEFINE D == [q.m EXCEPT !.Y = q.m.h]
    <2>4. ~HyperHashNeed(D)
      <3>1. D.Y = q.m.h /\ q.m.h \subseteq Vectors
        BY <2>3 DEF Matrices
      <3>2. -1 \notin Vectors
        BY DEF Vectors
      <3> QED BY <3>1, <3>2 DEF HyperHashNeed, NoHash
    <2>5. \/ r.m = q.m /\ ~HyperHashNeed(q.m)
          \/ r.m = D
      BY <2>2 DEF HyperHashBuild, Done, NoMemory
    <2> QED BY <1>1, <2>4, <2>5
  <1> QED BY <1>1, <1>2, <1>3 DEF MatrixWait

\* The nonempty vectors of a matrix are counted between two calls, and a call
\* only runs out of memory if malloc may fail.
Counted == C.nne >= 0 /\ (reply.info = "OUT_OF_MEMORY" => MemoryMayFail)

\* A new matrix is counted and is held as its control allows.
LEMMA CountedInit ==
  ASSUME Init
  PROVE  Counted /\ HeldAsControlled
  <1>1. PICK d \in NewDims, c \in NewControls : C \in Created(d[1], d[2], c)
    BY DEF Init
  <1>2. d[1] \in 0 .. MaxVlen /\ d[2] \in 0 .. MaxVdim /\ c \in (SUBSET Formats) \ {{}}
    BY CallsAssumption
  <1> DEFINE A == NewMatrix(d[1], d[2])
             B == [A EXCEPT !.control = c]
  <1>3. Header(A) /\ Controlled(A) /\ A.nne = 0
    <2>1. d[2] \in Nat
      BY <1>2, DimsAssumption
    <2> QED BY <2>1 DEF NewMatrix, Header, Controlled, SparsityControl, Formats
  <1>4. C = A \/ \E q \in SetSparsityControl(A, c) : q.info = "SUCCESS" /\ C = q.m
    BY <1>1 DEF Created
  <1> HIDE DEF A
  <1>5. Header(B)
    BY <1>2, <1>3 DEF Header
  <1>6. SetSparsityControl(A, c) = Conform(B)
    BY DEF SetSparsityControl
  <1> HIDE DEF B
  <1>7. C.nne >= 0 /\ Controlled(C)
    BY <1>3, <1>4, <1>5, <1>6, ObeysConform
  <1> QED BY <1>7 DEF Init, Counted, HeldAsControlled, Controlled

\* What a call that minds its matrix does to the matrix of the user.
Minded ==
  /\ C.nne >= 0 => C'.nne >= 0
  /\ reply'.info = "OUT_OF_MEMORY" => MemoryMayFail
  /\ reply'.info # "OUT_OF_MEMORY" /\ HeldAsControlled => HeldAsControlled'

\* A call with outcomes that mind the matrix, or refused.
LEMMA MindsPerform ==
  ASSUME NEW call, NEW S, C.valid => Minds(C, S), Perform(call, S)
  PROVE  Minded
  <1>1. CASE C.valid /\ \E r \in S : C' = r.m /\ Reply(call, r.info, NoVal)
    <2>1. PICK r \in S : C' = r.m /\ reply'.info = r.info
      BY <1>1 DEF Reply
    <2> QED BY <1>1, <2>1 DEF Minds, Minded, HeldAsControlled, Controlled
  <1>2. CASE Refuse(call)
    BY <1>2 DEF Minded, Refuse, Reply, HeldAsControlled
  <1> QED BY <1>1, <1>2 DEF Perform

\* A call that reads the matrix and waits for its pending work first.
LEMMA MindsWaiting ==
  ASSUME Header(C), NEW cond, NEW r \in WaitIf(cond, C), C.valid, C' = r.m,
         reply'.info = "OUT_OF_MEMORY" <=> r.info = "OUT_OF_MEMORY"
  PROVE  Minded
  <1>1. Tends(C, r)
    BY TendsWaiters
  <1> QED BY <1>1 DEF Tends, Obeys, Follows, Minded, HeldAsControlled, Controlled

\* Every user function minds the matrix.
LEMMA MindsNext ==
  ASSUME Intact, Next
  PROVE  Minded
  <1>1. Header(C)
    BY HeaderType DEF Intact, Good
  <1>2. CASE GrB_Matrix_setElement
    BY <1>1, <1>2, MindsSetElement, MindsPerform DEF GrB_Matrix_setElement
  <1>3. CASE GrB_Matrix_removeElement
    BY <1>1, <1>3, MindsRemoveElement, MindsPerform DEF GrB_Matrix_removeElement
  <1>4. CASE GrB_Matrix_extractElement
    <2>1. PICK p \in Indices :
            \/ Refuse(<<"extract", p>>)
            \/ /\ C.valid
               /\ \E r \in WaitIf(AnyPendingWork(C), C) :
                    LET info == IF r.info = "SUCCESS" THEN ExtractInfo(r.m, p) ELSE r.info
                    IN  /\ C' = r.m
                        /\ Reply(<<"extract", p>>, info,
                                 IF info = "SUCCESS" THEN r.m.entry[p] ELSE NoVal)
      BY <1>4 DEF GrB_Matrix_extractElement
    <2>2. CASE Refuse(<<"extract", p>>)
      BY <2>2 DEF Minded, Refuse, Reply, HeldAsControlled
    <2>3. CASE ~Refuse(<<"extract", p>>)
      <3>1. PICK r \in WaitIf(AnyPendingWork(C), C) :
              C' = r.m /\ reply'.info = IF r.info = "SUCCESS" THEN ExtractInfo(r.m, p) ELSE r.info
        BY <2>1, <2>3 DEF Reply
      <3>2. reply'.info = "OUT_OF_MEMORY" <=> r.info = "OUT_OF_MEMORY"
        BY <3>1 DEF ExtractInfo
      <3> QED BY <1>1, <2>1, <2>3, <3>1, <3>2, MindsWaiting
    <2> QED BY <2>2, <2>3
  <1>5. CASE GrB_Matrix_nvals
    <2>1. CASE Refuse(<<"nvals">>)
      BY <2>1 DEF Minded, Refuse, Reply, HeldAsControlled
    <2>2. CASE ~Refuse(<<"nvals">>)
      <3>1. PICK r \in WaitIf(HasPending(C), C) : C' = r.m /\ reply'.info = r.info
        BY <1>5, <2>2 DEF GrB_Matrix_nvals, Reply
      <3> QED BY <1>1, <1>5, <2>2, <3>1, MindsWaiting DEF GrB_Matrix_nvals
    <2> QED BY <2>1, <2>2
  <1>6. CASE GrB_Matrix_wait
    BY <1>1, <1>6, TendsWaiters, TendsMinds, MindsPerform DEF GrB_Matrix_wait
  <1>7. CASE GrB_Matrix_clear
    BY <1>1, <1>7, MindsClear, MindsPerform DEF GrB_Matrix_clear
  <1>8. CASE GrB_Matrix_resize
    <2>1. PICK d \in NewDims : Perform(<<"resize", d>>, Resize(C, d[1], d[2]))
      BY <1>8 DEF GrB_Matrix_resize
    <2>2. d[2] \in Nat
      BY CallsAssumption, DimsAssumption
    <2> QED BY <1>1, <2>1, <2>2, MindsResize, MindsPerform
  <1>9. CASE GxB_SPARSITY_CONTROL
    <2>1. PICK c \in Controls : Perform(<<"control", c>>, SetSparsityControl(C, c))
      BY <1>9 DEF GxB_SPARSITY_CONTROL
    <2>2. c \in (SUBSET Formats) \ {{}}
      BY CallsAssumption
    <2> QED BY <1>1, <2>1, <2>2, MindsSettings, MindsPerform
  <1>10. CASE GxB_HYPER_HASH
    <2>1. PICK wanted \in BOOLEAN : Perform(<<"hash", wanted>>, SetHyperHash(C, wanted))
      BY <1>10 DEF GxB_HYPER_HASH
    <2>2. Formats \in (SUBSET Formats) \ {{}}
      BY DEF Formats
    <2> QED BY <1>1, <2>1, <2>2, MindsSettings, MindsPerform
  <1>11. CASE GxB_ISO
    BY <1>1, <1>11, MindsSetIso, MindsPerform DEF GxB_ISO
  <1>12. CASE Assign
    <2>1. PICK T \in Results : /\ T.vdim = C.vdim
                               /\ Perform(<<"assign", T>>, AssignResult(C, T))
      BY <1>12 DEF Assign
    <2>2. Header(T)
      BY ResultsAssumption, HeaderType
    <2> QED BY <1>1, <2>1, <2>2, MindsAssignResult, MindsPerform
  <1> QED BY <1>2, <1>3, <1>4, <1>5, <1>6, <1>7, <1>8, <1>9, <1>10, <1>11, <1>12
          DEF Next, OtherCall

\* A call of GrB_Matrix_wait that succeeds leaves nothing to do.
LEMMA WaitedNext ==
  ASSUME Inv, Counted, Next, reply'.call[1] = "wait", reply'.info = "SUCCESS"
  PROVE  ~AnyPendingWork(C)' /\ ~HyperHashNeed(C)' /\ C'.nne >= 0
  <1>1. C'.nne >= 0
    BY MindsNext DEF Minded, Counted, Inv
  <1>2. \A call, S : Perform(call, S) => reply'.call = call
    BY DEF Perform, Reply, Refuse
  <1>3. GrB_Matrix_wait
    <2>1. GrB_Matrix_extractElement => reply'.call[1] = "extract"
      BY DEF GrB_Matrix_extractElement, Refuse, Reply
    <2>2. GrB_Matrix_nvals => reply'.call[1] = "nvals"
      BY DEF GrB_Matrix_nvals, Refuse, Reply
    <2>3. GrB_Matrix_setElement => reply'.call[1] = "set"
      BY <1>2 DEF GrB_Matrix_setElement
    <2>4. GrB_Matrix_removeElement => reply'.call[1] = "remove"
      BY <1>2 DEF GrB_Matrix_removeElement
    <2>5. GrB_Matrix_clear => reply'.call[1] = "clear"
      BY <1>2 DEF GrB_Matrix_clear
    <2>6. GrB_Matrix_resize => reply'.call[1] = "resize"
      BY <1>2 DEF GrB_Matrix_resize
    <2>7. GxB_SPARSITY_CONTROL => reply'.call[1] = "control"
      BY <1>2 DEF GxB_SPARSITY_CONTROL
    <2>8. GxB_HYPER_HASH => reply'.call[1] = "hash"
      BY <1>2 DEF GxB_HYPER_HASH
    <2>9. GxB_ISO => reply'.call[1] = "iso"
      BY <1>2 DEF GxB_ISO
    <2>10. Assign => reply'.call[1] = "assign"
      BY <1>2 DEF Assign
    <2> QED BY <2>1, <2>2, <2>3, <2>4, <2>5, <2>6, <2>7, <2>8, <2>9, <2>10
            DEF Next, OtherCall
  <1>4. PICK r \in MatrixWait(C) : C.valid /\ C' = r.m /\ r.info = "SUCCESS"
    BY <1>3 DEF GrB_Matrix_wait, Perform, Refuse, Reply
  <1>5. ~AnyPendingWork(r.m) /\ ~HyperHashNeed(r.m)
    BY <1>4, WaitedHashed DEF Inv, Intact, Ready
  <1>6. ~AnyPendingWork(C') /\ ~HyperHashNeed(C')
    BY <1>4, <1>5
  <1> QED BY <1>1, <1>6 DEF AnyPendingWork, HasPending, HyperHashNeed

-----------------------------------------------------------------------------
(* The theorems on the sparsity control and on GrB_Matrix_wait *)

\* The nonempty vectors are always counted between two calls.
THEOREM CountedInvariant == Spec => []Counted
  <1>1. Init => Counted
    BY CountedInit
  <1>2. Inv /\ Counted /\ [Next]_vars => Counted'
    <2>1. CASE Inv /\ Counted /\ Next
      BY <2>1, MindsNext DEF Minded, Inv, Counted
    <2>2. CASE Counted /\ UNCHANGED vars
      BY <2>2 DEF vars, Counted
    <2> QED BY <2>1, <2>2
  <1> QED BY <1>1, <1>2, Invariant, PTL DEF Spec

\* Once GrB_Matrix_wait has succeeded, a function that only reads the matrix
\* does not write to it: no pending work, no hash and no count is left to do.
THEOREM WaitIsComplete == Spec => WaitedIsReadOnly
  <1> DEFINE Waited == reply'.call[1] = "wait" /\ reply'.info = "SUCCESS" =>
                         ~AnyPendingWork(C)' /\ ~HyperHashNeed(C)' /\ C'.nne >= 0
  <1>1. Inv /\ Counted /\ [Next]_vars => [Waited]_vars
    BY WaitedNext
  <1> HIDE DEF Waited
  <1>2. Spec => [][Waited]_vars
    BY <1>1, Invariant, CountedInvariant, PTL DEF Spec
  <1> QED BY <1>2 DEF WaitedIsReadOnly, Waited

\* As long as no call has run out of memory, the matrix is held in a structure
\* that its sparsity control allows.
THEOREM ControlIsHeld ==
  Spec /\ [](reply.info # "OUT_OF_MEMORY") => []HeldAsControlled
  <1>1. Init => HeldAsControlled
    BY CountedInit
  <1>2. Inv /\ HeldAsControlled /\ [Next]_vars /\ (reply.info # "OUT_OF_MEMORY")'
          => HeldAsControlled'
    <2>1. CASE Inv /\ HeldAsControlled /\ Next /\ (reply.info # "OUT_OF_MEMORY")'
      BY <2>1, MindsNext DEF Minded, Inv
    <2>2. CASE HeldAsControlled /\ UNCHANGED vars
      BY <2>2 DEF vars, HeldAsControlled
    <2> QED BY <2>1, <2>2
  <1> QED BY <1>1, <1>2, Invariant, PTL DEF Spec

\* So it always is where malloc does not fail.
THEOREM ControlHeldWithMemory ==
  ASSUME ~MemoryMayFail
  PROVE  Spec => []HeldAsControlled
  <1>1. Counted => reply.info # "OUT_OF_MEMORY"
    BY DEF Counted
  <1> QED BY <1>1, CountedInvariant, ControlIsHeld, PTL

-----------------------------------------------------------------------------
(* A matrix that is not sorted stays sparse or hypersparse *)

\* JumbledStaysSparse, of any matrix.
Calm(A) == A.jumbled => ConformTarget(A) # {"bitmap"}

\* Sparse or hypersparse is allowed, and bitmap is not better.
Sparsely(A) ==
  /\ SparsityControl(A) \ {"full", "bitmap"} # {}
  /\ ~("bitmap" \in SparsityControl(A) /\ SparseToBitmapTest(A))

\* B has the header of A, but may have fewer entries.
Thinner(A, B) ==
  /\ B.fmt \in {"hyper", "sparse"} /\ B.vlen = A.vlen /\ B.vdim = A.vdim
  /\ B.control = A.control /\ B.nvals <= A.nvals

\* What GB_conform chooses if entries are missing, or there is work to do.
LEMMA SparseTarget ==
  ASSUME NEW A \in Matrices, A.fmt \in {"hyper", "sparse"}, ~AsIfFull(A)
  PROVE  IF Sparsely(A)
         THEN /\ ConformTarget(A) = SparsityControl(A) \ {"full", "bitmap"}
              /\ ConformTarget(A) # {} /\ ConformTarget(A) \subseteq {"hyper", "sparse"}
         ELSE ConformTarget(A) = {"bitmap"}
  <1> DEFINE c == SparsityControl(A)
             others == c \ {"full"}
             bitmap == /\ "bitmap" \in others
                       /\ \/ others = {"bitmap"}
                          \/ A.fmt = "full"
                          \/ A.fmt = "bitmap" /\ ~BitmapToSparseTest(A)
                          \/ A.fmt \in {"hyper", "sparse"} /\ SparseToBitmapTest(A)
  <1>1. c \subseteq {"hyper", "sparse", "bitmap", "full"}
    BY HeaderType, ControlAllows DEF Formats
  <1>2. ConformTarget(A) = IF bitmap \/ others = {} THEN {"bitmap"} ELSE others \ {"bitmap"}
    BY DEF ConformTarget
  <1>3. bitmap <=> "bitmap" \in c /\ (others = {"bitmap"} \/ SparseToBitmapTest(A))
    OBVIOUS
  <1> HIDE DEF c, bitmap
  <1>4. others \ {"bitmap"} = c \ {"full", "bitmap"}
    OBVIOUS
  <1>5. CASE Sparsely(A)
    <2>1. ~bitmap /\ others # {}
      BY <1>3, <1>5 DEF Sparsely, c
    <2> QED BY <1>1, <1>2, <1>4, <1>5, <2>1 DEF Sparsely, c
  <1>6. CASE ~Sparsely(A)
    <2>1. bitmap \/ others = {}
      <3>1. CASE others \ {"bitmap"} = {}
        BY <1>3, <3>1
      <3>2. CASE others \ {"bitmap"} # {}
        BY <1>3, <1>4, <1>6, <3>2 DEF Sparsely, c
      <3> QED BY <3>1, <3>2
    <2> QED BY <1>2, <1>6, <2>1
  <1> QED BY <1>5, <1>6

\* Fewer entries are no reason to become bitmap.
LEMMA SparselyThinner ==
  ASSUME NEW A \in Matrices, NEW B \in Matrices, A.fmt \in {"hyper", "sparse"},
         Thinner(A, B), Sparsely(A)
  PROVE  Sparsely(B)
  <1>1. SparsityControl(B) = SparsityControl(A) /\ Dense(B) = Dense(A)
    BY DEF Thinner, SparsityControl, Dense
  <1>2. Nnz(B) = B.nvals /\ Nnz(A) = A.nvals
    BY DEF Thinner, Nnz
  <1>3. A.nvals \in Nat /\ B.nvals \in Nat /\ B.nvals <= A.nvals
    BY DEF Matrices, Thinner
  <1>4. BitmapSwitch.den \in Nat /\ BitmapSwitch.num \in Nat /\ Dense(A) \in Nat
    BY SwitchAssumption, DenseNat
  <1>5. \A a, b, d \in Nat : b <= a => b * d <= a * d
    OBVIOUS
  <1>6. B.nvals * BitmapSwitch.den <= A.nvals * BitmapSwitch.den
    BY <1>3, <1>4, <1>5
  <1>7. SparseToBitmapTest(B) => SparseToBitmapTest(A)
    <2> DEFINE a == A.nvals * BitmapSwitch.den
               b == B.nvals * BitmapSwitch.den
               d == BitmapSwitch.num * Dense(A)
    <2>1. (SparseToBitmapTest(B) <=> b > d) /\ (SparseToBitmapTest(A) <=> a > d)
      BY <1>1, <1>2 DEF SparseToBitmapTest
    <2>2. a \in Int /\ b \in Int /\ d \in Int /\ b <= a
      BY <1>3, <1>4, <1>6
    <2> HIDE DEF a, b, d
    <2> QED BY <2>1, <2>2
  <1> QED BY <1>1, <1>7 DEF Sparsely

\* Between sparse and hypersparse only the hyperlist changes.
LEMMA SparseConverted ==
  ASSUME NEW A \in Matrices, A.fmt \in {"hyper", "sparse"},
         NEW target, target # {}, target \subseteq {"hyper", "sparse"},
         NEW r \in ConvertTo(A, target), r.info = "SUCCESS"
  PROVE  Thinner(A, r.m) /\ (r.m.jumbled <=> A.jumbled)
  <1> DEFINE Same(B) == Thinner(A, B) /\ (B.jumbled <=> A.jumbled)
  <1>1. ASSUME NEW B \in Matrices, B.fmt = A.fmt, Same(B),
               NEW s, s \in HyperToSparse(B) \/ s \in SparseToHyper(B), s.info = "SUCCESS"
        PROVE  Same(s.m)
    <2>1. CASE s \in HyperToSparse(B)
      <3> DEFINE h == {}
                 all == B.vdim # 1 /\ B.h = 0 .. B.vdim - 1
                 n == IF all THEN B.nne ELSE Cardinality(Nonempty(B))
                 D == [B EXCEPT !.fmt = "sparse", !.h = {}, !.Y = NoHash, !.nne = n]
      <3>1. s \in Done(D) \/ s \in NoMemory(B)
        BY <2>1 DEF HyperToSparse
      <3> HIDE DEF n
      <3>2. s.m = D
        BY <1>1, <3>1, DoneResult
      <3> QED BY <1>1, <3>2 DEF Thinner, Matrices
    <2>2. CASE s \in SparseToHyper(B)
      <3> DEFINE n == Cardinality(Nonempty(B))
                 D == [B EXCEPT !.fmt = "hyper", !.h = Nonempty(B), !.nne = n]
      <3>1. s \in Done(D) \/ s \in NoMemory(B)
        BY <2>2 DEF SparseToHyper
      <3> HIDE DEF n
      <3>2. s.m = D
        BY <1>1, <3>1, DoneResult
      <3> QED BY <1>1, <3>2 DEF Thinner, Matrices
    <2> QED BY <1>1, <2>1, <2>2
  <1>2. Same(A)
    BY DEF Thinner, Matrices
  <1>3. CASE target = {"hyper"} \/ target = {"sparse"}
    <2>1. \/ r \in Done(A) \/ r \in HyperToSparse(A) \/ r \in SparseToHyper(A)
      BY <1>3 DEF ConvertTo, AnyToHyper, AnyToSparse, Then, Done
    <2> HIDE DEF Same
    <2>2. Same(r.m)
      BY <1>1, <1>2, <2>1 DEF Done
    <2> QED BY <2>2 DEF Same
  <1>4. CASE target # {"hyper"} /\ target # {"sparse"}
    <2> DEFINE B == UpdateNne(A)
    <2>1. r \in ConformHyper(A)
      BY <1>4 DEF ConvertTo
    <2>2. B \in Matrices /\ B.fmt = A.fmt /\ Same(B)
      <3>1. NvecNonempty(A) \in Nat
        BY HeldCounts, DenseNat DEF NvecNonempty
      <3> DEFINE n == IF A.nne >= 0 THEN A.nne ELSE NvecNonempty(A)
      <3>2. B = [A EXCEPT !.nne = n]
        BY DEF UpdateNne, Matrices
      <3>3. n \in Nat \cup {-1}
        BY <3>1 DEF Matrices
      <3> HIDE DEF n, B
      <3> QED BY <3>2, <3>3 DEF Thinner, Matrices
    <2>3. r \in Done(B) \/ r \in HyperToSparse(B) \/ r \in SparseToHyper(B)
      BY <2>1 DEF ConformHyper
    <2> HIDE DEF Same, B
    <2>4. Same(r.m)
      BY <1>1, <2>2, <2>3 DEF Done
    <2> QED BY <2>4 DEF Same
  <1> QED BY <1>3, <1>4

\* A jumbled matrix is sparse or hypersparse, and has all its work left to do.
LEMMA JumbledSparse ==
  ASSUME NEW A, Ready(A), A.jumbled
  PROVE  A.fmt \in {"hyper", "sparse"} /\ ~AsIfFull(A)
  BY DEF Ready, Good, WorkOK, DenseSettled, AnyPendingWork, AsIfFull, Matrices, Formats

\* What GB_conform makes of a matrix is not due to be made bitmap.
LEMMA CalmConformSettled ==
  ASSUME NEW A, Ready(A), ConformTarget(A) = {"bitmap"} => ~HasPending(A),
         NEW r \in ConformSettled(A), r.info = "SUCCESS"
  PROVE  Ready(r.m) /\ Calm(r.m)
  <1>1. Ready(r.m) /\ Fits(A, r.m)
    BY SafeConformSettled DEF Safe, Ready
  <1>2. CASE ~r.m.jumbled
    BY <1>1, <1>2 DEF Calm
  <1>3. CASE r.m.jumbled
    <2> DEFINE B == ConformStart(A)
    <2>1. /\ A.jumbled /\ A.fmt \in {"hyper", "sparse"} /\ ~AsIfFull(A)
          /\ r.m.fmt \in {"hyper", "sparse"} /\ ~AsIfFull(r.m)
      BY <1>1, <1>3, JumbledSparse DEF Fits
    <2>2. A \in Matrices /\ r.m \in Matrices /\ B \in Matrices
      BY <1>1, SafeConformStart DEF Ready, Good
    <2>3. r \in ConvertTo(B, ConformTarget(A))
      BY DEF ConformSettled
    <2>4. B.nne >= 0
      BY <2>2, HeaderType, FollowsConformStart
    <2>5. Thinner(A, B) /\ B.fmt = A.fmt
      <3> DEFINE n == IF A.nne >= 0 THEN A.nne ELSE NvecNonempty(A)
                 D == [A EXCEPT !.nne = n]
      <3>1. UpdateNne(A) = D
        BY <2>2 DEF UpdateNne, Matrices
      <3>2. B = D \/ B = [D EXCEPT !.Y = NoHash]
        BY <3>1 DEF ConformStart, HyperHashFree
      <3> HIDE DEF n, B
      <3>3. /\ B.fmt = A.fmt /\ B.vlen = A.vlen /\ B.vdim = A.vdim
            /\ B.control = A.control /\ B.nvals = A.nvals
        <4>1. D.fmt = A.fmt /\ D.vlen = A.vlen /\ D.vdim = A.vdim
              /\ D.control = A.control /\ D.nvals = A.nvals
          BY <2>2 DEF Matrices
        <4> HIDE DEF D
        <4>2. CASE B = D
          BY <4>1, <4>2
        <4>3. CASE B = [D EXCEPT !.Y = NoHash]
          BY <4>1, <4>3
        <4> QED BY <3>2, <4>2, <4>3
      <3>4. B.nvals <= A.nvals
        BY <2>2, <3>3 DEF Matrices
      <3> QED BY <2>1, <3>3, <3>4 DEF Thinner
    <2> HIDE DEF B
    <2>6. ConformTarget(A) # {"bitmap"}
      BY <2>1, <2>2, <2>3, <2>4, HeaderType, ObeysConvertTo DEF Formats
    <2>7. Sparsely(A) /\ ConformTarget(A) # {} /\ ConformTarget(A) \subseteq {"hyper", "sparse"}
      BY <2>1, <2>2, <2>6, SparseTarget
    <2>8. Thinner(B, r.m) /\ Sparsely(B)
      BY <2>1, <2>2, <2>3, <2>5, <2>7, SparseConverted, SparselyThinner
    <2>9. Sparsely(r.m)
      BY <2>1, <2>2, <2>5, <2>8, SparselyThinner
    <2>10. "bitmap" \notin {"hyper", "sparse"}
      OBVIOUS
    <2>11. ConformTarget(r.m) # {"bitmap"}
      BY <2>1, <2>2, <2>9, SparseTarget
    <2> QED BY <1>1, <2>11 DEF Calm
  <1> QED BY <1>2, <1>3

\* So is what GB_conform makes of any matrix.
LEMMA CalmConform ==
  ASSUME NEW A, Ready(A), NEW r \in Conform(A), r.info = "SUCCESS"
  PROVE  Ready(r.m) /\ Calm(r.m)
  <1>1. Ready(r.m)
    BY SafeConform DEF Safe, Ready
  <1>2. CASE HasPending(A) /\ ConformTarget(A) = {"bitmap"}
    <2>1. PICK y \in Wait(ConformStart(A)) : r \in Then(y, AnyToBitmap(y.m))
      BY <1>2 DEF Conform
    <2>2. y.info = "SUCCESS" /\ r \in AnyToBitmap(y.m)
      BY <2>1 DEF Then
    <2>3. y.m \in Matrices
      BY <2>1, SafeConformStart, SafeWait DEF Settled, Safe, Good
    <2>4. r.m.fmt = "bitmap"
      BY <2>2, <2>3, HeaderType, ObeysAnyTo
    <2> QED BY <1>1, <2>4, JumbledSparse DEF Calm
  <1>3. CASE ~(HasPending(A) /\ ConformTarget(A) = {"bitmap"})
    BY <1>3, CalmConformSettled DEF Conform
  <1> QED BY <1>2, <1>3

\* The result of an operation, in the place of C, is conformed.
LEMMA CalmTransplant ==
  ASSUME NEW A \in Matrices, NEW T, Ready(T), ~HasPending(T),
         NEW r \in TransplantConform(A, T), r.info = "SUCCESS"
  PROVE  Ready(r.m) /\ Calm(r.m)
  <1> DEFINE B == Transplant(A, T)
  <1>1. Ready(B) /\ ~HasPending(B)
    BY ReadyTransplant DEF Fits
  <1>2. r \in ConformSettled(B)
    BY DEF TransplantConform
  <1> HIDE DEF B
  <1> QED BY <1>1, <1>2, CalmConformSettled

\* GB_wait leaves nothing unsorted.
LEMMA CalmWaitIf ==
  ASSUME NEW A, Ready(A), Calm(A), NEW cond, NEW r \in WaitIf(cond, A), r.info = "SUCCESS"
  PROVE  /\ Ready(r.m) /\ Calm(r.m)
         /\ cond => ~r.m.jumbled
         /\ ~cond => r.m = A
  <1>1. CASE cond
    <2>1. Ready(r.m) /\ ~AnyPendingWork(r.m)
      BY <1>1, SafeWait DEF WaitIf, Settled, Safe, Ready
    <2> QED BY <1>1, <2>1 DEF AnyPendingWork, Calm
  <1>2. CASE ~cond
    BY <1>2 DEF WaitIf, Done
  <1> QED BY <1>1, <1>2

\* GB_block leaves the matrix as it is, or finishes it.
LEMMA CalmBlock ==
  ASSUME NEW A, Ready(A), Calm(A), NEW r \in Block(A), r.info = "SUCCESS"
  PROVE  Ready(r.m) /\ Calm(r.m) /\ (r.m.jumbled => A.jumbled)
  <1>1. r \in Done(A) \/ r \in Materialize(A)
    BY DEF Block
  <1>2. r \in Materialize(A) => Ready(r.m) /\ ~AnyPendingWork(r.m)
    BY SafeMaterialize DEF Settled, Safe, Ready
  <1> QED BY <1>1, <1>2 DEF Done, AnyPendingWork, Calm

-----------------------------------------------------------------------------
(* The user functions keep it so, if they do not run out of memory *)

\* A call that does not run out of memory, or stops halfway.
Calmed(r) == r.info # "OUT_OF_MEMORY" => Calm(r.m)

\* One that sorts the matrix, or leaves it sorted.
Sorted(r) == r.info # "OUT_OF_MEMORY" => ~r.m.jumbled

\* What succeeds or runs out of memory, and leaves a sorted matrix sorted.
LEMMA SortedStep ==
  ASSUME NEW r, Sorted(r), NEW S, NEW q \in Then(r, S),
         r.info = "SUCCESS" => \A s \in S : Sorted(s)
  PROVE  Sorted(q)
  BY DEF Then

\* An entry is updated, or a tuple added.
LEMMA SortedPut ==
  ASSUME NEW A, Ready(A), ~A.jumbled, NEW p \in Pos, InRange(A, p), NEW s \in Val,
         NEW t \in Types, NEW accum \in Ops, A.iso # NotIso => accum = NoOp,
         NEW r \in PutElement(A, p, s, t, accum)
  PROVE  Sorted(r)
  <1>1. CASE EntryFound(A, p)
    <2> DEFINE B == UpdateEntry(A, p, s, t, accum)
    <2>1. r \in Done(B)
      BY <1>1 DEF PutElement
    <2>2. Fits(A, B)
      BY <1>1, ReadyUpdateEntry
    <2> HIDE DEF B
    <2> QED BY <2>1, <2>2 DEF Done, Fits, Sorted
  <1>2. CASE ~EntryFound(A, p)
    <2>1. PICK y \in PendingAdd(A, p, s, t, accum) : r \in Then(y, Block(y.m))
      BY <1>2 DEF PutElement
    <2>2. A.entry[p] = Absent /\ A.fmt \in {"hyper", "sparse"}
      BY <1>2, NotFoundAbsent
    <2>3. /\ y \in Outcomes /\ Good(y.m)
          /\ y.info = "SUCCESS" => y.m.valid /\ y.m.jumbled = A.jumbled
      BY <2>1, <2>2, ReadyPendingAdd
    <2>4. y.info \in {"SUCCESS", "OUT_OF_MEMORY"}
      BY <2>1 DEF PendingAdd, Done, NoMemory
    <2>5. CASE y.info = "SUCCESS"
      <3>1. r \in Block(y.m) /\ Ready(y.m) /\ ~y.m.jumbled
        BY <2>1, <2>3, <2>5 DEF Then, Ready
      <3>2. Fits(y.m, r.m)
        BY <3>1, SafeBlock DEF Safe
      <3> QED BY <3>1, <3>2 DEF Fits, Sorted
    <2>6. CASE y.info = "OUT_OF_MEMORY"
      BY <2>1, <2>6 DEF Then, Sorted
    <2> QED BY <2>4, <2>5, <2>6
  <1> QED BY <1>1, <1>2

\* The iso status is set before that.
LEMMA SortedSetIso ==
  ASSUME NEW A, Ready(A), ~A.jumbled, NEW s \in Val, NEW t \in Types, NEW accum \in Ops,
         NEW r \in SetIsoStatus(A, s, t, accum)
  PROVE  /\ Sorted(r) /\ r.m.vlen = A.vlen /\ r.m.vdim = A.vdim
         /\ r.info = "SUCCESS" => Ready(r.m) /\ (r.m.iso # NotIso => accum = NoOp)
  BY SafeSetIsoStatus DEF Safe, Ready, Fits, Sorted

\* GB_setElement of a sorted matrix.
LEMMA SortedSetUnjumbled ==
  ASSUME NEW A, Ready(A), ~A.jumbled, NEW p \in Pos, InRange(A, p), NEW s \in Val,
         NEW t \in Types, NEW accum \in Ops, NEW r \in SetUnjumbled(A, p, s, t, accum)
  PROVE  Sorted(r)
  <1> DEFINE again(B) == UNION {Then(x, PutElement(x.m, p, s, t, accum))
                                  : x \in SetIsoStatus(B, s, t, accum)}
             put(B) == IF ~EntryFound(B, p) /\ ~Compatible(B, t, accum)
                       THEN UNION {Then(x, again(x.m)) : x \in Wait(B)}
                       ELSE PutElement(B, p, s, t, accum)
  <1>1. PICK y \in SetIsoStatus(A, s, t, accum) : r \in Then(y, put(y.m))
    BY DEF SetUnjumbled
  <1>2. ASSUME NEW B, Ready(B), ~B.jumbled, InRange(B, p), NEW z \in again(B)
        PROVE  Sorted(z)
    <2>1. PICK x \in SetIsoStatus(B, s, t, accum) : z \in Then(x, PutElement(x.m, p, s, t, accum))
      BY <1>2
    <2>2. /\ Sorted(x) /\ x.m.vlen = B.vlen /\ x.m.vdim = B.vdim
          /\ x.info = "SUCCESS" => Ready(x.m) /\ (x.m.iso # NotIso => accum = NoOp)
      BY <1>2, <2>1, SortedSetIso
    <2>3. x.info = "SUCCESS" => \A q \in PutElement(x.m, p, s, t, accum) : Sorted(q)
      BY <1>2, <2>2, SortedPut DEF InRange, Sorted
    <2> QED BY <2>1, <2>2, <2>3, SortedStep
  <1>3. /\ Sorted(y) /\ y.m.vlen = A.vlen /\ y.m.vdim = A.vdim
        /\ y.info = "SUCCESS" => Ready(y.m) /\ (y.m.iso # NotIso => accum = NoOp)
    BY <1>1, SortedSetIso
  <1> HIDE DEF again
  <1>4. ASSUME y.info = "SUCCESS", NEW z \in put(y.m)
        PROVE  Sorted(z)
    <2>1. Ready(y.m) /\ ~y.m.jumbled /\ InRange(y.m, p)
      BY <1>3, <1>4 DEF InRange, Sorted
    <2>2. CASE ~EntryFound(y.m, p) /\ ~Compatible(y.m, t, accum)
      <3>1. PICK x \in Wait(y.m) : z \in Then(x, again(x.m))
        BY <1>4, <2>2
      <3>2. /\ ~AnyPendingWork(x.m) /\ Good(x.m) /\ Fits(y.m, x.m)
            /\ x.info = "SUCCESS" => x.m.valid
        BY <2>1, <3>1, SafeWait DEF Settled, Safe
      <3>3. ~x.m.jumbled /\ InRange(x.m, p)
        BY <2>1, <3>2 DEF AnyPendingWork, Fits, InRange
      <3>4. x.info = "SUCCESS" => \A q \in again(x.m) : Sorted(q)
        BY <1>2, <3>2, <3>3 DEF Ready
      <3> QED BY <3>1, <3>3, <3>4, SortedStep DEF Sorted
    <2>3. CASE ~(~EntryFound(y.m, p) /\ ~Compatible(y.m, t, accum))
      <3>1. z \in PutElement(y.m, p, s, t, accum)
        BY <1>4, <2>3
      <3> QED BY <1>3, <1>4, <2>1, <3>1, SortedPut
    <2> QED BY <2>2, <2>3
  <1> HIDE DEF put
  <1> QED BY <1>1, <1>3, <1>4, SortedStep

\* GrB_Matrix_setElement.
LEMMA CalmSetElement ==
  ASSUME NEW A, Ready(A), Calm(A), NEW p \in Nat \X Nat, NEW s \in Val, NEW t \in Types,
         NEW accum \in Ops, NEW r \in SetElement(A, p, s, t, accum)
  PROVE  Calmed(r)
  <1>1. CASE ~InRange(A, p)
    BY <1>1 DEF SetElement, Calmed
  <1>2. CASE InRange(A, p)
    <2>1. PICK y \in WaitIf(A.jumbled, A) : r \in Then(y, SetUnjumbled(y.m, p, s, t, accum))
      BY <1>2 DEF SetElement
    <2>2. y.info \in {"SUCCESS", "OUT_OF_MEMORY"}
      BY <2>1, HeaderType, TendsWaiters DEF Ready, Good, Tends, Obeys
    <2>3. p \in Pos
      BY <1>2, InRangePos DEF Ready, Good
    <2>4. CASE y.info = "SUCCESS"
      <3>1. Ready(y.m) /\ ~y.m.jumbled
        BY <2>1, <2>4, CalmWaitIf
      <3>2. InRange(y.m, p)
        BY <1>2, <2>1, SafeWaitIf DEF Safe, Fits, InRange
      <3>3. r \in SetUnjumbled(y.m, p, s, t, accum)
        BY <2>1, <2>4 DEF Then
      <3>4. Sorted(r)
        BY <2>3, <3>1, <3>2, <3>3, SortedSetUnjumbled
      <3> QED BY <3>4 DEF Sorted, Calmed, Calm
    <2>5. CASE y.info = "OUT_OF_MEMORY"
      BY <2>1, <2>5 DEF Then, Calmed
    <2> QED BY <2>2, <2>4, <2>5
  <1> QED BY <1>1, <1>2

\* GB_removeElement of a sorted matrix, also where it crashes.
LEMMA SortedRemove ==
  ASSUME NEW A, Ready(A), ~A.jumbled, NEW p \in Nat \X Nat, NEW r \in RemovePrepared(A, p)
  PROVE  Sorted(r)
  <1>1. ASSUME NEW B, Ready(B), ~B.jumbled, p \in Pos, NEW x \in TryRemove(B, p)
        PROVE  Sorted(x)
    <2>1. CASE x.m = B
      BY <1>1, <2>1 DEF Sorted
    <2>2. CASE B.fmt # "full" /\ x \in Done(DeleteEntry(B, p))
      <3>1. ~DeleteEntry(B, p).jumbled
        BY <1>1, <2>2, ReadyDeleteEntry
      <3> QED BY <2>2, <3>1 DEF Done, Sorted
    <2> QED BY <1>1, <2>1, <2>2 DEF TryRemove, Done
  <1>2. CASE ~InRange(A, p)
    BY <1>2 DEF RemovePrepared, Sorted
  <1>3. CASE InRange(A, p)
    <2>1. p \in Pos
      BY <1>3, InRangePos DEF Ready, Good
    <2>2. CASE r \in TryRemove(A, p)
      BY <1>1, <2>1, <2>2
    <2>3. CASE \E q \in Wait(A) : r \in Then(q, TryRemove(q.m, p))
      <3>1. PICK q \in Wait(A) : r \in Then(q, TryRemove(q.m, p))
        BY <2>3
      <3>2. /\ Good(q.m) /\ ~AnyPendingWork(q.m) /\ q \in Outcomes
            /\ q.info = "SUCCESS" => Ready(q.m)
        BY SafeWait DEF Settled, Safe, Ready
      <3>3. ~q.m.jumbled
        BY <3>2 DEF AnyPendingWork
      <3>4. CASE q.info = "SUCCESS"
        BY <1>1, <2>1, <3>1, <3>2, <3>3, <3>4 DEF Then
      <3>5. CASE q.info # "SUCCESS"
        BY <3>1, <3>3, <3>5 DEF Then, Sorted
      <3> QED BY <3>4, <3>5
    <2> QED BY <1>3, <2>2, <2>3 DEF RemovePrepared
  <1> QED BY <1>2, <1>3

\* GrB_Matrix_removeElement.
LEMMA CalmRemoveElement ==
  ASSUME NEW A, Ready(A), Calm(A), NEW p \in Nat \X Nat, NEW r \in RemoveElement(A, p)
  PROVE  Calmed(r)
  <1> DEFINE nonfull(B) == IF B.fmt = "full" THEN FullToNonfull(B) ELSE Done(B)
  <1>1. PICK q \in PrepareRemove(A) : r \in Then(q, RemovePrepared(q.m, p))
    BY DEF RemoveElement
  <1>2. PICK w \in WaitIf(A.jumbled, A) : q \in Then(w, nonfull(w.m))
    BY <1>1 DEF PrepareRemove
  <1>3. Header(A) /\ Tends(A, w) /\ Header(w.m)
    BY HeaderType, TendsWaiters DEF Ready, Good, Tends, Obeys, Follows
  <1>4. CASE w.info = "SUCCESS"
    <2>1. Ready(w.m) /\ ~w.m.jumbled
      BY <1>2, <1>4, CalmWaitIf
    <2>2. q \in nonfull(w.m)
      BY <1>2, <1>4 DEF Then
    <2>3. Safe(w.m, nonfull(w.m)) /\ \A x \in nonfull(w.m) : x.info \in {"SUCCESS", "OUT_OF_MEMORY"}
      <3>1. CASE w.m.fmt = "full"
        BY <1>3, <2>1, <3>1, SafeFullToNonfull, ObeysFullToNonfull DEF Obeys
      <3>2. CASE w.m.fmt # "full"
        BY <2>1, <3>2, SafeDone, FitsSame DEF Done
      <3> QED BY <3>1, <3>2
    <2> HIDE DEF nonfull
    <2>4. CASE q.info = "SUCCESS"
      <3>1. Ready(q.m) /\ ~q.m.jumbled
        BY <2>1, <2>2, <2>3, <2>4 DEF Safe, Ready, Fits
      <3>2. Sorted(r)
        BY <1>1, <2>4, <3>1, SortedRemove DEF Then
      <3> QED BY <3>2 DEF Sorted, Calmed, Calm
    <2>5. CASE q.info = "OUT_OF_MEMORY"
      BY <1>1, <2>5 DEF Then, Calmed
    <2> QED BY <2>2, <2>3, <2>4, <2>5
  <1>5. CASE w.info = "OUT_OF_MEMORY"
    <2>1. q = w
      BY <1>2, <1>5 DEF Then
    <2> QED BY <1>1, <1>5, <2>1 DEF Then, Calmed
  <1> QED BY <1>3, <1>4, <1>5 DEF Tends, Obeys

\* C = T: it is T, conformed, that takes the place of C.
LEMMA CalmAssignResult ==
  ASSUME NEW A, Ready(A), Calm(A), NEW T, Ready(T), ~HasPending(T), T.vdim = A.vdim,
         NEW r \in AssignResult(A, T)
  PROVE  Calmed(r)
  <1> DEFINE back(x) == IF x.info = "SUCCESS" THEN x ELSE [x EXCEPT !.m = A]
             finished == {back(x) : x \in WaitIf(T.nzombies > 0, T)}
             moved == UNION {Then(x, TransplantConform(A, x.m)) : x \in finished}
  <1>1. A \in Matrices /\ Header(A) /\ T \in Matrices /\ Header(T)
    BY HeaderType DEF Ready, Good
  <1>2. r \in NoMemory(A) \/ \E x \in moved : r \in Then(x, Block(x.m))
    BY DEF AssignResult
  <1>3. CASE r \in NoMemory(A)
    BY <1>3 DEF NoMemory, Calmed
  <1>4. CASE \E x \in moved : r \in Then(x, Block(x.m))
    <2>1. PICK x \in moved : r \in Then(x, Block(x.m))
      BY <1>4
    <2>2. PICK y \in WaitIf(T.nzombies > 0, T) : x \in Then(back(y), TransplantConform(A, back(y).m))
      BY <2>1
    <2>3. /\ y \in Outcomes /\ Good(y.m) /\ Fits(T, y.m)
          /\ y.info = "SUCCESS" => y.m.valid
      BY <2>2, SafeWaitIf DEF Safe
    <2>4. y.info \in {"SUCCESS", "OUT_OF_MEMORY"}
      BY <1>1, <2>2, TendsWaiters DEF Tends, Obeys
    <2>5. CASE y.info = "SUCCESS"
      <3>1. Ready(y.m) /\ ~HasPending(y.m) /\ x \in TransplantConform(A, y.m) /\ y.m.vdim = A.vdim
        BY <2>2, <2>3, <2>5 DEF Ready, Then, Fits
      <3>2. Header(y.m) /\ Obeys(A, x)
        BY <1>1, <2>3, <3>1, HeaderType, ObeysTransplantConform DEF Good
      <3>3. CASE x.info = "SUCCESS"
        <4>1. Ready(x.m) /\ Calm(x.m) /\ r \in Block(x.m)
          BY <1>1, <2>1, <3>1, <3>3, CalmTransplant DEF Then
        <4>2. r.info \in {"SUCCESS", "OUT_OF_MEMORY"}
          BY <4>1, HeaderType, TendsWaiters DEF Tends, Obeys, Ready, Good
        <4> QED BY <4>1, <4>2, CalmBlock DEF Calmed
      <3>4. CASE x.info = "OUT_OF_MEMORY"
        BY <2>1, <3>4 DEF Then, Calmed
      <3> QED BY <3>2, <3>3, <3>4 DEF Obeys
    <2>6. CASE y.info = "OUT_OF_MEMORY"
      <3>1. back(y).info = "OUT_OF_MEMORY"
        BY <2>3, <2>6 DEF Outcomes
      <3>2. x = back(y)
        BY <2>2, <3>1 DEF Then
      <3> HIDE DEF back, moved
      <3> QED BY <2>1, <3>1, <3>2 DEF Then, Calmed
    <2> QED BY <2>4, <2>5, <2>6
  <1> QED BY <1>2, <1>3, <1>4

\* The functions that end in GB_conform, and those that sort.
LEMMA CalmOthers ==
  ASSUME NEW A, Usable(A), Calm(A)
  PROVE  /\ \A cond : \A r \in WaitIf(cond, A) : Calmed(r)
         /\ \A r \in MatrixWait(A) : Calmed(r)
         /\ \A r \in Clear(A) : Calmed(r)
         /\ \A c \in (SUBSET Formats) \ {{}} : \A r \in SetSparsityControl(A, c) : Calmed(r)
         /\ \A wanted \in BOOLEAN : \A r \in SetHyperHash(A, wanted) \cup SetIso(A, wanted) : Calmed(r)
         /\ \A vlen \in 0 .. MaxVlen, vdim \in 0 .. MaxVdim :
              \A r \in Resize(A, vlen, vdim) : Calmed(r)
  <1>1. A \in Matrices /\ Header(A) /\ Ready(A)
    BY HeaderType DEF Usable, Ready, Good
  <1>2. ASSUME NEW cond, NEW r \in WaitIf(cond, A)
        PROVE  Calmed(r)
    <2>1. r.info \in {"SUCCESS", "OUT_OF_MEMORY"}
      BY <1>1, <1>2, TendsWaiters DEF Tends, Obeys
    <2> QED BY <1>1, <1>2, <2>1, CalmWaitIf DEF Calmed
  <1>3. ASSUME NEW r \in MatrixWait(A)
        PROVE  Calmed(r)
    BY <1>1, <1>3, SafeMatrixWait DEF Settled, AnyPendingWork, Calm, Calmed
  <1>4. ASSUME NEW r \in Clear(A)
        PROVE  Calmed(r)
    BY <1>4, KeepsClear DEF Calm, Calmed
  <1>5. ASSUME NEW c \in (SUBSET Formats) \ {{}}, NEW r \in SetSparsityControl(A, c)
        PROVE  Calmed(r)
    <2> DEFINE B == [A EXCEPT !.control = c]
    <2>1. Ready(B)
      BY <1>1, ReadySettings
    <2>2. r \in Conform(B)
      BY <1>5 DEF SetSparsityControl
    <2> HIDE DEF B
    <2>3. r.info \in {"SUCCESS", "OUT_OF_MEMORY"}
      BY <2>1, <2>2, HeaderType, ObeysConform DEF Obeys, Ready, Good
    <2> QED BY <2>1, <2>2, <2>3, CalmConform DEF Calmed
  <1>6. ASSUME NEW wanted \in BOOLEAN, NEW r \in SetHyperHash(A, wanted)
        PROVE  Calmed(r)
    <2> DEFINE B == [A EXCEPT !.nohash = ~wanted]
    <2>1. Ready(B)
      <3>1. A.control \in (SUBSET Formats) \ {{}} /\ (~wanted) \in BOOLEAN
        BY <1>1, <1>6 DEF Matrices
      <3> QED BY <1>1, <3>1, ReadySettings
    <2>2. r \in Conform(B)
      BY <1>6 DEF SetHyperHash
    <2> HIDE DEF B
    <2>3. r.info \in {"SUCCESS", "OUT_OF_MEMORY"}
      BY <2>1, <2>2, HeaderType, ObeysConform DEF Obeys, Ready, Good
    <2> QED BY <2>1, <2>2, <2>3, CalmConform DEF Calmed
  <1>7. ASSUME NEW wanted \in BOOLEAN, NEW r \in SetIso(A, wanted)
        PROVE  Calmed(r)
    <2>1. r.info = "SUCCESS" => \E B : Ready(B) /\ r \in Conform(B)
      BY <1>1, <1>7, SafeSetIso
    <2>2. r.info = "SUCCESS" => Calm(r.m)
      BY <2>1, CalmConform
    <2>3. r.info \in {"SUCCESS", "OUT_OF_MEMORY"}
      <3> DEFINE value == A.entry[CHOOSE p \in Held(A) : TRUE]
      <3>1. PICK y \in AnyToIso(A, value) \cup AnyToNonIso(A) \cup Done(A) : r \in Then(y, Conform(y.m))
        BY <1>7 DEF SetIso
      <3> HIDE DEF value
      <3>2. Tends(A, y)
        BY <1>1, <3>1, TendsIso, TendsSame DEF Follows
      <3>3. \A x \in Conform(y.m) : Obeys(y.m, x)
        BY <3>2, ObeysConform DEF Tends, Obeys, Follows
      <3> QED BY <3>1, <3>2, <3>3 DEF Then, Tends, Obeys
    <2> QED BY <2>2, <2>3 DEF Calmed
  <1>8. ASSUME NEW vlen \in 0 .. MaxVlen, NEW vdim \in 0 .. MaxVdim,
               NEW r \in Resize(A, vlen, vdim)
        PROVE  Calmed(r)
    BY <1>8, KeepsResize DEF Calm, Calmed
  <1> QED BY <1>2, <1>3, <1>4, <1>5, <1>6, <1>7, <1>8

-----------------------------------------------------------------------------
(* The steps of Next keep it so *)

\* A new matrix has nothing to sort.
LEMMA CalmInit ==
  ASSUME Init
  PROVE  JumbledStaysSparse
  <1>1. PICK d \in NewDims, c \in NewControls : C \in Created(d[1], d[2], c)
    BY DEF Init
  <1>2. d[1] \in 0 .. MaxVlen /\ d[2] \in 0 .. MaxVdim /\ c \in (SUBSET Formats) \ {{}}
    BY CallsAssumption
  <1> DEFINE A == NewMatrix(d[1], d[2])
  <1>3. Usable(A) /\ ~A.jumbled
    BY <1>2, UsableNewMatrix DEF NewMatrix
  <1>4. C = A \/ \E q \in SetSparsityControl(A, c) : q.info = "SUCCESS" /\ C = q.m
    BY <1>1 DEF Created
  <1> HIDE DEF A
  <1>5. Calm(C)
    BY <1>2, <1>3, <1>4, CalmOthers DEF Calm, Calmed
  <1> QED BY <1>5 DEF Calm, JumbledStaysSparse

\* A call with calm outcomes, or refused.
LEMMA CalmPerform ==
  ASSUME JumbledStaysSparse, NEW call, NEW S, C.valid => \A r \in S : Calmed(r),
         Perform(call, S), reply'.info # "OUT_OF_MEMORY"
  PROVE  JumbledStaysSparse'
  <1>1. CASE C.valid /\ \E r \in S : C' = r.m /\ Reply(call, r.info, NoVal)
    <2>1. PICK r \in S : C' = r.m /\ reply'.info = r.info
      BY <1>1 DEF Reply
    <2> QED BY <1>1, <2>1 DEF Calmed, Calm, JumbledStaysSparse
  <1>2. CASE Refuse(call)
    BY <1>2 DEF Refuse, JumbledStaysSparse
  <1> QED BY <1>1, <1>2 DEF Perform

\* Every user function that does not run out of memory leaves the matrix calm.
LEMMA CalmNext ==
  ASSUME Intact, JumbledStaysSparse, Next, reply'.info # "OUT_OF_MEMORY"
  PROVE  JumbledStaysSparse'
  <1>1. C.valid => Usable(C) /\ Ready(C) /\ Calm(C)
    BY IntactUsable DEF Usable, Calm, JumbledStaysSparse
  <1>2. ASSUME NEW call, NEW cond, NEW r \in WaitIf(cond, C), C.valid, C' = r.m,
               r.info = "OUT_OF_MEMORY" => reply'.info = "OUT_OF_MEMORY"
        PROVE  JumbledStaysSparse'
    BY <1>1, <1>2, CalmOthers DEF Calmed, Calm, JumbledStaysSparse
  <1>3. CASE GrB_Matrix_setElement
    BY <1>1, <1>3, CallsAssumption, CalmSetElement, CalmPerform DEF GrB_Matrix_setElement
  <1>4. CASE GrB_Matrix_removeElement
    BY <1>1, <1>4, CallsAssumption, CalmRemoveElement, CalmPerform DEF GrB_Matrix_removeElement
  <1>5. CASE GrB_Matrix_extractElement
    <2>1. PICK p \in Indices :
            \/ Refuse(<<"extract", p>>)
            \/ /\ C.valid
               /\ \E r \in WaitIf(AnyPendingWork(C), C) :
                    LET info == IF r.info = "SUCCESS" THEN ExtractInfo(r.m, p) ELSE r.info
                    IN  /\ C' = r.m
                        /\ Reply(<<"extract", p>>, info,
                                 IF info = "SUCCESS" THEN r.m.entry[p] ELSE NoVal)
      BY <1>5 DEF GrB_Matrix_extractElement
    <2>2. CASE Refuse(<<"extract", p>>)
      BY <2>2 DEF Refuse, JumbledStaysSparse
    <2>3. CASE ~Refuse(<<"extract", p>>)
      <3>1. PICK r \in WaitIf(AnyPendingWork(C), C) :
              C' = r.m /\ reply'.info = IF r.info = "SUCCESS" THEN ExtractInfo(r.m, p) ELSE r.info
        BY <2>1, <2>3 DEF Reply
      <3> QED BY <1>2, <2>1, <2>3, <3>1
    <2> QED BY <2>2, <2>3
  <1>6. CASE GrB_Matrix_nvals
    <2>1. CASE Refuse(<<"nvals">>)
      BY <2>1 DEF Refuse, JumbledStaysSparse
    <2>2. CASE ~Refuse(<<"nvals">>)
      <3>1. PICK r \in WaitIf(HasPending(C), C) : C' = r.m /\ reply'.info = r.info
        BY <1>6, <2>2 DEF GrB_Matrix_nvals, Reply
      <3> QED BY <1>2, <1>6, <2>2, <3>1 DEF GrB_Matrix_nvals
    <2> QED BY <2>1, <2>2
  <1>7. CASE GrB_Matrix_wait
    BY <1>1, <1>7, CalmOthers, CalmPerform DEF GrB_Matrix_wait
  <1>8. CASE GrB_Matrix_clear
    BY <1>1, <1>8, CalmOthers, CalmPerform DEF GrB_Matrix_clear
  <1>9. CASE GrB_Matrix_resize
    <2>1. PICK d \in NewDims : Perform(<<"resize", d>>, Resize(C, d[1], d[2]))
      BY <1>9 DEF GrB_Matrix_resize
    <2>2. d[1] \in 0 .. MaxVlen /\ d[2] \in 0 .. MaxVdim
      BY CallsAssumption
    <2> QED BY <1>1, <2>1, <2>2, CalmOthers, CalmPerform
  <1>10. CASE GxB_SPARSITY_CONTROL
    <2>1. PICK c \in Controls : Perform(<<"control", c>>, SetSparsityControl(C, c))
      BY <1>10 DEF GxB_SPARSITY_CONTROL
    <2>2. c \in (SUBSET Formats) \ {{}}
      BY CallsAssumption
    <2> QED BY <1>1, <2>1, <2>2, CalmOthers, CalmPerform
  <1>11. CASE GxB_HYPER_HASH
    BY <1>1, <1>11, CalmOthers, CalmPerform DEF GxB_HYPER_HASH
  <1>12. CASE GxB_ISO
    BY <1>1, <1>12, CalmOthers, CalmPerform DEF GxB_ISO
  <1>13. CASE Assign
    <2>1. PICK T \in Results : /\ T.vdim = C.vdim
                               /\ Perform(<<"assign", T>>, AssignResult(C, T))
      BY <1>13 DEF Assign
    <2>2. Ready(T) /\ ~HasPending(T)
      BY ResultsAssumption DEF Ready, Good, MatrixOK, HasPending, NoPending
    <2>3. C.valid => \A r \in AssignResult(C, T) : Calmed(r)
      BY <1>1, <2>1, <2>2, CalmAssignResult
    <2> QED BY <2>1, <2>3, CalmPerform
  <1> QED BY <1>3, <1>4, <1>5, <1>6, <1>7, <1>8, <1>9, <1>10, <1>11, <1>12, <1>13
          DEF Next, OtherCall

-----------------------------------------------------------------------------
(* The theorem on jumbled matrices *)

\* As long as no call has run out of memory, a matrix that is not sorted is not
\* due to become bitmap.
THEOREM JumbledIsSparse ==
  Spec /\ [](reply.info # "OUT_OF_MEMORY") => []JumbledStaysSparse
  <1>1. Init => JumbledStaysSparse
    BY CalmInit
  <1>2. Inv /\ JumbledStaysSparse /\ [Next]_vars /\ (reply.info # "OUT_OF_MEMORY")'
          => JumbledStaysSparse'
    <2>1. CASE Inv /\ JumbledStaysSparse /\ Next /\ (reply.info # "OUT_OF_MEMORY")'
      BY <2>1, CalmNext DEF Inv
    <2>2. CASE JumbledStaysSparse /\ UNCHANGED vars
      BY <2>2 DEF vars, JumbledStaysSparse
    <2> QED BY <2>1, <2>2
  <1> QED BY <1>1, <1>2, Invariant, PTL DEF Spec
=============================================================================
