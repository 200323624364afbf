------------------------------- MODULE MatrixOps -------------------------------
(***************************************************************************)
(* The user-callable functions on one GrB_Matrix, as operators from a      *)
(* matrix and the arguments to the set of possible outcomes: setElement,   *)
(* removeElement, extractElement, clear, resize, the set options, and the  *)
(* assignment C = T of a result computed elsewhere.                        *)
(***************************************************************************)
EXTENDS MatrixWait

-----------------------------------------------------------------------------
(* GrB_Matrix_new *)

NewMatrix(vlen, vdim) ==
  [valid |-> TRUE, vlen |-> vlen, vdim |-> vdim,
   fmt |-> IF vdim > 1 THEN "hyper" ELSE "sparse",
   entry |-> EmptyEntry, iso |-> NotIso, nvals |-> 0, nzombies |-> 0,
   nne |-> 0, h |-> {}, Y |-> NoHash, jumbled |-> FALSE, unsorted |-> {},
   pend |-> NoPending, control |-> Formats, nohash |-> FALSE]

-----------------------------------------------------------------------------
(* Search for an entry *)

\* In the hyperlist, or in the hash if there is one
VectorFound(A, j) ==
  A.fmt = "hyper" => j \in A.h /\ (A.Y # NoHash => j \in A.Y)

\* Mutant of EntryFound: a zombie is not seen
EntryFoundLiveOnly(A, p) ==
  \/ A.fmt \in {"full", "bitmap"}
  \/ /\ A.nvals > 0 /\ VectorFound(A, p[2])
     /\ A.entry[p] \in Val /\ p[2] \notin A.unsorted

\* Binary search of a vector, live entries and zombies; it needs sorted indices
EntryFound(A, p) ==
  \/ A.fmt \in {"full", "bitmap"}
  \/ /\ A.nvals > 0 /\ VectorFound(A, p[2])
     /\ A.entry[p] # Absent /\ p[2] \notin A.unsorted

-----------------------------------------------------------------------------
(* GB_setElement *)

\* Mutant of SetIsoStatus: an equal scalar keeps A iso, even with an accum
SetIsoStatusIgnoresAccum(A, s, t, accum) ==
  CASE A.iso # NotIso /\ Cast(t, s) # A.iso -> AnyToNonIso(A)
    [] /\ A.iso = NotIso /\ Nnz(A) = 0 /\ A.fmt # "full"
       /\ ~HasPending(A) /\ accum = NoOp -> AnyToIso(A, Cast(t, s))
    [] OTHER -> Done(A)

\* Mutant of SetIsoStatus: the first entry makes A iso though tuples are pending
SetIsoStatusForgetsPending(A, s, t, accum) ==
  CASE A.iso # NotIso /\ (accum # NoOp \/ Cast(t, s) # A.iso) -> AnyToNonIso(A)
    [] A.iso = NotIso /\ Nnz(A) = 0 /\ A.fmt # "full" /\ accum = NoOp ->
         AnyToIso(A, Cast(t, s))
    [] OTHER -> Done(A)

\* A scalar that differs from the iso value makes A non-iso, and the first
\* entry of an empty matrix makes it iso.
SetIsoStatus(A, s, t, accum) ==
  CASE A.iso # NotIso /\ (accum # NoOp \/ Cast(t, s) # A.iso) -> AnyToNonIso(A)
    [] /\ A.iso = NotIso /\ Nnz(A) = 0 /\ A.fmt # "full"
       /\ ~HasPending(A) /\ accum = NoOp -> AnyToIso(A, Cast(t, s))
    [] OTHER -> Done(A)

\* Mutant of UpdateEntry: an entry that is new to a bitmap counts as a zombie
UpdateEntryMiscounts(A, p, s, t, accum) ==
  LET old == A.entry[p]
      new == IF A.iso # NotIso THEN A.iso
             ELSE IF accum = NoOp \/ old \in {Absent, Zombie} THEN Cast(t, s)
             ELSE Apply(accum, old, t, s)
  IN  [A EXCEPT !.entry[p] = new, !.nzombies = IF old \in Val THEN @ ELSE @ - 1]

\* The entry is there, live or zombie, or is in a bitmap or full matrix
UpdateEntry(A, p, s, t, accum) ==
  LET old == A.entry[p]
      new == IF A.iso # NotIso THEN A.iso
             ELSE IF accum = NoOp \/ old \in {Absent, Zombie} THEN Cast(t, s)
             ELSE Apply(accum, old, t, s)
  IN  [A EXCEPT !.entry[p] = new,
                !.nzombies = IF old = Zombie THEN @ - 1 ELSE @,
                !.nvals = IF A.fmt = "bitmap" /\ old = Absent THEN @ + 1 ELSE @]

IsSecond(op) == op \in {NoOp, Second}

\* Mutant of Compatible: a tuple of another type joins the list
CompatibleAnyType(A, t, accum) ==
  HasPending(A) => accum = A.pend.op \/ (IsSecond(accum) /\ IsSecond(A.pend.op))

\* A new tuple must agree with the ones already pending
Compatible(A, t, accum) ==
  HasPending(A) => /\ t = A.pend.type
                   /\ accum = A.pend.op \/ (IsSecond(accum) /\ IsSecond(A.pend.op))

PutElement(A, p, s, t, accum) ==
  IF EntryFound(A, p) THEN Done(UpdateEntry(A, p, s, t, accum))
  ELSE UNION {Then(r, Block(r.m)) : r \in PendingAdd(A, p, s, t, accum)}

SetUnjumbled(A, p, s, t, accum) ==
  LET again(B) == UNION {Then(r, PutElement(r.m, p, s, t, accum))
                           : r \in SetIsoStatus(B, s, t, accum)}
      put(B) == IF ~EntryFound(B, p) /\ ~Compatible(B, t, accum)
                THEN UNION {Then(r, again(r.m)) : r \in Wait(B)}
                ELSE PutElement(B, p, s, t, accum)
  IN  UNION {Then(r, put(r.m)) : r \in SetIsoStatus(A, s, t, accum)}

\* Mutant of SetElement: a jumbled matrix is searched as it is
SetElementJumbled(A, p, s, t, accum) ==
  IF ~InRange(A, p) THEN {[m |-> A, info |-> "INVALID_INDEX"]}
  ELSE SetUnjumbled(A, p, s, t, accum)

SetElement(A, p, s, t, accum) ==
  IF ~InRange(A, p) THEN {[m |-> A, info |-> "INVALID_INDEX"]}
  ELSE UNION {Then(r, SetUnjumbled(r.m, p, s, t, accum)) : r \in WaitIf(A.jumbled, A)}

-----------------------------------------------------------------------------
(* GB_Matrix_removeElement *)

\* Mutant of DeleteEntry: the new zombie is not counted
DeleteEntryUncounted(A, p) ==
  LET old == A.entry[p]
  IN  CASE A.fmt = "bitmap" /\ old \in Val ->
             [A EXCEPT !.entry[p] = Absent, !.nvals = @ - 1]
        [] A.fmt # "bitmap" /\ old \in Val -> [A EXCEPT !.entry[p] = Zombie]
        [] OTHER -> A

\* GB_removeElement of an entry that was found: it becomes a zombie
DeleteEntry(A, p) ==
  LET old == A.entry[p]
  IN  CASE A.fmt = "bitmap" /\ old \in Val ->
             [A EXCEPT !.entry[p] = Absent, !.nvals = @ - 1]
        [] A.fmt # "bitmap" /\ old \in Val ->
             [A EXCEPT !.entry[p] = Zombie, !.nzombies = @ + 1]
        [] OTHER -> A

\* GB_removeElement: it reads A->p, which a full matrix does not have
TryRemove(A, p) ==
  CASE A.fmt = "full" -> {[m |-> A, info |-> "CRASH"]}
    [] A.fmt # "full" /\ EntryFound(A, p) -> Done(DeleteEntry(A, p))
    [] OTHER -> Done(A)

\* Neither jumbled nor full; the loop of the recursion runs at most twice
PrepareRemove(A) ==
  LET nonfull(B) == IF B.fmt = "full" THEN FullToNonfull(B) ELSE Done(B)
  IN  UNION {Then(r, nonfull(r.m)) : r \in WaitIf(A.jumbled, A)}

RemovePrepared(A, p) ==
  CASE ~InRange(A, p) -> {[m |-> A, info |-> "INVALID_INDEX"]}
    [] InRange(A, p) /\ (EntryFound(A, p) \/ ~HasPending(A)) -> TryRemove(A, p)
    [] InRange(A, p) /\ ~EntryFound(A, p) /\ HasPending(A) ->
         UNION {Then(r, TryRemove(r.m, p)) : r \in Wait(A)}

RemoveElement(A, p) == UNION {Then(r, RemovePrepared(r.m, p)) : r \in PrepareRemove(A)}

-----------------------------------------------------------------------------
(* GrB_Matrix_extractElement: any pending work is finished first *)

ExtractInfo(A, p) ==
  IF ~InRange(A, p) THEN "INVALID_INDEX"
  ELSE IF EntryFound(A, p) /\ A.entry[p] \in Val THEN "SUCCESS" ELSE "NO_VALUE"

-----------------------------------------------------------------------------
(* GB_clear *)

Clear(A) ==
  LET c == SparsityControl(A)
      fresh == [PhybixFree(A) EXCEPT
                  !.valid = TRUE,
                  !.fmt = IF HyperToSparseTest(A, 0) THEN "sparse" ELSE "hyper"]
  IN  IF A.fmt = "bitmap" /\ c \cap {"sparse", "hyper"} = {}
      THEN Done([A EXCEPT !.entry = EmptyEntry, !.nvals = 0])
      ELSE ConformSettled(fresh) \cup NoMemory(PhybixFree(A))

-----------------------------------------------------------------------------
(* GB_resize *)

Truncated(A, vlen, vdim) ==
  [p \in Pos |-> IF p[1] < vlen /\ p[2] < vdim THEN A.entry[p] ELSE Absent]

\* Mutant of ShrinkDense: the entries of the smaller bitmap are not recounted
ShrinkDenseOldCount(A, vlen, vdim) ==
  LET B == [A EXCEPT !.entry = Truncated(A, vlen, vdim), !.vlen = vlen, !.vdim = vdim]
  IN  Done([B EXCEPT !.nne = AllVectors(B)])

\* A full or bitmap matrix that shrinks keeps its structure
ShrinkDense(A, vlen, vdim) ==
  LET B == [A EXCEPT !.entry = Truncated(A, vlen, vdim), !.vlen = vlen, !.vdim = vdim]
  IN  Done([B EXCEPT !.nvals = IF A.fmt = "bitmap" THEN Cardinality(Live(B)) ELSE @,
                     !.nne = AllVectors(B)])
        \cup (IF A.fmt = "full" /\ A.iso # NotIso THEN {} ELSE NoMemory(A))

\* Mutant of TrimVectors: the hash still knows the vectors that are gone
TrimVectorsKeepsHash(A, vdim) ==
  LET B == [A EXCEPT !.entry = Truncated(A, A.vlen, vdim), !.h = {j \in @ : j < vdim}]
  IN  IF vdim < A.vdim THEN [B EXCEPT !.nvals = Cardinality(Held(B)), !.nne = -1] ELSE B

\* Any other case goes through the hypersparse structure: trim the hyperlist,
\* select the rows that stay, prune the vectors that became empty
TrimVectors(A, vdim) ==
  LET B == [A EXCEPT !.entry = Truncated(A, A.vlen, vdim),
                     !.h = {j \in @ : j < vdim}, !.Y = NoHash]
  IN  IF vdim < A.vdim THEN [B EXCEPT !.nvals = Cardinality(Held(B)), !.nne = -1] ELSE B

SelectRows(A, vlen) ==
  LET B == [A EXCEPT !.entry = Truncated(A, vlen, A.vdim), !.Y = NoHash]
      counted == [B EXCEPT !.nvals = Cardinality(Held(B)),
                           !.nne = Cardinality(Nonempty(B))]
  IN  IF vlen < A.vlen THEN HyperPrune(counted) \cup NoMemory(A) ELSE Done(A)

ResizeHyper(A, vlen, vdim) ==
  LET rows == UNION {Then(r, SelectRows(TrimVectors(r.m, vdim), vlen)) : r \in AnyToHyper(A)}
      pruned == UNION {Then(r, HyperPrune(r.m)) : r \in rows}
  IN  {[r EXCEPT !.m = [@ EXCEPT !.vlen = vlen, !.vdim = vdim]] : r \in pruned}

\* Mutant of Resize: the pending work is left for later
ResizeNoWait(A, vlen, vdim) ==
  LET shrinking == vlen <= A.vlen /\ vdim <= A.vdim
      resized == IF A.fmt \in {"full", "bitmap"} /\ shrinking
                 THEN ShrinkDense(A, vlen, vdim) ELSE ResizeHyper(A, vlen, vdim)
  IN  IF vlen = A.vlen /\ vdim = A.vdim THEN Done(A)
      ELSE {FreeOnError(r) : r \in UNION {Then(q, ConformSettled(q.m)) : q \in resized}}

\* Mutant of Resize: the result is not conformed to its sparsity control
ResizeNoConform(A, vlen, vdim) ==
  LET shrinking == vlen <= A.vlen /\ vdim <= A.vdim
      resized(B) == IF B.fmt \in {"full", "bitmap"} /\ shrinking
                    THEN ShrinkDense(B, vlen, vdim) ELSE ResizeHyper(B, vlen, vdim)
      worked == UNION {Then(r, resized(r.m)) : r \in WaitIf(AnyPendingWork(A), A)}
  IN  IF vlen = A.vlen /\ vdim = A.vdim THEN Done(A) ELSE {FreeOnError(r) : r \in worked}

Resize(A, vlen, vdim) ==
  LET shrinking == vlen <= A.vlen /\ vdim <= A.vdim
      resized(B) == IF B.fmt \in {"full", "bitmap"} /\ shrinking
                    THEN ShrinkDense(B, vlen, vdim) ELSE ResizeHyper(B, vlen, vdim)
      worked == UNION {Then(r, resized(r.m)) : r \in WaitIf(AnyPendingWork(A), A)}
  IN  IF vlen = A.vlen /\ vdim = A.vdim THEN Done(A)
      ELSE {FreeOnError(r) : r \in UNION {Then(q, ConformSettled(q.m)) : q \in worked}}

-----------------------------------------------------------------------------
(* GB_matvec_set: an error leaves the matrix as GB_conform left it *)

SetSparsityControl(A, c) == Conform([A EXCEPT !.control = c])

SetHyperHash(A, wanted) == Conform([A EXCEPT !.nohash = ~wanted])

\* Mutant of AllEntriesAreIso: the pending tuples are not looked at
AllEntriesAreIsoButPending(A) ==
  /\ Nnz(A) # 0 /\ A.nzombies = 0 /\ A.fmt # "bitmap"
  /\ \A p, q \in Held(A) : A.entry[p] = A.entry[q]

\* GB_all_entries_are_iso of a matrix that is not known to be iso
AllEntriesAreIso(A) ==
  /\ Nnz(A) # 0 /\ ~HasPending(A) /\ A.nzombies = 0 /\ A.fmt # "bitmap"
  /\ \A p, q \in Held(A) : A.entry[p] = A.entry[q]

SetIso(A, wanted) ==
  LET value == A.entry[CHOOSE p \in Held(A) : TRUE]
      done == CASE wanted /\ A.iso = NotIso /\ AllEntriesAreIso(A) -> AnyToIso(A, value)
                [] ~wanted -> AnyToNonIso(A)
                [] OTHER -> Done(A)
  IN  UNION {Then(r, Conform(r.m)) : r \in done}

-----------------------------------------------------------------------------
(* C = T with no mask and no accumulator: GB_accum_mask, then GB_mask.  T is *)
(* finished unless it is only jumbled; C's pending work is abandoned.        *)

AssignResult(A, T) ==
  LET finished == {IF r.info = "SUCCESS" THEN r ELSE [r EXCEPT !.m = A]
                     : r \in WaitIf(T.nzombies > 0, T)}
      moved == UNION {Then(r, TransplantConform(A, r.m)) : r \in finished}
  IN  NoMemory(A) \cup UNION {Then(r, Block(r.m)) : r \in moved}
=============================================================================
