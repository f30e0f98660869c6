------------------------ MODULE SearchCompleteProofs ------------------------
(***************************************************************************)
(* Proof of search totality (SearchComplete) for every value of the        *)
(* constants.  SearchComplete speaks of the state after the IOCTL          *)
(* returned; what makes it true is what each loop keeps true while it      *)
(* runs:                                                                   *)
(*   - the matching loop of PerformSearchAddress has stored, in the slots   *)
(*     0 .. IndexToArrayOfResults - 1, every occurrence below              *)
(*     BaseIterator, and only addresses of the requested range;             *)
(*   - the slots after those are still zero, so the compaction loop of      *)
(*     DebuggerCommandSearchMemory, which stops at the first zero slot,     *)
(*     copies exactly the stored ones;                                     *)
(*   - after a full buffer every occurrence not stored lies above all the   *)
(*     stored ones.                                                        *)
(* CInv states these facts on top of IInv.                                 *)
(***************************************************************************)
EXTENDS SearchMemoryProofs, SequenceTheorems

(* The slots the matching loop filled hold addresses of the range.         *)
StoredInRange ==
    \A j \in 0 .. idx - 1 : storage[j] \in req.address .. AddressTo - 1

(* The slots after them are still zero.                                    *)
EmptySuffix ==
    \A j \in idx .. MaximumSearchResults - 1 : storage[j] = 0

(* While scanning: BaseIterator is a candidate position, every slot is     *)
(* below it, and every occurrence below it is stored.                      *)
ScanCovers ==
    /\ cr3 = scanSpace
    /\ iter >= req.address
    /\ (iter - req.address) % Width = 0
    /\ \A j \in 0 .. idx - 1 : storage[j] < iter
    /\ \A p \in Occurrences : p < iter => \E j \in 0 .. idx - 1 : storage[j] = p

(* While compacting: every occurrence is stored, or the buffer is full     *)
(* and every stored address precedes it; the user buffer is the prefix of  *)
(* the slots copied so far.                                                *)
CompactCovers ==
    /\ \A p \in Occurrences :
          \/ \E j \in 0 .. idx - 1 : storage[j] = p
          \/ /\ idx = MaximumSearchResults
             /\ \A j \in 0 .. idx - 1 : storage[j] < p
    /\ ci <= idx
    /\ userBuf = [i \in 1 .. ci |-> storage[i - 1]]

CInv ==
    /\ IInv
    /\ pc = "idle" => idx = 0
    /\ pc = "validate" => /\ idx = 0 /\ scanSpace = NoProc
                          /\ baseSaved => baseAddress = req.address
    /\ pc \in {"validate", "scan", "compact"} => StoredInRange /\ EmptySuffix
    /\ pc = "scan" => ScanCovers
    /\ pc = "compact" => CompactCovers
    /\ SearchComplete

-----------------------------------------------------------------------------
(* Lemmas about the operators of the search model.                        *)

(* A valid request's pattern has 1 .. MaxChunks chunks.                    *)
LEMMA PatternLen ==
    ASSUME NEW r \in Requests, r.byteSize \in ValidSizes
    PROVE  Len(r.pattern) \in 1 .. MaxChunks
<1>1. PICK b \in ByteSizes :
          r \in [pid : Procs, address : Addresses, length : Lengths,
                 byteSize : {b}, pattern : PatternsFor(b)]
  BY DEF Requests
<1>2. r.pattern \in PatternsOf(LengthOfEachChunk[b])
  BY <1>1 DEF PatternsFor, PatternWidth, ValidSizes
<1>3. PICK n \in 1 .. MaxChunks :
          r.pattern \in [1 .. n -> {c \in PatternChunks : Len(c) = LengthOfEachChunk[b]}]
  BY <1>2 DEF PatternsOf
<1>. QED
  BY <1>3

(* The start and the end of a request's range are numbers, and the start  *)
(* is a positive address.                                                  *)
LEMMA RangeBounds ==
    ASSUME NEW r \in Requests
    PROVE  /\ r.address \in Nat /\ r.address >= 1
           /\ r.address + r.length \in Nat
<1>1. r.address \in Addr /\ r.length \in Nat
  BY RequestFields, RequestAssumption
<1>. QED
  BY <1>1, PageSizeAssumption DEF Addr

(* Two candidate positions less than one granularity apart are equal.     *)
LEMMA SamePosition ==
    ASSUME NEW a \in Nat, NEW it \in Nat, NEW p \in Nat, NEW w \in {1, 4, 8},
           it >= a, p >= it, p < it + w,
           (it - a) % w = 0, (p - a) % w = 0
    PROVE  p = it
BY Z3

(* Stepping by one granularity keeps the iterator on a candidate position. *)
LEMMA NextCandidate ==
    ASSUME NEW a \in Nat, NEW it \in Nat, NEW w \in {1, 4, 8},
           it >= a, (it - a) % w = 0
    PROVE  (it + w - a) % w = 0
BY Z3

(* An occurrence is a candidate position of the range, and the code's     *)
(* comparisons accept it: they look at a subset of the chunks.            *)
LEMMA OccurrenceFacts ==
    ASSUME TypeOK, req.byteSize \in ValidSizes, NEW p \in Occurrences
    PROVE  /\ scanSpace \in Procs
           /\ p \in req.address .. AddressTo - 1
           /\ (p - req.address) % Width = 0
           /\ CodeMatch(scanSpace, p, Width)
<1>1. scanSpace \in Procs /\ p \in ScanPositions
      /\ \A i \in 0 .. Len(req.pattern) - 1 : ChunkOK(scanSpace, p, i, Width)
  BY DEF Occurrences, TypeOK
<1>2. Width \in {1, 4, 8} /\ Len(req.pattern) \in 1 .. MaxChunks
  BY PatternLen, WidthType DEF TypeOK, Width
<1>3. Checked(Width, Len(req.pattern)) \subseteq 0 .. Len(req.pattern) - 1
  BY <1>2, PatternAssumption DEF Checked
<1>. QED
  BY <1>1, <1>3 DEF ScanPositions, CodeMatch

(* Occurrences depend only on the memory, the request and the space read. *)
LEMMA OccurrencesUnchanged ==
    ASSUME UNCHANGED <<mem, mapped, req, scanSpace>>
    PROVE  Occurrences' = Occurrences
BY DEF Occurrences, ScanPositions, ChunkOK, Readable, ChunkEq, AddressTo, Width, PageOf

(* The user buffer after copying n slots, one more slot copied.            *)
LEMMA AppendSlot ==
    ASSUME NEW M \in Nat, NEW st \in [0 .. M -> Nat], NEW n \in 0 .. M
    PROVE  Append([i \in 1 .. n |-> st[i - 1]], st[n]) = [i \in 1 .. n + 1 |-> st[i - 1]]
<1> DEFINE s == [i \in 1 .. n |-> st[i - 1]]
           t == [i \in 1 .. n + 1 |-> st[i - 1]]
<1>1. s \in Seq(Nat) /\ t \in Seq(Nat) /\ Len(s) = n /\ Len(t) = n + 1
  OBVIOUS
<1>2. Append(s, st[n]) \in Seq(Nat) /\ Len(Append(s, st[n])) = n + 1
      /\ \A i \in 1 .. n + 1 : Append(s, st[n])[i] = IF i <= n THEN s[i] ELSE st[n]
  BY <1>1
<1>. QED
  BY <1>1, <1>2, SeqEqual

(* Nothing copied yet: the user buffer is empty.                           *)
LEMMA NoSlot ==
    ASSUME NEW st
    PROVE  <<>> = [i \in 1 .. 0 |-> st[i - 1]]
OBVIOUS

-----------------------------------------------------------------------------
LEMMA InitCInv == Init => CInv
<1> SUFFICES ASSUME Init PROVE CInv
  OBVIOUS
<1>1. IInv
  BY InitIInv
<1>. QED
  BY <1>1 DEF Init, CInv, SearchComplete

(* The IOCTL is rejected or starts: no slot is stored yet.                 *)
LEMMA StartCInv ==
    ASSUME CInv, NEW r \in Requests,
           SearchRejectProcess(r) \/ SearchAllocFail(r) \/ SearchBegin(r)
    PROVE  CInv'
<1>0. IInv' /\ pc = "idle" /\ idx = 0
  BY NextIInv DEF CInv, Next, SearchRejectProcess, SearchAllocFail, SearchBegin
<1>1. CASE SearchRejectProcess(r) \/ SearchAllocFail(r)
  <2>1. pc' = "idle" /\ status' # "SUCCESS" /\ idx' = idx
    BY <1>1 DEF SearchRejectProcess, SearchAllocFail, search
  <2>. QED
    BY <1>0, <2>1 DEF CInv, SearchComplete
<1>2. CASE SearchBegin(r)
  <2>1. /\ pc' = "validate" /\ idx' = idx /\ scanSpace' = NoProc /\ baseSaved' = FALSE
        /\ storage' = [i \in 0 .. MaximumSearchResults |-> 0]
    BY <1>2 DEF SearchBegin
  <2>2. StoredInRange'
    BY <1>0, <2>1 DEF StoredInRange
  <2>3. EmptySuffix'
    BY <1>0, <2>1, MaxResultsAssumption DEF EmptySuffix
  <2>. QED
    BY <1>0, <2>1, <2>2, <2>3 DEF CInv, SearchComplete
<1>. QED
  BY <1>1, <1>2

(* One page of the wrapper's walk: the first valid page records the       *)
(* requested start as BaseAddress.                                         *)
LEMMA ValidateStepCInv ==
    ASSUME CInv, ValidateStep
    PROVE  CInv'
<1>0. IInv' /\ pc = "validate" /\ idx = 0 /\ scanSpace = NoProc
  BY NextIInv DEF CInv, Next, ValidateStep
<1>1. /\ pc' = "validate"
      /\ UNCHANGED <<req, scanSpace, idx, storage>>
      /\ baseSaved' => baseAddress' = req.address
  <2>1. baseSaved => baseAddress = req.address
    BY <1>0 DEF CInv
  <2>. QED
    BY <2>1 DEF ValidateStep, search
<1>2. StoredInRange' /\ EmptySuffix'
  BY <1>0, <1>1 DEF CInv, StoredInRange, EmptySuffix, AddressTo
<1>. QED
  BY <1>0, <1>1, <1>2 DEF CInv, SearchComplete

(* The walk ends: the scan starts at the requested address with no slot    *)
(* stored, or the range is rejected and the (empty) slots are copied.     *)
LEMMA ValidateEndCInv ==
    ASSUME CInv, ValidateEnd
    PROVE  CInv'
<1>0. /\ IInv' /\ TypeOK /\ pc = "validate" /\ idx = 0 /\ scanSpace = NoProc
      /\ baseSaved => baseAddress = req.address
      /\ EmptySuffix
      /\ UNCHANGED <<mem, mapped, req, storage>>
  BY NextIInv DEF CInv, Next, ValidateEnd, IInv, env
<1>1. CASE baseSaved /\ startAddr > baseAddress /\ req.byteSize # "INVALID"
  <2>1. /\ cr3' = scanSpace' /\ iter' = baseAddress /\ idx' = 0 /\ pc' = "scan"
    BY <1>1 DEF ValidateEnd
  <2>2. req.byteSize \in ValidSizes
    BY <1>0, <1>1, RequestFields DEF TypeOK, ByteSizes, ValidSizes
  <2>3. Width \in {1, 4, 8} /\ req.address \in Nat
    BY <1>0, <2>2, WidthType, RangeBounds DEF TypeOK, Width
  <2>4. iter' = req.address /\ (iter' - req.address) % Width = 0
    BY <1>0, <1>1, <2>1, <2>3
  <2>5. \A p \in Occurrences' : ~(p < iter')
    <3>1. SUFFICES ASSUME NEW p \in Occurrences' PROVE p \in req.address .. AddressTo - 1
      BY <2>3, <2>4
    <3>2. p \in ScanPositions'
      BY DEF Occurrences
    <3>. QED
      BY <1>0, <3>2 DEF ScanPositions, AddressTo
  <2>6. ScanCovers'
    BY <1>0, <2>1, <2>3, <2>4, <2>5 DEF ScanCovers, Width, AddressTo
  <2>7. StoredInRange' /\ EmptySuffix'
    BY <1>0, <2>1 DEF StoredInRange, EmptySuffix
  <2>. QED
    BY <1>0, <2>1, <2>6, <2>7 DEF CInv, SearchComplete
<1>2. CASE ~(baseSaved /\ startAddr > baseAddress /\ req.byteSize # "INVALID")
  <2>1. /\ pc' = "compact" /\ ci' = 0 /\ userBuf' = <<>>
        /\ UNCHANGED <<scanSpace, idx>>
    BY <1>2 DEF ValidateEnd
  <2>2. Occurrences' = {}
    BY <1>0, <2>1 DEF Occurrences
  <2>3. CompactCovers'
    BY <1>0, <2>1, <2>2, NoSlot DEF CompactCovers
  <2>4. StoredInRange' /\ EmptySuffix'
    BY <1>0, <2>1 DEF StoredInRange, EmptySuffix
  <2>. QED
    BY <1>0, <2>1, <2>3, <2>4 DEF CInv, SearchComplete
<1>. QED
  BY <1>1, <1>2

(* One candidate position of the matching loop.  A match is stored at      *)
(* IndexToArrayOfResults; a position passed over without a match is not an *)
(* occurrence, because the code's comparisons accept every occurrence.    *)
LEMMA ScanStepCInv ==
    ASSUME CInv, ScanStep
    PROVE  CInv'
<1>0. /\ IInv' /\ TypeOK /\ pc = "scan" /\ ScanCovers /\ StoredInRange /\ EmptySuffix
      /\ req.byteSize \in ValidSizes /\ iter < AddressTo
      /\ UNCHANGED <<mem, mapped, req, cr3, scanSpace>>
  BY NextIInv DEF CInv, Next, ScanStep, IInv, env
<1>1. /\ Width \in {1, 4, 8} /\ Width' = Width
      /\ req.address \in Nat /\ AddressTo \in Nat /\ AddressTo' = AddressTo
  BY <1>0, WidthType, RangeBounds DEF TypeOK, Width, AddressTo
<1>2. Occurrences' = Occurrences
  BY <1>0, OccurrencesUnchanged
<1>3. /\ iter \in Nat /\ idx \in 0 .. MaximumSearchResults
      /\ storage \in [0 .. MaximumSearchResults -> Nat]
      /\ iter >= req.address /\ (iter - req.address) % Width = 0
      /\ iter' \in Nat /\ idx' \in 0 .. MaximumSearchResults
      /\ storage' \in [0 .. MaximumSearchResults -> Nat]
      /\ MaximumSearchResults \in Nat
  BY <1>0, MaxResultsAssumption DEF IInv, TypeOK, ScanCovers
(* An occurrence at or above the iterator, below the next position, is    *)
(* the iterator itself.                                                    *)
<1>4. ASSUME NEW p \in Occurrences, p >= iter, p < iter + Width
      PROVE  p = iter
  <2>1. p \in req.address .. AddressTo - 1 /\ (p - req.address) % Width = 0
    BY <1>0, OccurrenceFacts
  <2>2. p \in Nat /\ iter \in Nat /\ req.address \in Nat
    BY <1>1, <1>3, <2>1
  <2>. QED
    BY <1>1, <1>3, <1>4, <2>1, <2>2, SamePosition
<1>5. CASE ScanFaults(cr3, iter, Width)
  <2>1. pc' = "crashed"
    BY <1>5 DEF ScanStep
  <2>. QED
    BY <1>0, <2>1 DEF CInv, SearchComplete
<1>6. CASE ~ScanFaults(cr3, iter, Width) /\ CodeMatch(cr3, iter, Width) /\ BufferHasRoom
  <2>1. /\ storage' = [storage EXCEPT ![idx] = iter] /\ idx' = idx + 1
        /\ iter' = iter + Width /\ pc' = "scan"
    BY <1>6 DEF ScanStep
  <2>0. iter' = iter + Width
    BY <1>6 DEF ScanStep
  <2>2. idx < MaximumSearchResults
    BY <1>6 DEF BufferHasRoom
  <2>3. \A j \in 0 .. MaximumSearchResults : storage'[j] = IF j = idx THEN iter ELSE storage[j]
    BY <1>3, <2>1
  <2>4. StoredInRange'
    BY <1>0, <1>1, <1>3, <2>1, <2>2, <2>3 DEF StoredInRange, ScanCovers
  <2>5. EmptySuffix'
    BY <1>0, <1>3, <2>1, <2>2, <2>3 DEF EmptySuffix
  <2>6. (iter' - req.address) % Width = 0
    <3>1. (iter + Width - req.address) % Width = 0
      BY <1>1, <1>3, NextCandidate
    <3>2. iter' - req.address = iter + Width - req.address
      BY <1>1, <1>3, <2>0
    <3>. QED
      BY <3>1, <3>2
  <2>7. \A j \in 0 .. idx' - 1 : storage'[j] < iter'
    <3>1. SUFFICES ASSUME NEW j \in 0 .. idx
                   PROVE  storage'[j] < iter + Width
      BY <1>3, <2>1
    <3>2. CASE j = idx
      BY <1>1, <1>3, <2>2, <2>3, <3>2
    <3>3. CASE j # idx
      <4>1. storage'[j] = storage[j] /\ j \in 0 .. idx - 1
        BY <1>3, <2>2, <2>3, <3>3
      <4>2. storage[j] < iter /\ storage[j] \in Nat
        BY <1>0, <1>3, <4>1 DEF ScanCovers
      <4>. QED
        BY <1>1, <1>3, <4>1, <4>2
    <3>. QED
      BY <3>2, <3>3
  <2>8. \A p \in Occurrences' : p < iter' => \E j \in 0 .. idx' - 1 : storage'[j] = p
    <3>1. SUFFICES ASSUME NEW p \in Occurrences, p < iter + Width
                   PROVE  \E j \in 0 .. idx : storage'[j] = p
      BY <1>2, <1>3, <2>1
    <3>2. p \in Nat
      BY <1>0, <1>1, OccurrenceFacts
    <3>3. CASE p < iter
      <4>1. PICK j \in 0 .. idx - 1 : storage[j] = p
        BY <1>0, <3>1, <3>3 DEF ScanCovers
      <4>2. j \in 0 .. idx /\ storage'[j] = p
        BY <1>3, <2>2, <2>3, <4>1
      <4>. QED
        BY <4>2
    <3>4. CASE p >= iter
      <4>1. p = iter
        BY <1>4, <3>1, <3>4
      <4>. QED
        BY <1>3, <2>2, <2>3, <4>1
    <3>. QED
      BY <1>3, <3>2, <3>3, <3>4
  <2>9. ScanCovers'
    BY <1>0, <1>1, <1>3, <2>1, <2>6, <2>7, <2>8 DEF ScanCovers
  <2>. QED
    BY <1>0, <2>1, <2>4, <2>5, <2>9 DEF CInv, SearchComplete
<1>7. CASE ~ScanFaults(cr3, iter, Width) /\ CodeMatch(cr3, iter, Width) /\ ~BufferHasRoom
  <2>1. /\ storage' = [storage EXCEPT ![idx] = iter] /\ idx' = idx /\ iter' = iter
        /\ pc' = "compact" /\ ci' = 0 /\ userBuf' = <<>>
    BY <1>7 DEF ScanStep
  <2>2. idx = MaximumSearchResults
    BY <1>3, <1>7, MaxResultsAssumption DEF BufferHasRoom
  <2>3. \A j \in 0 .. idx - 1 : storage'[j] = storage[j]
    BY <1>3, <2>1, <2>2
  <2>4. StoredInRange' /\ EmptySuffix'
    BY <1>0, <1>1, <2>1, <2>2, <2>3 DEF StoredInRange, EmptySuffix
  <2>5. ASSUME NEW p \in Occurrences'
        PROVE  \/ \E j \in 0 .. idx' - 1 : storage'[j] = p
               \/ /\ idx' = MaximumSearchResults
                  /\ \A j \in 0 .. idx' - 1 : storage'[j] < p
    <3>1. p \in Occurrences /\ p \in Nat
      BY <1>0, <1>1, <1>2, OccurrenceFacts
    <3>2. CASE p < iter
      BY <1>0, <2>1, <2>3, <3>1, <3>2 DEF ScanCovers
    <3>3. CASE p >= iter
      BY <1>0, <1>3, <2>1, <2>2, <2>3, <3>1, <3>3 DEF ScanCovers
    <3>4. p < iter \/ p >= iter
      BY <1>3, <3>1
    <3>. QED
      BY <3>2, <3>3, <3>4
  <2>6. userBuf' = [i \in 1 .. ci' |-> storage'[i - 1]] /\ ci' <= idx'
    BY <1>3, <2>1, NoSlot
  <2>7. CompactCovers'
    BY <2>5, <2>6 DEF CompactCovers
  <2>. QED
    BY <1>0, <2>1, <2>4, <2>7 DEF CInv, SearchComplete
<1>8. CASE ~ScanFaults(cr3, iter, Width) /\ ~CodeMatch(cr3, iter, Width)
  <2>1. /\ iter' = iter + Width /\ pc' = "scan"
        /\ UNCHANGED <<idx, storage>>
    BY <1>8 DEF ScanStep
  <2>0. iter' = iter + Width
    BY <1>8 DEF ScanStep
  <2>2. StoredInRange' /\ EmptySuffix'
    BY <1>0, <1>1, <2>1 DEF StoredInRange, EmptySuffix
  <2>3. \A p \in Occurrences' : p < iter' => \E j \in 0 .. idx' - 1 : storage'[j] = p
    <3>1. SUFFICES ASSUME NEW p \in Occurrences, p < iter + Width
                   PROVE  \E j \in 0 .. idx - 1 : storage[j] = p
      BY <1>2, <2>1
    <3>2. p \in Nat /\ CodeMatch(scanSpace, p, Width)
      BY <1>0, <1>1, OccurrenceFacts
    <3>3. ~(p >= iter)
      BY <1>0, <1>4, <1>8, <3>1, <3>2 DEF ScanCovers
    <3>. QED
      BY <1>0, <1>3, <3>2, <3>3 DEF ScanCovers
  <2>4. (iter' - req.address) % Width = 0
    <3>1. (iter + Width - req.address) % Width = 0
      BY <1>1, <1>3, NextCandidate
    <3>2. iter' - req.address = iter + Width - req.address
      BY <1>1, <1>3, <2>0
    <3>. QED
      BY <3>1, <3>2
  <2>5. \A j \in 0 .. idx' - 1 : storage'[j] < iter'
    <3>1. SUFFICES ASSUME NEW j \in 0 .. idx - 1
                   PROVE  storage[j] < iter + Width
      BY <2>1
    <3>2. storage[j] < iter /\ storage[j] \in Nat
      BY <1>0, <1>3 DEF ScanCovers
    <3>. QED
      BY <1>1, <1>3, <3>2
  <2>6. ScanCovers'
    BY <1>0, <1>1, <1>3, <2>1, <2>3, <2>4, <2>5 DEF ScanCovers
  <2>. QED
    BY <1>0, <2>1, <2>2, <2>6 DEF CInv, SearchComplete
<1>. QED
  BY <1>5, <1>6, <1>7, <1>8

(* The matching loop runs off the end of the range: every occurrence lies *)
(* below the iterator, so the scratch buffer holds all of them.           *)
LEMMA ScanEndCInv ==
    ASSUME CInv, ScanEnd
    PROVE  CInv'
<1>0. /\ IInv' /\ TypeOK /\ pc = "scan" /\ ScanCovers /\ StoredInRange /\ EmptySuffix
      /\ req.byteSize \in ValidSizes /\ iter >= AddressTo
      /\ UNCHANGED <<mem, mapped, req, scanSpace, iter, idx, storage>>
      /\ pc' = "compact" /\ ci' = 0 /\ userBuf' = <<>>
  BY NextIInv DEF CInv, Next, ScanEnd, IInv, env, search
<1>1. /\ iter \in Nat /\ AddressTo \in Nat /\ AddressTo' = AddressTo
      /\ idx' \in 0 .. MaximumSearchResults /\ MaximumSearchResults \in Nat
  BY <1>0, RangeBounds, MaxResultsAssumption DEF TypeOK, IInv, AddressTo
<1>2. Occurrences' = Occurrences
  BY <1>0, OccurrencesUnchanged
<1>3. StoredInRange' /\ EmptySuffix'
  BY <1>0, <1>1 DEF StoredInRange, EmptySuffix
<1>4. ASSUME NEW p \in Occurrences'
      PROVE  \E j \in 0 .. idx' - 1 : storage'[j] = p
  <2>1. p \in Occurrences /\ p \in req.address .. AddressTo - 1
    BY <1>0, <1>2, OccurrenceFacts
  <2>2. p < iter
    BY <1>0, <1>1, <2>1
  <2>. QED
    BY <1>0, <2>1, <2>2 DEF ScanCovers
<1>5. ci' <= idx' /\ userBuf' = [i \in 1 .. ci' |-> storage'[i - 1]]
  BY <1>0, <1>1, NoSlot
<1>6. CompactCovers'
  BY <1>4, <1>5 DEF CompactCovers
<1>. QED
  BY <1>0, <1>3, <1>6 DEF CInv, SearchComplete

(* One slot copied back.  A slot below IndexToArrayOfResults is never zero *)
(* and always inside [AddressFrom, AddressTo], so the copy appends it.    *)
LEMMA CompactStepCInv ==
    ASSUME CInv, CompactStep
    PROVE  CInv'
<1>0. /\ IInv' /\ TypeOK /\ pc = "compact" /\ CompactCovers /\ StoredInRange /\ EmptySuffix
      /\ ci < MaximumSearchResults /\ storage[ci] # 0 /\ ci' = ci + 1
      /\ userBuf' = IF InRequestedRange(storage[ci]) THEN Append(userBuf, storage[ci])
                                                    ELSE userBuf
      /\ UNCHANGED <<mem, mapped, req, scanSpace, idx, storage, pc, status>>
  <2>1. IInv'
    BY NextIInv DEF CInv, Next
  <2>2. TypeOK /\ CompactCovers /\ StoredInRange /\ EmptySuffix
    BY DEF CInv, IInv, CompactStep
  <2>3. /\ pc = "compact" /\ ci < MaximumSearchResults /\ storage[ci] # 0 /\ ci' = ci + 1
        /\ userBuf' = IF InRequestedRange(storage[ci]) THEN Append(userBuf, storage[ci])
                                                      ELSE userBuf
        /\ UNCHANGED <<mem, mapped, req, scanSpace, idx, storage, pc, status>>
    BY DEF CompactStep, env, search
  <2>. QED
    BY <2>1, <2>2, <2>3
<1>1. /\ MaximumSearchResults \in Nat /\ ci \in Nat /\ idx \in 0 .. MaximumSearchResults
      /\ storage \in [0 .. MaximumSearchResults -> Nat]
      /\ req.address \in Nat /\ AddressTo \in Nat /\ AddressTo' = AddressTo
  BY <1>0, RangeBounds, MaxResultsAssumption DEF TypeOK, AddressTo
<1>2. ci < idx
  <2>1. SUFFICES ASSUME ci >= idx
                 PROVE  FALSE
    BY <1>1
  <2>2. ci \in idx .. MaximumSearchResults - 1
    BY <1>0, <1>1, <2>1
  <2>. QED
    BY <1>0, <2>2 DEF EmptySuffix
<1>3. InRequestedRange(storage[ci])
  BY <1>0, <1>1, <1>2 DEF StoredInRange, InRequestedRange
<1>4. userBuf' = [i \in 1 .. ci + 1 |-> storage[i - 1]]
  <2>1. userBuf' = Append(userBuf, storage[ci])
    BY <1>0, <1>3
  <2>2. userBuf = [i \in 1 .. ci |-> storage[i - 1]]
    BY <1>0 DEF CompactCovers
  <2>3. ci \in 0 .. MaximumSearchResults
    BY <1>0, <1>1
  <2>. QED
    BY <1>1, <2>1, <2>2, <2>3, AppendSlot
<1>5. Occurrences' = Occurrences
  BY <1>0, OccurrencesUnchanged
<1>6. CompactCovers'
  <2>1. \A p \in Occurrences' :
           \/ \E j \in 0 .. idx' - 1 : storage'[j] = p
           \/ /\ idx' = MaximumSearchResults
              /\ \A j \in 0 .. idx' - 1 : storage'[j] < p
    BY <1>0, <1>5 DEF CompactCovers
  <2>2. ci' <= idx'
    BY <1>0, <1>1, <1>2
  <2>3. userBuf' = [i \in 1 .. ci' |-> storage'[i - 1]]
    BY <1>0, <1>4
  <2>. QED
    BY <2>1, <2>2, <2>3 DEF CompactCovers
<1>7. StoredInRange' /\ EmptySuffix'
  BY <1>0, <1>1 DEF StoredInRange, EmptySuffix
<1>. QED
  BY <1>0, <1>6, <1>7 DEF CInv, SearchComplete

(* The copy stops at the first zero slot or at the end of the buffer,     *)
(* which is IndexToArrayOfResults: the user buffer then holds every       *)
(* stored result, in order, when the IOCTL returns STATUS_SUCCESS.        *)
LEMMA CompactEndCInv ==
    ASSUME CInv, CompactEnd
    PROVE  CInv'
<1>0. /\ IInv' /\ TypeOK /\ pc = "compact" /\ CompactCovers /\ StoredInRange
      /\ (ci >= MaximumSearchResults \/ storage[ci] = 0)
      /\ pc' = "idle" /\ idx' = 0
      /\ UNCHANGED <<mem, mapped, req, scanSpace, userBuf>>
  <2>1. IInv'
    BY NextIInv DEF CInv, Next
  <2>2. TypeOK /\ CompactCovers /\ StoredInRange
    BY DEF CInv, IInv, CompactEnd
  <2>3. /\ pc = "compact" /\ (ci >= MaximumSearchResults \/ storage[ci] = 0)
        /\ pc' = "idle" /\ idx' = 0
        /\ UNCHANGED <<mem, mapped, req, scanSpace, userBuf>>
    BY DEF CompactEnd, env
  <2>. QED
    BY <2>1, <2>2, <2>3
<1>1. /\ MaximumSearchResults \in Nat /\ ci \in Nat /\ idx \in 0 .. MaximumSearchResults
      /\ storage \in [0 .. MaximumSearchResults -> Nat]
      /\ req.address \in Nat /\ req.address >= 1
  BY <1>0, RangeBounds, MaxResultsAssumption DEF TypeOK
<1>2. ci = idx
  <2>1. ci <= idx
    BY <1>0 DEF CompactCovers
  <2>2. CASE ci >= MaximumSearchResults
    BY <1>1, <2>1, <2>2
  <2>3. CASE ci < MaximumSearchResults
    <3>1. storage[ci] = 0
      BY <1>0, <1>1, <2>3
    <3>2. ~(ci < idx)
      BY <1>0, <1>1, <3>1 DEF StoredInRange
    <3>. QED
      BY <1>1, <2>1, <3>2
  <2>. QED
    BY <1>1, <2>2, <2>3
<1>3. userBuf = [i \in 1 .. idx |-> storage[i - 1]] /\ Len(userBuf) = idx
  BY <1>0, <1>1, <1>2 DEF CompactCovers
<1>4. SearchComplete'
  <2>1. SUFFICES ASSUME NEW p \in Occurrences
                 PROVE  \/ \E i \in 1 .. Len(userBuf) : userBuf[i] = p
                        \/ /\ Len(userBuf) = MaximumSearchResults
                           /\ \A i \in 1 .. Len(userBuf) : userBuf[i] < p
    BY <1>0, OccurrencesUnchanged DEF SearchComplete
  <2>2. CASE \E j \in 0 .. idx - 1 : storage[j] = p
    <3>1. PICK j \in 0 .. idx - 1 : storage[j] = p
      BY <2>2
    <3>2. j + 1 \in 1 .. Len(userBuf) /\ userBuf[j + 1] = p
      BY <1>1, <1>3, <3>1
    <3>. QED
      BY <3>2
  <2>3. CASE idx = MaximumSearchResults /\ \A j \in 0 .. idx - 1 : storage[j] < p
    BY <1>1, <1>3, <2>3
  <2>. QED
    BY <1>0, <2>2, <2>3 DEF CompactCovers
<1>. QED
  BY <1>0, <1>4 DEF CInv

(* A step that changes no variable keeps the invariant.                    *)
LEMMA StutterCInv ==
    ASSUME CInv, UNCHANGED vars
    PROVE  CInv'
<1>1. IInv'
  BY NextIInv DEF CInv
<1>2. Occurrences' = Occurrences
  BY OccurrencesUnchanged DEF vars, env, search
<1>3. UNCHANGED <<pc, req, cr3, scanSpace, iter, idx, storage, ci, userBuf, status,
                  baseSaved, baseAddress>>
  BY DEF vars, walk, search
<1>4. AddressTo' = AddressTo /\ Width' = Width
  BY <1>3 DEF AddressTo, Width
<1>. QED
  BY <1>1, <1>2, <1>3, <1>4 DEF CInv, StoredInRange, EmptySuffix, ScanCovers,
                                CompactCovers, SearchComplete

(* The strengthened invariant is inductive.                                *)
LEMMA NextCInv == CInv /\ [Next]_vars => CInv'
<1> SUFFICES ASSUME CInv, [Next]_vars
             PROVE  CInv'
  OBVIOUS
<1>1. CASE \E r \in Requests : SearchRejectProcess(r) \/ SearchAllocFail(r) \/ SearchBegin(r)
  BY <1>1, StartCInv
<1>2. CASE ValidateStep
  BY <1>2, ValidateStepCInv
<1>3. CASE ValidateEnd
  BY <1>3, ValidateEndCInv
<1>4. CASE ScanStep
  BY <1>4, ScanStepCInv
<1>5. CASE ScanEnd
  BY <1>5, ScanEndCInv
<1>6. CASE CompactStep
  BY <1>6, CompactStepCInv
<1>7. CASE CompactEnd
  BY <1>7, CompactEndCInv
<1>8. CASE UNCHANGED vars
  BY <1>8, StutterCInv
<1>. QED
  BY <1>1, <1>2, <1>3, <1>4, <1>5, <1>6, <1>7, <1>8 DEF Next

(* SearchComplete for every instance: when the search IOCTL returns        *)
(* STATUS_SUCCESS, every position of the range where the whole pattern     *)
(* occurs is in the user buffer, unless the buffer was filled with         *)
(* MaximumSearchResults smaller addresses (PerformSearchAddress's matching *)
(* loop and the copy back in DebuggerCommandSearchMemory).                 *)
THEOREM SearchCompleteHolds == Spec => []SearchComplete
<1>1. Init => CInv
  BY InitCInv
<1>2. CInv /\ [Next]_vars => CInv'
  BY NextCInv
<1>3. CInv => SearchComplete
  BY DEF CInv
<1>. QED
  BY <1>1, <1>2, <1>3, PTL DEF Spec
=============================================================================
