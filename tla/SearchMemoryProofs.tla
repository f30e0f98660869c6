------------------------- MODULE SearchMemoryProofs -------------------------
(***************************************************************************)
(* Proofs about the Pattern Search Engine model.  TypeOK is not inductive  *)
(* by itself: the matching loop adds Width to BaseIterator, and Width is   *)
(* a number only for a valid granularity, and the restores load the saved *)
(* CR3 tokens, which are processes only while a switch is outstanding.    *)
(* IInv adds exactly these facts.                                          *)
(***************************************************************************)
EXTENDS SearchMemory, TLAPS

ValidSizes == {"BYTE", "DWORD", "QWORD"}

IInv ==
    /\ TypeOK
    /\ pc = "validate" => wrapperCr3 \in Procs
    /\ pc = "scan" => /\ req.byteSize \in ValidSizes
                      /\ req.pid # Caller => searchCr3 \in Procs

-----------------------------------------------------------------------------
(* Lemmas about the operators the model is built from.                    *)

LEMMA RequestFields ==
    ASSUME NEW r \in Requests
    PROVE  /\ r.pid \in Procs
           /\ r.address \in Addresses
           /\ r.length \in Lengths
           /\ r.byteSize \in ByteSizes
<1>1. PICK b \in ByteSizes :
          r \in [pid : Procs, address : Addresses, length : Lengths,
                 byteSize : {b}, pattern : PatternsFor(b)]
  BY DEF Requests
<1>. QED
  BY <1>1

LEMMA RequestsNonEmpty == Requests # {}
<1> DEFINE pat == CHOOSE p \in PatternsOf(1) : TRUE
           r   == [pid |-> Caller, address |-> CHOOSE a \in Addresses : TRUE,
                   length |-> CHOOSE l \in Lengths : TRUE,
                   byteSize |-> "INVALID", pattern |-> pat]
<1>1. r \in [pid : Procs, address : Addresses, length : Lengths,
             byteSize : {"INVALID"}, pattern : PatternsFor("INVALID")]
  BY ProcsAssumption, RequestAssumption DEF PatternsFor
<1>2. "INVALID" \in ByteSizes
  BY DEF ByteSizes
<1>. QED
  BY <1>1, <1>2, Zenon DEF Requests

LEMMA AddressNat ==
    ASSUME NEW r \in Requests
    PROVE  r.address \in Nat
<1>1. r.address \in Addresses
  BY RequestFields
<1>2. Addr \subseteq Nat
  BY PageSizeAssumption DEF Addr
<1>. QED
  BY <1>1, <1>2, RequestAssumption, Zenon

LEMMA PageAlignNat ==
    ASSUME NEW a \in Nat
    PROVE  PageAlign(a) \in Nat
<1>1. a % PageSize \in 0 .. PageSize - 1
  BY PageSizeAssumption, Z3
<1>2. a % PageSize <= a
  BY PageSizeAssumption, Z3
<1>. QED
  BY <1>1, <1>2 DEF PageAlign

LEMMA WidthType ==
    ASSUME NEW b \in ValidSizes
    PROVE  LengthOfEachChunk[b] \in {1, 4, 8}
BY DEF LengthOfEachChunk, ValidSizes

-----------------------------------------------------------------------------
LEMMA InitIInv == Init => IInv
<1> SUFFICES ASSUME Init PROVE IInv
  OBVIOUS
<1>1. req \in Requests
  BY RequestsNonEmpty DEF Init
<1>2. mem \in [Procs -> [Addr -> Bytes]]
  BY MemImagesAssumption DEF Init
<1>3. mapped \in [Procs -> SUBSET Pages]
  BY PageMapsAssumption DEF Init
<1>4. storage \in [0 .. MaximumSearchResults -> Nat] /\ idx \in 0 .. MaximumSearchResults
  BY MaxResultsAssumption DEF Init
<1>5. cr3 \in Procs /\ userBuf \in Seq(Nat) /\ status \in Statuses
  BY ProcsAssumption DEF Init, Statuses
<1>. QED
  BY <1>1, <1>2, <1>3, <1>4, <1>5 DEF Init, IInv, TypeOK

(* Every action preserves IInv: one step per action, split where the      *)
(* action's IF has branches.                                               *)
LEMMA NextIInv == IInv /\ [Next]_vars => IInv'
<1> SUFFICES ASSUME IInv, [Next]_vars PROVE IInv'
  OBVIOUS
<1> USE DEF IInv, TypeOK
<1>1. ASSUME NEW r \in Requests, SearchRejectProcess(r) PROVE IInv'
  BY <1>1 DEF SearchRejectProcess, Statuses, env, walk, search
<1>2. ASSUME NEW r \in Requests, SearchAllocFail(r) PROVE IInv'
  BY <1>2 DEF SearchAllocFail, Statuses, env, walk, search
<1>3. ASSUME NEW r \in Requests, SearchBegin(r) PROVE IInv'
  <2>1. r.pid \in Procs /\ r.address \in Nat
    BY RequestFields, AddressNat
  <2>2. startAddr' \in Nat
    BY <1>3, <2>1, PageAlignNat DEF SearchBegin
  <2>3. storage' \in [0 .. MaximumSearchResults -> Nat]
    BY <1>3 DEF SearchBegin
  <2>. QED
    BY <1>3, <2>1, <2>2, <2>3 DEF SearchBegin, env
<1>4. ASSUME ValidateStep PROVE IInv'
  <2>1. req.address \in Nat
    BY AddressNat
  <2>2. startAddr' \in Nat
    BY <1>4, PageSizeAssumption DEF ValidateStep
  <2>3. baseAddress' \in Nat /\ baseSaved' \in BOOLEAN
    <3>1. CASE baseSaved
      BY <1>4, <3>1 DEF ValidateStep
    <3>2. CASE ~baseSaved
      BY <1>4, <2>1, <3>2 DEF ValidateStep
    <3>. QED
      BY <3>1, <3>2
  <2>. QED
    BY <1>4, <2>2, <2>3 DEF ValidateStep, env, search
<1>5. ASSUME ValidateEnd PROVE IInv'
  <2>0. /\ pc = "validate"
        /\ UNCHANGED <<env, req, wrapperCr3, walk, matched, storage, searchResult, status>>
    BY <1>5 DEF ValidateEnd
  <2>1. CASE baseSaved /\ startAddr > baseAddress /\ req.byteSize # "INVALID"
    <3>1. req.byteSize \in ValidSizes
      BY <2>1, RequestFields DEF ByteSizes, ValidSizes
    <3>2. /\ searchCr3' = IF req.pid # Caller THEN wrapperCr3 ELSE searchCr3
          /\ cr3' = IF req.pid # Caller THEN req.pid ELSE wrapperCr3
          /\ scanSpace' = cr3'
          /\ iter' = baseAddress /\ idx' = 0 /\ count' = 0 /\ pc' = "scan"
          /\ UNCHANGED <<ci, userBuf>>
      BY <1>5, <2>1 DEF ValidateEnd
    <3>0. wrapperCr3 \in Procs /\ req.pid \in Procs
      BY <1>5, RequestFields DEF ValidateEnd
    <3>3. cr3' \in Procs /\ searchCr3' \in Procs \cup {NoProc}
      BY <3>0, <3>2
    <3>4. req.pid # Caller => searchCr3' \in Procs
      BY <3>0, <3>2
    <3>. QED
      BY <2>0, <3>1, <3>2, <3>3, <3>4, MaxResultsAssumption DEF env, walk
  <2>2. CASE ~(baseSaved /\ startAddr > baseAddress /\ req.byteSize # "INVALID")
    <3>1. /\ cr3' = wrapperCr3 /\ pc' = "compact" /\ ci' = 0 /\ userBuf' = <<>>
          /\ UNCHANGED <<searchCr3, scanSpace, iter, idx, count>>
      BY <1>5, <2>2 DEF ValidateEnd
    <3>. QED
      BY <1>5, <3>1 DEF ValidateEnd, env, walk
  <2>. QED
    BY <2>1, <2>2
<1>6. ASSUME ScanStep PROVE IInv'
  <2>0. /\ pc = "scan"
        /\ UNCHANGED <<env, req, cr3, wrapperCr3, searchCr3, walk, scanSpace, status>>
    BY <1>6 DEF ScanStep
  <2>1. Width \in {1, 4, 8}
    BY <2>0, WidthType DEF Width
  <2>2. CASE ScanFaults(cr3, iter, Width)
    <3>1. pc' = "crashed" /\ UNCHANGED <<iter, idx, count, matched, storage, ci, userBuf, searchResult>>
      BY <1>6, <2>2 DEF ScanStep
    <3>. QED
      BY <2>0, <3>1 DEF env, walk
  <2>3. CASE ~ScanFaults(cr3, iter, Width) /\ CodeMatch(cr3, iter, Width)
    <3>1. count' = count + 1 /\ storage' = [storage EXCEPT ![idx] = iter]
      BY <1>6, <2>3 DEF ScanStep
    <3>2. storage' \in [0 .. MaximumSearchResults -> Nat]
      BY <3>1
    <3>3. CASE BufferHasRoom
      <4>1. idx' = idx + 1 /\ iter' = iter + Width /\ UNCHANGED <<pc, matched, ci, userBuf, searchResult>>
        BY <1>6, <2>3, <3>3 DEF ScanStep, BufferHasRoom
      <4>. QED
        BY <2>0, <2>1, <3>1, <3>2, <3>3, <4>1, MaxResultsAssumption DEF env, walk, BufferHasRoom
    <3>4. CASE ~BufferHasRoom
      <4>1. matched' = count + 1 /\ pc' = "compact" /\ ci' = 0 /\ userBuf' = <<>>
            /\ searchResult' = TRUE /\ UNCHANGED <<iter, idx>>
        BY <1>6, <2>3, <3>4 DEF ScanStep, BufferHasRoom
      <4>. QED
        BY <2>0, <3>1, <3>2, <4>1 DEF env, walk
    <3>. QED
      BY <3>3, <3>4
  <2>4. CASE ~ScanFaults(cr3, iter, Width) /\ ~CodeMatch(cr3, iter, Width)
    <3>1. iter' = iter + Width /\ UNCHANGED <<pc, idx, count, matched, storage, ci, userBuf, searchResult>>
      BY <1>6, <2>4 DEF ScanStep
    <3>. QED
      BY <2>0, <2>1, <3>1 DEF env, walk
  <2>. QED
    BY <2>2, <2>3, <2>4
<1>7. ASSUME ScanEnd PROVE IInv'
  <2>0. /\ pc = "scan" /\ pc' = "compact"
        /\ cr3' = IF req.pid # Caller THEN searchCr3 ELSE cr3
        /\ matched' = count /\ ci' = 0 /\ userBuf' = <<>> /\ searchResult' = TRUE
        /\ UNCHANGED <<env, req, wrapperCr3, searchCr3, walk, scanSpace, iter, idx,
                       count, storage, status>>
    BY <1>7 DEF ScanEnd
  <2>1. cr3' \in Procs
    BY <2>0
  <2>. QED
    BY <2>0, <2>1 DEF env, walk
<1>8. ASSUME CompactStep PROVE IInv'
  <2>1. ci \in 0 .. MaximumSearchResults - 1
    BY <1>8, MaxResultsAssumption DEF CompactStep
  <2>2. storage[ci] \in Nat
    BY <2>1, MaxResultsAssumption
  <2>3. userBuf' \in Seq(Nat) /\ ci' \in Nat
    <3>1. CASE InRequestedRange(storage[ci])
      BY <1>8, <2>2, <3>1 DEF CompactStep
    <3>2. CASE ~InRequestedRange(storage[ci])
      BY <1>8, <3>2 DEF CompactStep
    <3>. QED
      BY <3>1, <3>2
  <2>. QED
    BY <1>8, <2>3 DEF CompactStep, env, walk, search
<1>9. ASSUME CompactEnd PROVE IInv'
  <2>1. storage' \in [0 .. MaximumSearchResults -> Nat] /\ idx' \in 0 .. MaximumSearchResults
    BY <1>9, MaxResultsAssumption DEF CompactEnd
  <2>2. status' \in Statuses /\ pc' = "idle"
    BY <1>9 DEF CompactEnd, Statuses
  <2>. QED
    BY <1>9, <2>1, <2>2 DEF CompactEnd, env
<1>10. CASE UNCHANGED vars
  BY <1>10 DEF vars, env, walk, search
<1>. QED
  BY <1>1, <1>2, <1>3, <1>4, <1>5, <1>6, <1>7, <1>8, <1>9, <1>10 DEF Next

(* Type correctness of the search engine (DebuggerCommandSearchMemory,    *)
(* SearchAddressWrapper, PerformSearchAddress): in every reachable state   *)
(* every variable holds a value of its type, in particular the result     *)
(* index stays within 0 .. MaximumSearchResults.                          *)
THEOREM TypeCorrect == Spec => []TypeOK
<1>1. Init => IInv
  BY InitIInv
<1>2. IInv /\ [Next]_vars => IInv'
  BY NextIInv
<1>3. IInv => TypeOK
  BY DEF IInv
<1>. QED
  BY <1>1, <1>2, <1>3, PTL DEF Spec

=============================================================================
