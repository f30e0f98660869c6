---------------------------- MODULE SearchMemory ----------------------------
(***************************************************************************)
(* The Pattern Search Engine of DebuggerCommands.c: the IOCTL handler      *)
(* DebuggerCommandSearchMemory, the range validation of                    *)
(* SearchAddressWrapper (virtual memory) and the chunked matching loop of  *)
(* PerformSearchAddress, called from a non-paused debuggee                 *)
(* (IsDebuggeePaused = FALSE, the only way this file calls it).            *)
(*                                                                         *)
(* Each loop of the code is a sequence of steps: the page walk of the      *)
(* wrapper (ValidateStep), one candidate position of the matching loop     *)
(* (ScanStep) and one slot of the final compaction (CompactStep).  The     *)
(* address space is the CR3 of the calling thread: cr3 names the process   *)
(* whose page tables are loaded, and every read of the scan reads the      *)
(* memory of that process.  Reading a page that is not mapped in it with   *)
(* RtlCopyMemory raises an exception nobody catches: the machine bugchecks *)
(* (pc = "crashed").                                                       *)
(***************************************************************************)
EXTENDS Naturals, Sequences

CONSTANTS
    PageSize,              \* PAGE_SIZE
    NumPages,              \* pages 1..NumPages form the modelled address space
    MaximumSearchResults,  \* entries of the scratch result buffer
    Bytes,                 \* the byte values memory holds
    Procs,                 \* process ids (model values)
    Caller,                \* the process that issued the IOCTL
    NoProc,                \* "no address space recorded"
    MemImages,             \* the memory contents a process may have
    PageMaps,              \* the sets of mapped pages a process may have
    PatternChunks,         \* the chunk values a pattern may hold
    MaxChunks,             \* bound on CountOf64Chunks
    Addresses,             \* start addresses a request may name
    Lengths                \* lengths a request may name

Pages == 1..NumPages
Addr  == PageSize .. (NumPages + 1) * PageSize - 1

ASSUME PageSizeAssumption == PageSize \in Nat \ {0}
ASSUME NumPagesAssumption == NumPages \in Nat \ {0}
ASSUME MaxResultsAssumption == MaximumSearchResults \in Nat \ {0}
ASSUME ProcsAssumption == Caller \in Procs /\ NoProc \notin Procs
ASSUME MemImagesAssumption == MemImages # {} /\ MemImages \subseteq [Addr -> Bytes]
ASSUME PageMapsAssumption == PageMaps # {} /\ PageMaps \subseteq SUBSET Pages
ASSUME PatternAssumption == PatternChunks \subseteq Seq(Bytes) /\ MaxChunks \in Nat \ {0}
ASSUME RequestAssumption ==
    Addresses # {} /\ Addresses \subseteq Addr /\ Lengths # {} /\ Lengths \subseteq Nat

(* SEARCH_BYTE, SEARCH_DWORD, SEARCH_QWORD and any other value.            *)
ByteSizes == {"BYTE", "DWORD", "QWORD", "INVALID"}
LengthOfEachChunk == [b \in {"BYTE", "DWORD", "QWORD"} |->
                        CASE b = "BYTE" -> 1 [] b = "DWORD" -> 4 [] b = "QWORD" -> 8]

(* Patterns of 1..MaxChunks chunks, each chunk as wide as the granularity. *)
PatternsOf(w) == UNION {[1..n -> {c \in PatternChunks : Len(c) = w}] : n \in 1..MaxChunks}

(* An invalid granularity is rejected before the pattern is looked at.    *)
PatternWidth(b) == IF b = "INVALID" THEN 1 ELSE LengthOfEachChunk[b]

PatternsFor(b) == IF b = "INVALID" THEN {CHOOSE p \in PatternsOf(1) : TRUE}
                  ELSE PatternsOf(PatternWidth(b))

Requests ==
    UNION {[pid : Procs, address : Addresses, length : Lengths,
            byteSize : {b}, pattern : PatternsFor(b)] : b \in ByteSizes}

Statuses == {"NONE", "SUCCESS", "INVALID_PARAMETER", "INSUFFICIENT_RESOURCES"}

VARIABLES
    mem,         \* mem[p]: the bytes of process p's mapped pages
    mapped,      \* mapped[p]: the pages present in p's address space
    exists,      \* exists[p]: CommonIsProcessExist(p)
    pc,          \* "idle", "validate", "scan", "compact" or "crashed"
    req,         \* the DEBUGGER_SEARCH_MEMORY request being served
    cr3,         \* the process whose address space is loaded
    wrapperCr3,  \* CurrentProcessCr3 of SearchAddressWrapper
    searchCr3,   \* CurrentProcessCr3 of PerformSearchAddress
    startAddr,   \* StartAddress of the wrapper's page walk
    baseSaved,   \* DoesBaseAddrSaved
    baseAddress, \* BaseAddress
    scanSpace,   \* the address space the matching loop read (NoProc: none)
    iter,        \* BaseIterator
    idx,         \* IndexToArrayOfResults
    count,       \* CountOfOccurance
    matched,     \* *CountOfMatchedCases
    storage,     \* SearchResultsStorage; slot MaximumSearchResults is past its end
    ci,          \* the index i of the compaction loop
    userBuf,     \* the results copied back into the user-mode buffer
    searchResult,\* SearchResult, the value SearchAddressWrapper returns
    status       \* the NTSTATUS of the last completed IOCTL

env    == <<mem, mapped, exists>>
walk   == <<startAddr, baseSaved, baseAddress>>
search == <<scanSpace, iter, idx, count, matched, storage>>
vars   == <<env, pc, req, cr3, wrapperCr3, searchCr3, walk, search, ci, userBuf,
           searchResult, status>>

-----------------------------------------------------------------------------
(* Address arithmetic.                                                     *)
PageOf(a)    == a \div PageSize
PageAlign(a) == a - (a % PageSize)
AddressTo    == req.address + req.length
Width        == LengthOfEachChunk[req.byteSize]

(* Every byte of [a, a + w) lies in a page mapped in mp.                   *)
Readable(mp, a, w) == \A b \in a .. a + w - 1 : PageOf(b) \in Pages /\ PageOf(b) \in mp

(* The w bytes at a equal chunk c (only read where Readable holds).        *)
ChunkEq(m, a, c) == \A i \in 1 .. Len(c) : m[a + i - 1] = c[i]

(* The pattern indices PerformSearchAddress compares at a candidate: the   *)
(* first chunk, then i = LengthOfEachChunk .. CountOf64Chunks - 1.         *)
Checked(w, k) == {0} \cup (w .. k - 1)

ChunkOK(p, pos, i, w) ==
    Readable(mapped[p], pos + w * i, w) /\ ChunkEq(mem[p], pos + w * i, req.pattern[i + 1])

(* The comparisons at pos reach chunk i and read unmapped memory there.    *)
ScanFaults(p, pos, w) ==
    \E i \in Checked(w, Len(req.pattern)) :
        /\ \A j \in Checked(w, Len(req.pattern)) : j < i => ChunkOK(p, pos, j, w)
        /\ ~Readable(mapped[p], pos + w * i, w)

(* StillMatch at the end of the comparisons at pos.                        *)
CodeMatch(p, pos, w) == \A i \in Checked(w, Len(req.pattern)) : ChunkOK(p, pos, i, w)

-----------------------------------------------------------------------------
Init ==
    /\ mem \in [Procs -> MemImages]
    /\ mapped \in [Procs -> PageMaps]
    /\ exists \in [Procs -> BOOLEAN]
    /\ exists[Caller]
    /\ pc = "idle"
    /\ req = CHOOSE r \in Requests : TRUE
    /\ cr3 = Caller
    /\ wrapperCr3 = NoProc
    /\ searchCr3 = NoProc
    /\ startAddr = 0 /\ baseSaved = FALSE /\ baseAddress = 0
    /\ scanSpace = NoProc /\ iter = 0 /\ idx = 0 /\ count = 0 /\ matched = 0
    /\ storage = [i \in 0 .. MaximumSearchResults |-> 0]
    /\ ci = 0
    /\ userBuf = <<>>
    /\ searchResult = FALSE
    /\ status = "NONE"

(* DebuggerCommandSearchMemory: the target is another process that does   *)
(* not exist.                                                              *)
SearchRejectProcess(r) ==
    /\ pc = "idle"
    /\ r.pid # Caller /\ ~exists[r.pid]
    /\ req' = r
    /\ status' = "INVALID_PARAMETER"
    /\ UNCHANGED <<env, pc, cr3, wrapperCr3, searchCr3, walk, search, ci, userBuf, searchResult>>

(* DebuggerCommandSearchMemory: the scratch buffer cannot be allocated.    *)
SearchAllocFail(r) ==
    /\ pc = "idle"
    /\ r.pid = Caller \/ exists[r.pid]
    /\ req' = r
    /\ status' = "INSUFFICIENT_RESOURCES"
    /\ UNCHANGED <<env, pc, cr3, wrapperCr3, searchCr3, walk, search, ci, userBuf, searchResult>>

(* DebuggerCommandSearchMemory allocates the zeroed scratch buffer and     *)
(* calls SearchAddressWrapper, which resets the count, aligns the start    *)
(* down to its page and switches to the target's address space.           *)
SearchBegin(r) ==
    /\ pc = "idle"
    /\ r.pid = Caller \/ exists[r.pid]
    /\ req' = r
    /\ storage' = [i \in 0 .. MaximumSearchResults |-> 0]
    /\ matched' = 0
    /\ scanSpace' = NoProc
    /\ startAddr' = PageAlign(r.address)
    /\ baseSaved' = FALSE
    /\ baseAddress' = 0
    /\ wrapperCr3' = cr3
    /\ cr3' = r.pid
    /\ searchResult' = FALSE
    /\ pc' = "validate"
    /\ UNCHANGED <<env, searchCr3, iter, idx, count, ci, userBuf, status>>

(* One iteration of the wrapper's walk: the page at StartAddress is valid. *)
ValidateStep ==
    /\ pc = "validate"
    /\ startAddr < AddressTo
    /\ Readable(mapped[cr3], startAddr, 1)
    /\ IF baseSaved THEN UNCHANGED <<baseSaved, baseAddress>>
                    ELSE baseAddress' = req.address /\ baseSaved' = TRUE
    /\ startAddr' = startAddr + PageSize
    /\ UNCHANGED <<env, pc, req, cr3, wrapperCr3, searchCr3, search, ci, userBuf,
                   searchResult, status>>

(* The walk ends (range end or first invalid page); the wrapper restores   *)
(* the previous address space and either rejects the range or calls       *)
(* PerformSearchAddress, which checks the granularity, switches to the     *)
(* target process when it is not the caller and starts at BaseAddress.     *)
ValidateEnd ==
    /\ pc = "validate"
    /\ startAddr >= AddressTo \/ ~Readable(mapped[cr3], startAddr, 1)
    /\ IF baseSaved /\ startAddr > baseAddress /\ req.byteSize # "INVALID"
         THEN LET space == IF req.pid # Caller THEN req.pid ELSE wrapperCr3
              IN /\ searchCr3' = IF req.pid # Caller THEN wrapperCr3 ELSE searchCr3
                 /\ cr3' = space
                 /\ scanSpace' = space
                 /\ iter' = baseAddress
                 /\ idx' = 0
                 /\ count' = 0
                 /\ pc' = "scan"
                 /\ UNCHANGED <<ci, userBuf>>
         ELSE /\ cr3' = wrapperCr3
              /\ pc' = "compact"
              /\ ci' = 0
              /\ userBuf' = <<>>
              /\ UNCHANGED <<searchCr3, scanSpace, iter, idx, count>>
    /\ UNCHANGED <<env, req, wrapperCr3, walk, matched, storage, searchResult, status>>

(* The index check after a match is recorded.                              *)
(* Mutant: the check lets the index reach past the last slot.             *)
BufferHasRoomOffByOne == MaximumSearchResults >= idx

BufferHasRoom == MaximumSearchResults > idx

(* One candidate position of the matching loop, with its comparisons, the  *)
(* recording of a match and the early return once the buffer is full.     *)
ScanStep ==
    /\ pc = "scan"
    /\ iter < AddressTo
    /\ IF ScanFaults(cr3, iter, Width)
         THEN /\ pc' = "crashed"
              /\ UNCHANGED <<iter, idx, count, matched, storage, ci, userBuf, searchResult>>
         ELSE IF CodeMatch(cr3, iter, Width)
         THEN /\ count' = count + 1
              /\ storage' = [storage EXCEPT ![idx] = iter]
              /\ IF BufferHasRoom
                   THEN /\ idx' = idx + 1
                        /\ iter' = iter + Width
                        /\ UNCHANGED <<pc, matched, ci, userBuf, searchResult>>
                   ELSE /\ matched' = count + 1
                        /\ pc' = "compact"
                        /\ ci' = 0
                        /\ userBuf' = <<>>
                        /\ searchResult' = TRUE
                        /\ UNCHANGED <<iter, idx>>
         ELSE /\ iter' = iter + Width
              /\ UNCHANGED <<pc, idx, count, matched, storage, ci, userBuf, searchResult>>
    /\ UNCHANGED <<env, req, cr3, wrapperCr3, searchCr3, walk, scanSpace, status>>

(* The matching loop ends: restore the address space when it was switched *)
(* and report the count.                                                  *)
ScanEnd ==
    /\ pc = "scan"
    /\ iter >= AddressTo
    /\ cr3' = IF req.pid # Caller THEN searchCr3 ELSE cr3
    /\ matched' = count
    /\ pc' = "compact"
    /\ ci' = 0
    /\ userBuf' = <<>>
    /\ searchResult' = TRUE
    /\ UNCHANGED <<env, req, wrapperCr3, searchCr3, walk, scanSpace, iter, idx,
                   count, storage, status>>

(* One slot of the copy back into the zeroed user buffer: results outside *)
(* [AddressFrom, AddressTo] are skipped.                                  *)
(* Mutant: the lower bound made strict.                                   *)
InRequestedRangeStrict(v) == v > req.address /\ v <= AddressTo

InRequestedRange(v) == v >= req.address /\ v <= AddressTo

CompactStep ==
    /\ pc = "compact"
    /\ ci < MaximumSearchResults
    /\ storage[ci] # 0
    /\ userBuf' = IF InRequestedRange(storage[ci]) THEN Append(userBuf, storage[ci])
                                                  ELSE userBuf
    /\ ci' = ci + 1
    /\ UNCHANGED <<env, pc, req, cr3, wrapperCr3, searchCr3, walk, search, searchResult, status>>

(* The copy stops at the first zero slot or the end of the buffer; the    *)
(* scratch buffer is freed and the IOCTL returns STATUS_SUCCESS.  The      *)
(* locals of the returning functions are dead and take their initial      *)
(* values again.  The wrapper's result is not looked at (line 1188): the  *)
(* status is STATUS_SUCCESS whatever it was.                              *)
CompactEnd ==
    /\ pc = "compact"
    /\ ci >= MaximumSearchResults \/ storage[ci] = 0
    /\ pc' = "idle"
    /\ status' = "SUCCESS"
    /\ wrapperCr3' = NoProc /\ searchCr3' = NoProc
    /\ startAddr' = 0 /\ baseSaved' = FALSE /\ baseAddress' = 0
    /\ iter' = 0 /\ idx' = 0 /\ count' = 0 /\ matched' = 0
    /\ storage' = [i \in 0 .. MaximumSearchResults |-> 0]
    /\ ci' = 0
    /\ searchResult' = FALSE
    /\ UNCHANGED <<env, req, cr3, scanSpace, userBuf>>

Next ==
    \/ \E r \in Requests : SearchRejectProcess(r) \/ SearchAllocFail(r) \/ SearchBegin(r)
    \/ ValidateStep
    \/ ValidateEnd
    \/ ScanStep
    \/ ScanEnd
    \/ CompactStep
    \/ CompactEnd

Spec == Init /\ [][Next]_vars

-----------------------------------------------------------------------------
(* Type invariant.                                                         *)
TypeOK ==
    /\ mem \in [Procs -> [Addr -> Bytes]]
    /\ mapped \in [Procs -> SUBSET Pages]
    /\ exists \in [Procs -> BOOLEAN]
    /\ pc \in {"idle", "validate", "scan", "compact", "crashed"}
    /\ req \in Requests
    /\ cr3 \in Procs
    /\ wrapperCr3 \in Procs \cup {NoProc}
    /\ searchCr3 \in Procs \cup {NoProc}
    /\ startAddr \in Nat /\ baseSaved \in BOOLEAN /\ baseAddress \in Nat
    /\ scanSpace \in Procs \cup {NoProc}
    /\ iter \in Nat /\ idx \in 0 .. MaximumSearchResults
    /\ count \in Nat /\ matched \in Nat
    /\ storage \in [0 .. MaximumSearchResults -> Nat]
    /\ ci \in Nat
    /\ userBuf \in Seq(Nat)
    /\ searchResult \in BOOLEAN
    /\ status \in Statuses

(* The candidate positions of a request: from AddressFrom in steps of the  *)
(* granularity, below AddressTo.                                           *)
ScanPositions == {p \in req.address .. AddressTo - 1 : (p - req.address) % Width = 0}

(* Where the whole pattern occurs in the memory the loop read.             *)
Occurrences ==
    IF scanSpace = NoProc THEN {}
    ELSE {p \in ScanPositions :
            \A i \in 0 .. Len(req.pattern) - 1 : ChunkOK(scanSpace, p, i, Width)}

(* Search totality (DebuggerCommandSearchMemory with PerformSearchAddress): *)
(* once a search returns STATUS_SUCCESS, every candidate position where    *)
(* the whole pattern occurs in the searched memory is in the user buffer,  *)
(* unless the buffer was truncated at MaximumSearchResults entries that    *)
(* all precede it.                                                         *)
SearchComplete ==
    (pc = "idle" /\ status = "SUCCESS") =>
        \A p \in Occurrences :
            \/ \E i \in 1 .. Len(userBuf) : userBuf[i] = p
            \/ /\ Len(userBuf) = MaximumSearchResults
               /\ \A i \in 1 .. Len(userBuf) : userBuf[i] < p

(* PerformSearchAddress verifies every remaining pattern chunk: every      *)
(* reported address is a position where the whole pattern occurs.         *)
SearchSound ==
    (pc = "idle" /\ status = "SUCCESS") =>
        \A i \in 1 .. Len(userBuf) : userBuf[i] \in Occurrences

(* The address-space switch is undone on every exit path: when the IOCTL  *)
(* returns, the caller's own address space is loaded again.               *)
Cr3Restored == pc = "idle" => cr3 = Caller

(* The matching loop never writes past the end of the scratch buffer of   *)
(* MaximumSearchResults entries.                                           *)
ResultsWithinBuffer == storage[MaximumSearchResults] = 0

(* The matching loop never reads a page that is not mapped in the loaded  *)
(* address space (a read there bugchecks the machine).                    *)
NoUnmappedRead == pc # "crashed"


(* Search range rejection (spec: a range that is not contiguously mapped,  *)
(* or a bad granularity, fails with NotContiguous / InvalidParameter): when *)
(* DebuggerCommandSearchMemory returns STATUS_SUCCESS after running the     *)
(* wrapper, the SearchAddressWrapper call it made returned TRUE.            *)
SearchRejectionReported ==
    [][(pc = "compact" /\ pc' = "idle" /\ status' = "SUCCESS") => searchResult]_vars

=============================================================================
