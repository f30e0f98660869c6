--------------------------- MODULE MemoryCommands ---------------------------
(***************************************************************************)
(* The Memory Command Engine of DebuggerCommands.c: the read handlers      *)
(* DebuggerCommandReadMemory (normal context) and                         *)
(* DebuggerCommandReadMemoryVmxRoot (VMX root, with the breakpoint-shadow  *)
(* unmasking loop), and the edit handlers DebuggerCommandEditMemory and    *)
(* DebuggerCommandEditMemoryVmxRoot.  Each handler runs to completion on   *)
(* one thread or in one VM exit, so each is one action.                    *)
(*                                                                         *)
(* Memory is byte-addressed in pages; a virtual space per process and one  *)
(* physical space.  A write chunk is a byte value that fills the chunk's   *)
(* LengthOfEachChunk bytes.  The callers' user buffers are functions from  *)
(* offsets 0..Size to bytes: offset Size is the byte just after the Size   *)
(* bytes the caller provided.                                              *)
(***************************************************************************)
EXTENDS Naturals, Sequences

CONSTANTS
    PageSize, NumPages,
    Procs,          \* process ids (model values)
    Current,        \* the process the handler runs in (PsGetCurrentProcess)
    Bytes,          \* byte values
    TrapByte,       \* 0xCC
    Unbacked,       \* what a read of physical memory with no RAM behind it returns
    MemImages,      \* memory contents a space may start with
    PageMaps,       \* sets of valid pages a space may have
    BpTables,       \* breakpoint tables: functions from addresses to PreviousByte
    KernelStart,    \* first canonical kernel address (0xFFFF800000000000)
    ReadAddresses, ReadSizes,
    EditAddresses, PayloadBytes, MaxChunks,
    EditEnum        \* the values of EDIT_BYTE, EDIT_DWORD, EDIT_QWORD

Pages == 1 .. NumPages
Addr  == PageSize .. (NumPages + 1) * PageSize - 1

ASSUME PageAssumption == PageSize \in Nat \ {0} /\ NumPages \in Nat \ {0}
ASSUME ProcsAssumption == Current \in Procs
ASSUME ByteAssumption == TrapByte \in Bytes /\ Unbacked \in Bytes /\ PayloadBytes \subseteq Bytes
ASSUME ImageAssumption == MemImages \subseteq [Addr -> Bytes] /\ PageMaps \subseteq SUBSET Pages
ASSUME BpAssumption == \A t \in BpTables : DOMAIN t \subseteq Addr /\ \A a \in DOMAIN t : t[a] \in Bytes
ASSUME EnumAssumption == EditEnum \in [{"BYTE", "DWORD", "QWORD"} -> Nat]
ASSUME RequestAssumption ==
    /\ ReadAddresses \cup ReadSizes \cup EditAddresses \subseteq Nat
    /\ MaxChunks \in Nat
    /\ ReadAddresses \cup EditAddresses # {}
    /\ ReadAddresses # {} => ReadSizes # {}

MemTypes  == {"VIRTUAL", "PHYSICAL", "INVALID"}
EditSizes == {"BYTE", "DWORD", "QWORD", "INVALID"}

ReadRequests ==
    [pid : Procs, address : ReadAddresses, size : ReadSizes, memType : MemTypes,
     getAddressMode : BOOLEAN]

EditRequests ==
    UNION {[pid : Procs, address : EditAddresses, byteSize : EditSizes, memType : MemTypes,
            payload : [1 .. n -> PayloadBytes]] : n \in 0 .. MaxChunks}

Statuses == {"NONE", "SUCCESS", "READ_INVALID_PARAMETER", "INVALID_PHYSICAL_ADDRESS",
             "INVALID_ADDRESS", "MEMORY_TYPE_INVALID", "EDIT_INVALID_PARAMETER",
             "INVALID_ADDRESS_CURRENT", "INVALID_ADDRESS_OTHER"}

VARIABLES
    mem,         \* mem[p]: the virtual memory of process p
    mapped,      \* mapped[p]: its valid pages
    phys,        \* physical memory
    physMapped,  \* physical pages backed by RAM
    bp,          \* g_BreakpointsListHead: address |-> PreviousByte
    op,          \* the handler that ran last
    req,         \* its request
    status,      \* KernelStatus / Result it reported
    buf,         \* the caller's buffer after the last read (offsets 0..Size)
    past,        \* the byte after the caller's Size bytes before that read
    returnSize,  \* *ReturnSize
    addressMode  \* ReadMemRequest->AddressMode

env  == <<mapped, physMapped, bp>>
out  == <<op, req, status, buf, past, returnSize, addressMode>>
vars == <<mem, phys, env, out>>

-----------------------------------------------------------------------------
PageOf(a) == a \div PageSize

(* The n bytes at a lie in pages of mp.                                    *)
RangeMapped(mp, a, n) == \A b \in a .. a + n - 1 : PageOf(b) \in mp

(* CheckAccessValidityAndSafety: the pages of [a, a + n) are present; the  *)
(* page of a is checked even when n is 0.                                  *)
CheckAccessValidityAndSafety(mp, a, n) == RangeMapped(mp, a, IF n = 0 THEN 1 ELSE n)

(* CheckAddressPhysical: the physical page of a is backed by RAM.          *)
CheckAddressPhysical(a) == PageOf(a) \in physMapped

LengthOfEachChunk == [b \in {"BYTE", "DWORD", "QWORD"} |->
                        CASE b = "BYTE" -> 1 [] b = "DWORD" -> 4 [] b = "QWORD" -> 8]

(* 32/64-bit inference: kernel-range addresses are 64-bit; otherwise the   *)
(* answer of the Wow64 query, 64-bit when the query fails.                 *)
(* Mutant: the failed query's answer is used as it is.                    *)
AddressModeOfNoFallback(a, wow) == IF a >= KernelStart THEN "64" ELSE wow

AddressModeOf(a, wow) == IF a >= KernelStart \/ wow = "FAIL" THEN "64" ELSE wow

(* The Size bytes at a, followed by the byte after the caller's buffer.   *)
RawRead(m, a, s, pb) == [k \in 0 .. s |-> IF k < s THEN m[a + k] ELSE pb]

(* Physical read: bytes with no RAM behind them read as Unbacked.          *)
PhysByte(a) == IF PageOf(a) \in physMapped THEN phys[a] ELSE Unbacked

(* The breakpoint loop's window test.                                      *)
(* Mutant: the lower bound made strict.                                   *)
InBpWindowStrict(b, a, s) == b > a /\ b <= a + s

InBpWindow(b, a, s) == b >= a /\ b <= a + s

(* The unmasking loop over the breakpoint list: a 0xCC byte at a           *)
(* breakpoint's offset is replaced by its PreviousByte.                    *)
Unshadow(u, a, s) ==
    [k \in DOMAIN u |-> IF /\ a + k \in DOMAIN bp
                           /\ InBpWindow(a + k, a, s)
                           /\ u[k] = TrapByte
                        THEN bp[a + k] ELSE u[k]]

(* DestinationAddress of chunk i.                                          *)
(* Mutant: the chunk index counted from one.                              *)
ChunkAddressFromOne(a, i, w) == a + (i + 1) * w

ChunkAddress(a, i, w) == a + i * w

(* Memory m after the chunks with indices in I of payload were written at *)
(* a, a chunk only when its bytes lie in pages of mp (the writer fails     *)
(* otherwise and writes nothing).                                          *)
WriteChunks(m, mp, a, w, payload, I) ==
    [b \in DOMAIN m |->
        IF \E i \in I : /\ ChunkAddress(a, i, w) <= b
                         /\ b < ChunkAddress(a, i, w) + w
                         /\ RangeMapped(mp, ChunkAddress(a, i, w), w)
        THEN payload[1 + CHOOSE i \in I : /\ ChunkAddress(a, i, w) <= b
                                          /\ b < ChunkAddress(a, i, w) + w]
        ELSE m[b]]

(* The indices of the n chunks of a request.                               *)
Chunks(n) == 0 .. n - 1

(* The chunks MemoryManagerWritePhysicalMemoryNormal writes before the     *)
(* loop breaks at its first failure: those all of whose predecessors, and  *)
(* themselves, lie in backed pages.                                        *)
PhysWritten(a, w, n) ==
    {i \in Chunks(n) : \A j \in 0 .. i : RangeMapped(physMapped, ChunkAddress(a, j, w), w)}

(* The caller's buffer, ReturnSize and AddressMode before a call: an      *)
(* untouched buffer, zero, DEBUGGER_READ_ADDRESS_MODE unknown.              *)
NoBuffer == [k \in 0 .. 0 |-> CHOOSE x \in Bytes : TRUE]

-----------------------------------------------------------------------------
Init ==
    /\ mapped \in [Procs -> PageMaps]
    /\ physMapped \in PageMaps
    /\ bp \in BpTables
    /\ mem \in [Procs -> MemImages]
    /\ \A a \in DOMAIN bp : mem[Current][a] = TrapByte
    /\ phys \in MemImages
    /\ op = "none"
    /\ req = CHOOSE r \in ReadRequests \cup EditRequests : TRUE
    /\ status = "NONE"
    /\ buf = NoBuffer
    /\ past = NoBuffer[0]
    /\ returnSize = 0
    /\ addressMode = "UNKNOWN"

(* The handler that runs records its name and request.                   *)
Called(name, r) == op' = name /\ req' = r

(* The outputs of a call that copies nothing back.                        *)
NoOutput == buf' = NoBuffer /\ past' = NoBuffer[0] /\ returnSize' = 0 /\ addressMode' = "UNKNOWN"

(* A handler that fails validation reports s and touches nothing else.    *)
Reject(s) == status' = s /\ NoOutput /\ UNCHANGED <<mem, phys, env>>

(* The address mode a virtual read with GetAddressMode reports; the Wow64 *)
(* query of process p may answer 32-bit, 64-bit or fail.                   *)
SetAddressMode(r) ==
    IF r.memType = "VIRTUAL" /\ r.getAddressMode
    THEN addressMode' \in {AddressModeOf(r.address, w) : w \in {"32", "64", "FAIL"}}
    ELSE addressMode' = "UNKNOWN"

(* DebuggerCommandReadMemory: Size and Address must be non-zero; the copy *)
(* by MemoryManagerReadProcessMemoryNormal succeeds when every byte of the *)
(* range is valid in the named process (virtual) or backed (physical).     *)
ReadMemory(r) ==
    LET ok == CASE r.memType = "VIRTUAL"  -> RangeMapped(mapped[r.pid], r.address, r.size)
                [] r.memType = "PHYSICAL" -> RangeMapped(physMapped, r.address, r.size)
                [] OTHER                  -> FALSE
        src == IF r.memType = "VIRTUAL" THEN mem[r.pid] ELSE phys
    IN /\ Called("read", r)
       /\ \/ /\ r.size # 0 /\ r.address # 0 /\ ok
             /\ past' = NoBuffer[0]
             /\ buf' = RawRead(src, r.address, r.size, past')
             /\ returnSize' = r.size
             /\ SetAddressMode(r)
             /\ status' = "SUCCESS"
             /\ UNCHANGED <<mem, phys, env>>
          \/ /\ r.size = 0 \/ r.address = 0 \/ ~ok
             /\ Reject("READ_INVALID_PARAMETER")

(* DebuggerCommandReadMemoryVmxRoot: physical reads check the start        *)
(* address, virtual reads the whole range in the current process; the      *)
(* virtual copy is then unmasked against the breakpoint list.  The byte    *)
(* after the caller's buffer holds pb before the read.                     *)
ReadMemoryVmxRoot(r) ==
    /\ Called("readVmxRoot", r)
    /\ \/ /\ r.memType = "PHYSICAL"
          /\ ~CheckAddressPhysical(r.address)
          /\ Reject("INVALID_PHYSICAL_ADDRESS")
       \/ /\ r.memType = "VIRTUAL"
          /\ ~CheckAccessValidityAndSafety(mapped[Current], r.address, r.size)
          /\ Reject("INVALID_ADDRESS")
       \/ /\ r.memType = "INVALID"
          /\ Reject("MEMORY_TYPE_INVALID")
       \/ /\ r.memType = "PHYSICAL"
          /\ CheckAddressPhysical(r.address)
          /\ \E pb \in Bytes :
                /\ past' = pb
                /\ buf' = [k \in 0 .. r.size |-> IF k < r.size THEN PhysByte(r.address + k) ELSE pb]
          /\ returnSize' = r.size
          /\ addressMode' = "UNKNOWN"
          /\ status' = "SUCCESS"
          /\ UNCHANGED <<mem, phys, env>>
       \/ /\ r.memType = "VIRTUAL"
          /\ CheckAccessValidityAndSafety(mapped[Current], r.address, r.size)
          /\ \E pb \in Bytes :
                /\ past' = pb
                /\ buf' = Unshadow(RawRead(mem[Current], r.address, r.size, pb), r.address, r.size)
          /\ SetAddressMode(r)
          /\ returnSize' = r.size
          /\ status' = "SUCCESS"
          /\ UNCHANGED <<mem, phys, env>>

(* DebuggerCommandEditMemory.  Virtual: the first address must translate   *)
(* in the current process (when it is the target) and in the target; each *)
(* chunk then goes through MemoryMapperWriteMemoryUnsafe, whose result is  *)
(* not checked.  Physical: the start must be backed; the chunk loop stops  *)
(* at the first chunk MemoryManagerWritePhysicalMemoryNormal fails on.      *)
EditMemory(r) ==
    LET n == Len(r.payload)
        w == LengthOfEachChunk[r.byteSize]
    IN /\ Called("edit", r)
       /\ \/ /\ r.byteSize = "INVALID" \/ r.memType = "INVALID"
             /\ Reject("EDIT_INVALID_PARAMETER")
          \/ /\ r.byteSize # "INVALID" /\ r.memType = "VIRTUAL"
             /\ r.pid = Current /\ PageOf(r.address) \notin mapped[Current]
             /\ Reject("INVALID_ADDRESS_CURRENT")
          \/ /\ r.byteSize # "INVALID" /\ r.memType = "VIRTUAL"
             /\ ~(r.pid = Current /\ PageOf(r.address) \notin mapped[Current])
             /\ PageOf(r.address) \notin mapped[r.pid]
             /\ Reject("INVALID_ADDRESS_OTHER")
          \/ /\ r.byteSize # "INVALID" /\ r.memType = "VIRTUAL"
             /\ PageOf(r.address) \in mapped[r.pid]
             /\ mem' = [mem EXCEPT ![r.pid] = WriteChunks(@, mapped[r.pid], r.address, w, r.payload, Chunks(n))]
             /\ status' = "SUCCESS"
             /\ NoOutput /\ UNCHANGED <<phys, env>>
          \/ /\ r.byteSize # "INVALID" /\ r.memType = "PHYSICAL"
             /\ ~CheckAddressPhysical(r.address)
             /\ Reject("INVALID_ADDRESS")
          \/ /\ r.byteSize # "INVALID" /\ r.memType = "PHYSICAL"
             /\ CheckAddressPhysical(r.address)
             /\ LET I == PhysWritten(r.address, w, n)
                IN /\ phys' = WriteChunks(phys, physMapped, r.address, w, r.payload, I)
                   /\ status' = IF I = Chunks(n) THEN "SUCCESS" ELSE "INVALID_ADDRESS"
             /\ NoOutput /\ UNCHANGED <<mem, env>>

(* DebuggerCommandEditMemoryVmxRoot.  Virtual: CheckAccessValidityAndSafety *)
(* over ByteSize * CountOf64Chunks bytes (the enumeration value of the      *)
(* granularity), then MemoryMapperWriteMemorySafeOnTargetProcess per chunk. *)
(* Physical: the start must be backed, then                                 *)
(* MemoryMapperWriteMemorySafeByPhysicalAddress per chunk, unchecked.        *)
EditMemoryVmxRoot(r) ==
    LET n == Len(r.payload)
        w == LengthOfEachChunk[r.byteSize]
    IN /\ Called("editVmxRoot", r)
       /\ \/ /\ r.byteSize = "INVALID" \/ r.memType = "INVALID"
             /\ Reject("EDIT_INVALID_PARAMETER")
          \/ /\ r.byteSize # "INVALID" /\ r.memType = "VIRTUAL"
             /\ ~CheckAccessValidityAndSafety(mapped[Current], r.address, EditEnum[r.byteSize] * n)
             /\ Reject("INVALID_ADDRESS")
          \/ /\ r.byteSize # "INVALID" /\ r.memType = "VIRTUAL"
             /\ CheckAccessValidityAndSafety(mapped[Current], r.address, EditEnum[r.byteSize] * n)
             /\ mem' = [mem EXCEPT ![Current] = WriteChunks(@, mapped[Current], r.address, w, r.payload, Chunks(n))]
             /\ status' = "SUCCESS"
             /\ NoOutput /\ UNCHANGED <<phys, env>>
          \/ /\ r.byteSize # "INVALID" /\ r.memType = "PHYSICAL"
             /\ ~CheckAddressPhysical(r.address)
             /\ Reject("INVALID_ADDRESS")
          \/ /\ r.byteSize # "INVALID" /\ r.memType = "PHYSICAL"
             /\ CheckAddressPhysical(r.address)
             /\ phys' = WriteChunks(phys, physMapped, r.address, w, r.payload, Chunks(n))
             /\ status' = "SUCCESS"
             /\ NoOutput /\ UNCHANGED <<mem, env>>

Next ==
    \/ \E r \in ReadRequests : ReadMemory(r) \/ ReadMemoryVmxRoot(r)
    \/ \E r \in EditRequests : EditMemory(r) \/ EditMemoryVmxRoot(r)

Spec == Init /\ [][Next]_vars

-----------------------------------------------------------------------------
(* Type invariant.                                                         *)
TypeOK ==
    /\ mem \in [Procs -> [Addr -> Bytes]]
    /\ phys \in [Addr -> Bytes]
    /\ mapped \in [Procs -> SUBSET Pages]
    /\ physMapped \in SUBSET Pages
    /\ op \in {"none", "read", "readVmxRoot", "edit", "editVmxRoot"}
    /\ req \in ReadRequests \cup EditRequests
    /\ status \in Statuses
    /\ \E s \in ReadSizes \cup {0} : buf \in [0 .. s -> Bytes]
    /\ past \in Bytes
    /\ returnSize \in Nat
    /\ addressMode \in {"UNKNOWN", "32", "64"}

(* The byte the debuggee would hold at a in the current process with every *)
(* breakpoint removed.                                                     *)
Original(a) ==
    IF a \in DOMAIN bp /\ mem[Current][a] = TrapByte THEN bp[a] ELSE mem[Current][a]

(* The address-space or physical memory an edit request writes, and the    *)
(* bytes it names: CountOf64Chunks chunks of LengthOfEachChunk bytes.      *)
EditTarget(o, r) ==
    IF r.memType = "PHYSICAL" THEN phys
    ELSE IF o = "edit" THEN mem[r.pid] ELSE mem[Current]

EditSpan(r) == r.address .. r.address + LengthOfEachChunk[r.byteSize] * Len(r.payload) - 1

(* Breakpoint masking (DebuggerCommandReadMemoryVmxRoot with the loop over *)
(* g_BreakpointsListHead): after a successful VMX-root virtual read, every *)
(* byte of the caller's buffer holds the debuggee's original byte, with    *)
(* each breakpoint's 0xCC replaced by its PreviousByte.                     *)
ReadUnshadowed ==
    (op = "readVmxRoot" /\ status = "SUCCESS" /\ req.memType = "VIRTUAL") =>
        \A k \in 0 .. req.size - 1 : buf[k] = Original(req.address + k)

(* The unmasking loop of DebuggerCommandReadMemoryVmxRoot writes only      *)
(* inside the Size bytes it read: the byte after the caller's buffer is    *)
(* left as it was.                                                         *)
BufferTailUntouched ==
    (op = "readVmxRoot" /\ status = "SUCCESS") => buf[req.size] = past

(* The chunk loops of both edit handlers change only the bytes the request *)
(* names, and only in the space it targets: a step changes a byte of a     *)
(* process's memory or of physical memory only when it is an edit of that  *)
(* space and the byte lies in [Address, Address + size * count).           *)
EditStaysInRange ==
    [][ /\ \A p \in Procs, b \in Addr :
             mem'[p][b] # mem[p][b] =>
                /\ op' \in {"edit", "editVmxRoot"} /\ req'.memType = "VIRTUAL"
                /\ p = IF op' = "edit" THEN req'.pid ELSE Current
                /\ b \in EditSpan(req')
        /\ \A b \in Addr :
             phys'[b] # phys[b] =>
                /\ op' \in {"edit", "editVmxRoot"} /\ req'.memType = "PHYSICAL"
                /\ b \in EditSpan(req')
      ]_vars

(* An edit that reports success has written every chunk: each byte the    *)
(* request names holds its chunk's value in the targeted space.            *)
EditSuccessWritten ==
    (op \in {"edit", "editVmxRoot"} /\ status = "SUCCESS") =>
        \A i \in 0 .. Len(req.payload) - 1 :
            \A b \in ChunkAddress(req.address, i, LengthOfEachChunk[req.byteSize])
                     .. ChunkAddress(req.address, i, LengthOfEachChunk[req.byteSize])
                        + LengthOfEachChunk[req.byteSize] - 1 :
                b \in Addr /\ EditTarget(op, req)[b] = req.payload[i + 1]

(* The VMX-root virtual edit validates the full range it writes (size of   *)
(* the granularity times the chunk count) before writing: a successful one *)
(* wrote only pages that are present.                                      *)
EditRootRangeChecked ==
    (op = "editVmxRoot" /\ status = "SUCCESS" /\ req.memType = "VIRTUAL") =>
        RangeMapped(mapped[Current], req.address,
                    LengthOfEachChunk[req.byteSize] * Len(req.payload))
=============================================================================
