----------------------- MODULE MemoryCommandsProofs -------------------------
(***************************************************************************)
(* Proofs about the Memory Command Engine model.  Every handler is one     *)
(* step that resets the outputs of the previous call, so the properties    *)
(* about a call's outputs are established by the step of that call.  What  *)
(* the steps need is that the breakpoint table is the one the debuggee     *)
(* started with and that every byte a successful read copies lies in the  *)
(* address space: IInv adds the first; the lemmas below give the second.  *)
(***************************************************************************)
EXTENDS MemoryCommands, TLAPS

IInv ==
    /\ TypeOK
    /\ bp \in BpTables
    /\ ReadUnshadowed

-----------------------------------------------------------------------------
(* Lemmas about the operators the model is built from.                    *)

LEMMA PageSizePos == PageSize \in Nat \ {0} /\ NumPages \in Nat \ {0}
BY PageAssumption

(* A byte whose page is one of the model's pages is an address.          *)
LEMMA PageInAddr ==
    ASSUME NEW b \in Nat, PageOf(b) \in Pages
    PROVE  b \in Addr
<1> DEFINE q == b \div PageSize
           r == b % PageSize
<1>1. b = PageSize * q + r /\ r \in 0 .. PageSize - 1 /\ q \in Nat
  BY PageSizePos, Z3
<1>2. q \in 1 .. NumPages
  BY DEF PageOf, Pages
<1>3. PageSize * q >= PageSize /\ PageSize * q <= PageSize * NumPages
  BY <1>1, <1>2, PageSizePos, Z3
<1>. QED
  BY <1>1, <1>3, PageSizePos, Z3 DEF Addr

(* The bytes of a range whose pages are all in a set of the model's pages *)
(* are addresses.                                                          *)
LEMMA RangeInAddr ==
    ASSUME NEW mp \in SUBSET Pages, NEW a \in Nat, NEW n \in Nat, RangeMapped(mp, a, n)
    PROVE  \A k \in 0 .. n - 1 : a + k \in Addr
BY PageInAddr DEF RangeMapped

LEMMA ReadFields ==
    ASSUME NEW r \in ReadRequests
    PROVE  /\ r.pid \in Procs /\ r.address \in Nat /\ r.size \in Nat /\ r.size \in ReadSizes
           /\ r.memType \in MemTypes /\ r.getAddressMode \in BOOLEAN
BY RequestAssumption DEF ReadRequests

LEMMA EditFields ==
    ASSUME NEW r \in EditRequests
    PROVE  /\ r.pid \in Procs /\ r.address \in Nat
           /\ r.byteSize \in EditSizes /\ r.memType \in MemTypes
           /\ r.payload \in Seq(PayloadBytes)
           /\ Len(r.payload) \in Nat
           /\ \A i \in 1 .. Len(r.payload) : r.payload[i] \in PayloadBytes
<1>1. PICK n \in 0 .. MaxChunks :
          r \in [pid : Procs, address : EditAddresses, byteSize : EditSizes,
                 memType : MemTypes, payload : [1 .. n -> PayloadBytes]]
  BY DEF EditRequests
<1>2. n \in Nat /\ r.payload \in [1 .. n -> PayloadBytes]
  BY <1>1, RequestAssumption
<1>3. r.payload \in Seq(PayloadBytes) /\ Len(r.payload) = n
  BY <1>2
<1>. QED
  BY <1>1, <1>2, <1>3, RequestAssumption

LEMMA WidthNat ==
    ASSUME NEW b \in {"BYTE", "DWORD", "QWORD"}
    PROVE  LengthOfEachChunk[b] \in {1, 4, 8}
BY DEF LengthOfEachChunk

(* The chunk writer stores payload bytes only.                             *)
LEMMA WriteChunksType ==
    ASSUME NEW m \in [Addr -> Bytes], NEW mp, NEW a, NEW w,
           NEW payload, NEW I, NEW n \in Nat, I \subseteq 0 .. n - 1,
           \A i \in 1 .. n : payload[i] \in Bytes
    PROVE  WriteChunks(m, mp, a, w, payload, I) \in [Addr -> Bytes]
<1> SUFFICES ASSUME NEW b \in Addr
             PROVE  WriteChunks(m, mp, a, w, payload, I)[b] \in Bytes
  BY DEF WriteChunks
<1>1. CASE \E i \in I : /\ ChunkAddress(a, i, w) <= b
                       /\ b < ChunkAddress(a, i, w) + w
                       /\ RangeMapped(mp, ChunkAddress(a, i, w), w)
  <2> DEFINE j == CHOOSE i \in I : /\ ChunkAddress(a, i, w) <= b
                                   /\ b < ChunkAddress(a, i, w) + w
  <2>1. j \in I
    BY <1>1
  <2>2. j \in 0 .. n - 1
    BY <2>1, Zenon
  <2>3. 1 + j \in 1 .. n
    BY <2>2
  <2>. QED
    BY <1>1, <2>3 DEF WriteChunks
<1>2. CASE ~\E i \in I : /\ ChunkAddress(a, i, w) <= b
                        /\ b < ChunkAddress(a, i, w) + w
                        /\ RangeMapped(mp, ChunkAddress(a, i, w), w)
  BY <1>2 DEF WriteChunks
<1>. QED
  BY <1>1, <1>2

(* The chunk writer changes only bytes inside one of the chunks in I, so   *)
(* only bytes in [a, a + w * n).                                           *)
LEMMA WriteChunksFrame ==
    ASSUME NEW m \in [Addr -> Bytes], NEW mp, NEW a \in Nat, NEW w \in Nat,
           NEW payload, NEW I, NEW n \in Nat, I \subseteq 0 .. n - 1,
           NEW b \in Addr, WriteChunks(m, mp, a, w, payload, I)[b] # m[b]
    PROVE  b \in a .. a + w * n - 1
<1>1. PICK i \in I : /\ ChunkAddress(a, i, w) <= b
                     /\ b < ChunkAddress(a, i, w) + w
  BY DEF WriteChunks
<1>2. i \in 0 .. n - 1 /\ b \in Nat
  BY PageSizePos DEF Addr
<1>3. i * w + w <= n * w
  BY <1>2, Z3
<1>. QED
  BY <1>1, <1>2, <1>3, Z3 DEF ChunkAddress

LEMMA RequestsNonEmpty == ReadRequests \cup EditRequests # {}
<1>1. CASE ReadAddresses # {}
  <2>1. PICK a \in ReadAddresses : TRUE
    BY <1>1
  <2>2. PICK s \in ReadSizes : TRUE
    BY <1>1, RequestAssumption
  <2>3. [pid |-> Current, address |-> a, size |-> s, memType |-> "VIRTUAL", getAddressMode |-> FALSE]
          \in ReadRequests
    BY <2>1, <2>2, ProcsAssumption DEF ReadRequests, MemTypes
  <2>. QED
    BY <2>3
<1>2. CASE EditAddresses # {}
  <2>1. PICK a \in EditAddresses : TRUE
    BY <1>2
  <2> DEFINE e == [pid |-> Current, address |-> a, byteSize |-> "BYTE", memType |-> "VIRTUAL",
                  payload |-> [i \in 1 .. 0 |-> Unbacked]]
  <2>2. e \in [pid : Procs, address : EditAddresses, byteSize : EditSizes, memType : MemTypes,
               payload : [1 .. 0 -> PayloadBytes]]
    BY <2>1, ProcsAssumption DEF EditSizes, MemTypes
  <2>3. 0 \in 0 .. MaxChunks
    BY RequestAssumption
  <2>4. \E n \in 0 .. MaxChunks :
           e \in [pid : Procs, address : EditAddresses, byteSize : EditSizes, memType : MemTypes,
                  payload : [1 .. n -> PayloadBytes]]
    BY <2>2, <2>3
  <2>5. e \in EditRequests
    BY <2>4, Zenon DEF EditRequests
  <2>. QED
    BY <2>5
<1>. QED
  BY <1>1, <1>2, RequestAssumption

LEMMA NoBufferType == NoBuffer \in [0 .. 0 -> Bytes] /\ NoBuffer[0] \in Bytes
BY ByteAssumption DEF NoBuffer

LEMMA InitIInv == Init => IInv
<1> SUFFICES ASSUME Init PROVE IInv
  OBVIOUS
<1>1. mem \in [Procs -> [Addr -> Bytes]] /\ phys \in [Addr -> Bytes]
  BY ImageAssumption DEF Init
<1>2. req \in ReadRequests \cup EditRequests
  BY RequestsNonEmpty DEF Init
<1>3. \E s \in ReadSizes \cup {0} : buf \in [0 .. s -> Bytes]
  BY NoBufferType DEF Init
<1>. QED
  BY <1>1, <1>2, <1>3, NoBufferType, ImageAssumption
     DEF Init, IInv, TypeOK, Statuses, ReadUnshadowed

-----------------------------------------------------------------------------
(* A rejected call reports a failure and leaves memory and outputs reset.  *)
LEMMA RejectIInv ==
    ASSUME IInv, NEW st \in Statuses \ {"SUCCESS"}, Reject(st),
           op' \in {"none", "read", "readVmxRoot", "edit", "editVmxRoot"},
           req' \in ReadRequests \cup EditRequests
    PROVE  IInv'
BY NoBufferType DEF IInv, TypeOK, Reject, NoOutput, env, ReadUnshadowed

(* The address modes a read may report.                                    *)
LEMMA AddressModeType ==
    ASSUME NEW r \in ReadRequests, SetAddressMode(r)
    PROVE  addressMode' \in {"UNKNOWN", "32", "64"}
BY DEF SetAddressMode, AddressModeOf

(* The copy of n bytes at a from memory m, all of them in the model's      *)
(* address space, is a buffer of the caller's size.                        *)
LEMMA RawReadType ==
    ASSUME NEW m \in [Addr -> Bytes], NEW a \in Nat, NEW n \in Nat, NEW pb \in Bytes,
           \A k \in 0 .. n - 1 : a + k \in Addr
    PROVE  RawRead(m, a, n, pb) \in [0 .. n -> Bytes]
BY DEF RawRead

LEMMA ReadMemoryIInv ==
    ASSUME IInv, NEW r \in ReadRequests, ReadMemory(r)
    PROVE  IInv'
<1>. USE ReadFields
<1>0. TypeOK /\ bp \in BpTables
  BY DEF IInv
<1>1. op' = "read" /\ req' = r
  BY DEF ReadMemory, Called
<1>2. CASE r.size # 0 /\ r.address # 0 /\
           CASE r.memType = "VIRTUAL"  -> RangeMapped(mapped[r.pid], r.address, r.size)
             [] r.memType = "PHYSICAL" -> RangeMapped(physMapped, r.address, r.size)
             [] OTHER                  -> FALSE
  <2> DEFINE src == IF r.memType = "VIRTUAL" THEN mem[r.pid] ELSE phys
  <2>1. r.memType \in {"VIRTUAL", "PHYSICAL"}
    BY <1>2 DEF MemTypes
  <2>2. src \in [Addr -> Bytes] /\ \A k \in 0 .. r.size - 1 : r.address + k \in Addr
    <3>1. CASE r.memType = "VIRTUAL"
      BY <3>1, <1>2, <1>0, RangeInAddr DEF TypeOK
    <3>2. CASE r.memType = "PHYSICAL"
      BY <3>2, <1>2, <1>0, RangeInAddr DEF TypeOK
    <3>. QED
      BY <2>1, <3>1, <3>2
  <2>3. /\ past' = NoBuffer[0]
        /\ buf' = RawRead(src, r.address, r.size, past')
        /\ returnSize' = r.size /\ SetAddressMode(r) /\ status' = "SUCCESS"
        /\ UNCHANGED <<mem, phys, env>>
    BY <1>2 DEF ReadMemory
  <2>4. buf' \in [0 .. r.size -> Bytes]
    BY <2>2, <2>3, NoBufferType, RawReadType
  <2>. QED
    BY <1>0, <1>1, <2>3, <2>4, NoBufferType, AddressModeType
       DEF IInv, TypeOK, Statuses, env, ReadUnshadowed
<1>3. CASE ~(r.size # 0 /\ r.address # 0 /\
             CASE r.memType = "VIRTUAL"  -> RangeMapped(mapped[r.pid], r.address, r.size)
               [] r.memType = "PHYSICAL" -> RangeMapped(physMapped, r.address, r.size)
               [] OTHER                  -> FALSE)
  <2>1. Reject("READ_INVALID_PARAMETER")
    BY <1>3 DEF ReadMemory
  <2>. QED
    BY <2>1, <1>1, RejectIInv DEF Statuses
<1>. QED
  BY <1>2, <1>3

(* The validity check of a VMX-root read covers every byte the copy reads. *)
LEMMA CheckedInAddr ==
    ASSUME NEW mp \in SUBSET Pages, NEW a \in Nat, NEW s \in Nat,
           CheckAccessValidityAndSafety(mp, a, s)
    PROVE  \A k \in 0 .. s - 1 : a + k \in Addr
<1>1. \A k \in 0 .. (IF s = 0 THEN 1 ELSE s) - 1 : a + k \in Addr
  BY RangeInAddr DEF CheckAccessValidityAndSafety
<1>. QED
  BY <1>1

(* Unmasking keeps a buffer of bytes a buffer of bytes.                    *)
LEMMA UnshadowType ==
    ASSUME bp \in BpTables, NEW s \in Nat, NEW a \in Nat, NEW u \in [0 .. s -> Bytes]
    PROVE  Unshadow(u, a, s) \in [0 .. s -> Bytes]
BY BpAssumption DEF Unshadow

LEMMA ReadMemoryVmxRootIInv ==
    ASSUME IInv, NEW r \in ReadRequests, ReadMemoryVmxRoot(r)
    PROVE  IInv'
<1>. USE ReadFields
<1>0. TypeOK /\ bp \in BpTables
  BY DEF IInv
<1>1. op' = "readVmxRoot" /\ req' = r
  BY DEF ReadMemoryVmxRoot, Called
<1>2. CASE /\ r.memType = "PHYSICAL"
           /\ ~CheckAddressPhysical(r.address)
           /\ Reject("INVALID_PHYSICAL_ADDRESS")
  BY <1>2, <1>1, RejectIInv DEF Statuses
<1>3. CASE /\ r.memType = "VIRTUAL"
           /\ ~CheckAccessValidityAndSafety(mapped[Current], r.address, r.size)
           /\ Reject("INVALID_ADDRESS")
  BY <1>3, <1>1, RejectIInv DEF Statuses
<1>4. CASE r.memType = "INVALID" /\ Reject("MEMORY_TYPE_INVALID")
  BY <1>4, <1>1, RejectIInv DEF Statuses
<1>5. CASE /\ r.memType = "PHYSICAL"
           /\ CheckAddressPhysical(r.address)
           /\ \E pb \in Bytes :
                 /\ past' = pb
                 /\ buf' = [k \in 0 .. r.size |-> IF k < r.size THEN PhysByte(r.address + k) ELSE pb]
           /\ returnSize' = r.size
           /\ addressMode' = "UNKNOWN"
           /\ status' = "SUCCESS"
           /\ UNCHANGED <<mem, phys, env>>
  <2>1. PICK pb \in Bytes :
           /\ past' = pb
           /\ buf' = [k \in 0 .. r.size |-> IF k < r.size THEN PhysByte(r.address + k) ELSE pb]
    BY <1>5
  <2>2. \A k \in 0 .. r.size - 1 : PhysByte(r.address + k) \in Bytes
    <3> TAKE k \in 0 .. r.size - 1
    <3>1. CASE PageOf(r.address + k) \in physMapped
      <4>1. r.address + k \in Addr
        BY <3>1, <1>0, PageInAddr DEF TypeOK
      <4>. QED
        BY <4>1, <3>1, <1>0 DEF PhysByte, TypeOK
    <3>2. CASE PageOf(r.address + k) \notin physMapped
      BY <3>2, ByteAssumption DEF PhysByte
    <3>. QED
      BY <3>1, <3>2
  <2>3. buf' \in [0 .. r.size -> Bytes]
    BY <2>1, <2>2
  <2>. QED
    BY <1>0, <1>1, <1>5, <2>1, <2>3 DEF IInv, TypeOK, Statuses, env, ReadUnshadowed
<1>6. CASE /\ r.memType = "VIRTUAL"
           /\ CheckAccessValidityAndSafety(mapped[Current], r.address, r.size)
           /\ \E pb \in Bytes :
                 /\ past' = pb
                 /\ buf' = Unshadow(RawRead(mem[Current], r.address, r.size, pb), r.address, r.size)
           /\ SetAddressMode(r)
           /\ returnSize' = r.size
           /\ status' = "SUCCESS"
           /\ UNCHANGED <<mem, phys, env>>
  <2>1. PICK pb \in Bytes :
           /\ past' = pb
           /\ buf' = Unshadow(RawRead(mem[Current], r.address, r.size, pb), r.address, r.size)
    BY <1>6
  <2>2. \A k \in 0 .. r.size - 1 : r.address + k \in Addr
    BY <1>6, <1>0, ProcsAssumption, CheckedInAddr DEF TypeOK
  <2>3. RawRead(mem[Current], r.address, r.size, pb) \in [0 .. r.size -> Bytes]
    BY <2>2, <1>0, ProcsAssumption, RawReadType DEF TypeOK
  <2>4. buf' \in [0 .. r.size -> Bytes]
    BY <2>1, <2>3, <1>0, UnshadowType
  <2>5. \A k \in 0 .. r.size - 1 : buf'[k] = Original(r.address + k)
    <3>1. mem \in [Procs -> [Addr -> Bytes]]
      BY <1>0 DEF TypeOK
    <3>2. \A k \in 0 .. r.size - 1 :
            Unshadow(RawRead(mem[Current], r.address, r.size, pb), r.address, r.size)[k]
              = Original(r.address + k)
      BY <3>1, <2>2, ProcsAssumption DEF Unshadow, RawRead, InBpWindow, Original
    <3>. QED
      BY <3>2, <2>1
  <2>6. ReadUnshadowed'
    BY <2>5, <1>1, <1>6 DEF ReadUnshadowed, Original, env
  <2>. QED
    BY <1>0, <1>1, <1>6, <2>1, <2>4, <2>6, AddressModeType DEF IInv, TypeOK, Statuses, env
<1>. QED
  BY <1>2, <1>3, <1>4, <1>5, <1>6 DEF ReadMemoryVmxRoot

(* An edit copies nothing back: after it the invariant holds whenever the *)
(* memories it wrote are still images of bytes.                            *)
LEMMA EditOutputIInv ==
    ASSUME IInv, NEW r \in EditRequests,
           op' \in {"edit", "editVmxRoot"}, req' = r, status' \in Statuses,
           NoOutput, UNCHANGED env,
           mem' \in [Procs -> [Addr -> Bytes]], phys' \in [Addr -> Bytes]
    PROVE  IInv'
BY NoBufferType DEF IInv, TypeOK, NoOutput, env, ReadUnshadowed

(* The payload of an edit request is n bytes.                              *)
LEMMA PayloadBytesOf ==
    ASSUME NEW r \in EditRequests
    PROVE  /\ Len(r.payload) \in Nat
           /\ \A i \in 1 .. Len(r.payload) : r.payload[i] \in Bytes
BY EditFields, ByteAssumption

(* Writing the chunks of an edit into one process's memory keeps memory a *)
(* map from processes to byte images.                                      *)
LEMMA WriteProcType ==
    ASSUME mem \in [Procs -> [Addr -> Bytes]], NEW r \in EditRequests,
           NEW p \in Procs, NEW mp, NEW I, I \subseteq Chunks(Len(r.payload))
    PROVE  [mem EXCEPT ![p] = WriteChunks(@, mp, r.address, LengthOfEachChunk[r.byteSize],
                                          r.payload, I)]
              \in [Procs -> [Addr -> Bytes]]
<1>1. WriteChunks(mem[p], mp, r.address, LengthOfEachChunk[r.byteSize], r.payload, I)
        \in [Addr -> Bytes]
  BY PayloadBytesOf, WriteChunksType DEF Chunks
<1>. QED
  BY <1>1

LEMMA EditMemoryIInv ==
    ASSUME IInv, NEW r \in EditRequests, EditMemory(r)
    PROVE  IInv'
<1> DEFINE n == Len(r.payload)
           w == LengthOfEachChunk[r.byteSize]
<1>. USE EditFields
<1>0. TypeOK /\ bp \in BpTables
  BY DEF IInv
<1>1. op' = "edit" /\ req' = r
  BY DEF EditMemory, Called
<1>2. CASE \E st \in Statuses \ {"SUCCESS"} : Reject(st)
  BY <1>2, <1>1, RejectIInv
<1>3. CASE /\ r.memType = "VIRTUAL"
           /\ mem' = [mem EXCEPT ![r.pid] = WriteChunks(@, mapped[r.pid], r.address, w, r.payload, Chunks(n))]
           /\ status' = "SUCCESS"
           /\ NoOutput /\ UNCHANGED <<phys, env>>
  <2>1. mem' \in [Procs -> [Addr -> Bytes]]
    BY <1>3, <1>0, WriteProcType DEF TypeOK
  <2>. QED
    BY <2>1, <1>0, <1>1, <1>3, EditOutputIInv DEF TypeOK, Statuses
<1>4. CASE /\ r.memType = "PHYSICAL"
           /\ LET I == PhysWritten(r.address, w, n)
              IN /\ phys' = WriteChunks(phys, physMapped, r.address, w, r.payload, I)
                 /\ status' = IF I = Chunks(n) THEN "SUCCESS" ELSE "INVALID_ADDRESS"
           /\ NoOutput /\ UNCHANGED <<mem, env>>
  <2>1. PhysWritten(r.address, w, n) \subseteq 0 .. n - 1
    BY DEF PhysWritten, Chunks
  <2>2. phys' \in [Addr -> Bytes]
    BY <2>1, <1>4, <1>0, PayloadBytesOf, WriteChunksType DEF TypeOK
  <2>3. status' \in Statuses
    BY <1>4 DEF Statuses
  <2>. QED
    BY <2>2, <2>3, <1>0, <1>1, <1>4, EditOutputIInv DEF TypeOK
<1>. QED
  BY <1>2, <1>3, <1>4 DEF EditMemory, Statuses

LEMMA EditMemoryVmxRootIInv ==
    ASSUME IInv, NEW r \in EditRequests, EditMemoryVmxRoot(r)
    PROVE  IInv'
<1> DEFINE n == Len(r.payload)
           w == LengthOfEachChunk[r.byteSize]
<1>. USE EditFields
<1>0. TypeOK /\ bp \in BpTables
  BY DEF IInv
<1>1. op' = "editVmxRoot" /\ req' = r
  BY DEF EditMemoryVmxRoot, Called
<1>2. CASE \E st \in Statuses \ {"SUCCESS"} : Reject(st)
  BY <1>2, <1>1, RejectIInv
<1>3. CASE /\ mem' = [mem EXCEPT ![Current] = WriteChunks(@, mapped[Current], r.address, w, r.payload, Chunks(n))]
           /\ status' = "SUCCESS"
           /\ NoOutput /\ UNCHANGED <<phys, env>>
  <2>1. mem' \in [Procs -> [Addr -> Bytes]]
    BY <1>3, <1>0, ProcsAssumption, WriteProcType DEF TypeOK
  <2>. QED
    BY <2>1, <1>0, <1>1, <1>3, EditOutputIInv DEF TypeOK, Statuses
<1>4. CASE /\ phys' = WriteChunks(phys, physMapped, r.address, w, r.payload, Chunks(n))
           /\ status' = "SUCCESS"
           /\ NoOutput /\ UNCHANGED <<mem, env>>
  <2>2. phys' \in [Addr -> Bytes]
    BY <1>4, <1>0, PayloadBytesOf, WriteChunksType DEF TypeOK, Chunks
  <2>. QED
    BY <2>2, <1>0, <1>1, <1>4, EditOutputIInv DEF TypeOK, Statuses
<1>. QED
  BY <1>2, <1>3, <1>4 DEF EditMemoryVmxRoot, Statuses

LEMMA NextIInv == IInv /\ [Next]_vars => IInv'
<1> SUFFICES ASSUME IInv, [Next]_vars PROVE IInv'
  OBVIOUS
<1>1. CASE \E r \in ReadRequests : ReadMemory(r)
  BY <1>1, ReadMemoryIInv
<1>2. CASE \E r \in ReadRequests : ReadMemoryVmxRoot(r)
  BY <1>2, ReadMemoryVmxRootIInv
<1>3. CASE \E r \in EditRequests : EditMemory(r)
  BY <1>3, EditMemoryIInv
<1>4. CASE \E r \in EditRequests : EditMemoryVmxRoot(r)
  BY <1>4, EditMemoryVmxRootIInv
<1>5. CASE UNCHANGED vars
  BY <1>5 DEF IInv, TypeOK, ReadUnshadowed, Original, vars, env, out
<1>. QED
  BY <1>1, <1>2, <1>3, <1>4, <1>5 DEF Next

(* IInv holds in every reachable state of the four handlers.               *)
THEOREM Invariant == Spec => []IInv
BY InitIInv, NextIInv, PTL DEF Spec

(* Every handler leaves the process images, physical memory, the caller's *)
(* buffer and the reported status and sizes well-typed.                     *)
THEOREM TypeCorrect == Spec => []TypeOK
BY Invariant, PTL DEF IInv

(* Breakpoint masking in DebuggerCommandReadMemoryVmxRoot: for every page   *)
(* layout, breakpoint list and request, a successful VMX-root virtual read  *)
(* returns the original bytes, never a breakpoint's 0xCC.                   *)
THEOREM ReadUnshadowedHolds == Spec => []ReadUnshadowed
BY Invariant, PTL DEF IInv

-----------------------------------------------------------------------------
(* The step relation EditStaysInRange constrains.                          *)
InRangeStep ==
    /\ \A p \in Procs, b \in Addr :
         mem'[p][b] # mem[p][b] =>
            /\ op' \in {"edit", "editVmxRoot"} /\ req'.memType = "VIRTUAL"
            /\ p = IF op' = "edit" THEN req'.pid ELSE Current
            /\ b \in EditSpan(req')
    /\ \A b \in Addr :
         phys'[b] # phys[b] =>
            /\ op' \in {"edit", "editVmxRoot"} /\ req'.memType = "PHYSICAL"
            /\ b \in EditSpan(req')

(* A chunk write changes a byte only inside the request's span.            *)
LEMMA WriteInSpan ==
    ASSUME NEW r \in EditRequests, r.byteSize # "INVALID",
           NEW m \in [Addr -> Bytes], NEW mp, NEW I, I \subseteq Chunks(Len(r.payload)),
           NEW b \in Addr,
           WriteChunks(m, mp, r.address, LengthOfEachChunk[r.byteSize], r.payload, I)[b] # m[b]
    PROVE  b \in EditSpan(r)
<1>1. PICK w \in Nat : w = LengthOfEachChunk[r.byteSize]
  BY EditFields, WidthNat DEF EditSizes
<1>2. PICK n \in Nat : n = Len(r.payload)
  BY EditFields
<1>3. r.address \in Nat /\ I \subseteq 0 .. n - 1
  BY <1>2, EditFields DEF Chunks
<1>4. b \in r.address .. r.address + w * n - 1
  BY <1>1, <1>2, <1>3, WriteChunksFrame
<1>. QED
  BY <1>1, <1>2, <1>4 DEF EditSpan

(* A step that writes no memory satisfies InRangeStep.                      *)
LEMMA NoWriteInRange ==
    ASSUME UNCHANGED <<mem, phys>>
    PROVE  InRangeStep
BY DEF InRangeStep

LEMMA EditMemoryInRange ==
    ASSUME IInv, NEW r \in EditRequests, EditMemory(r)
    PROVE  InRangeStep
<1> DEFINE n == Len(r.payload)
           w == LengthOfEachChunk[r.byteSize]
<1>. USE EditFields
<1>0. mem \in [Procs -> [Addr -> Bytes]] /\ phys \in [Addr -> Bytes]
  BY DEF IInv, TypeOK
<1>1. op' = "edit" /\ req' = r
  BY DEF EditMemory, Called
<1>2. CASE \E st \in Statuses : Reject(st)
  BY <1>2, NoWriteInRange DEF Reject
<1>3. CASE /\ r.byteSize # "INVALID" /\ r.memType = "VIRTUAL"
           /\ mem' = [mem EXCEPT ![r.pid] = WriteChunks(@, mapped[r.pid], r.address, w, r.payload, Chunks(n))]
           /\ UNCHANGED phys
  <2>1. ASSUME NEW p \in Procs, NEW b \in Addr, mem'[p][b] # mem[p][b]
        PROVE  p = r.pid /\ b \in EditSpan(r)
    <3>1. p = r.pid
      BY <2>1, <1>3, <1>0
    <3>2. WriteChunks(mem[r.pid], mapped[r.pid], r.address, w, r.payload, Chunks(n))[b] # mem[r.pid][b]
      BY <2>1, <3>1, <1>3, <1>0
    <3>3. PICK m \in [Addr -> Bytes] : m = mem[r.pid]
      BY <1>0
    <3>4. WriteChunks(m, mapped[r.pid], r.address, LengthOfEachChunk[r.byteSize], r.payload,
                      Chunks(Len(r.payload)))[b] # m[b]
      BY <3>2, <3>3
    <3>5. b \in EditSpan(r)
      BY <3>4, <1>3, WriteInSpan
    <3>. QED
      BY <3>1, <3>5
  <2>. QED
    BY <2>1, <1>1, <1>3 DEF InRangeStep
<1>4. CASE /\ r.byteSize # "INVALID" /\ r.memType = "PHYSICAL"
           /\ phys' = WriteChunks(phys, physMapped, r.address, w, r.payload, PhysWritten(r.address, w, n))
           /\ UNCHANGED mem
  <2>1. PhysWritten(r.address, w, n) \subseteq Chunks(n)
    BY DEF PhysWritten
  <2>2. ASSUME NEW b \in Addr, phys'[b] # phys[b]
        PROVE  b \in EditSpan(r)
    BY <2>1, <2>2, <1>0, <1>4, WriteInSpan
  <2>. QED
    BY <2>2, <1>1, <1>4 DEF InRangeStep
<1>. QED
  BY <1>2, <1>3, <1>4 DEF EditMemory, Statuses

LEMMA EditMemoryVmxRootInRange ==
    ASSUME IInv, NEW r \in EditRequests, EditMemoryVmxRoot(r)
    PROVE  InRangeStep
<1> DEFINE n == Len(r.payload)
           w == LengthOfEachChunk[r.byteSize]
<1>. USE EditFields
<1>0. mem \in [Procs -> [Addr -> Bytes]] /\ phys \in [Addr -> Bytes]
  BY DEF IInv, TypeOK
<1>1. op' = "editVmxRoot" /\ req' = r
  BY DEF EditMemoryVmxRoot, Called
<1>2. CASE \E st \in Statuses : Reject(st)
  BY <1>2, NoWriteInRange DEF Reject
<1>3. CASE /\ r.byteSize # "INVALID" /\ r.memType = "VIRTUAL"
           /\ mem' = [mem EXCEPT ![Current] = WriteChunks(@, mapped[Current], r.address, w, r.payload, Chunks(n))]
           /\ UNCHANGED phys
  <2>1. ASSUME NEW p \in Procs, NEW b \in Addr, mem'[p][b] # mem[p][b]
        PROVE  p = Current /\ b \in EditSpan(r)
    <3>1. p = Current
      BY <2>1, <1>3, <1>0, ProcsAssumption
    <3>2. WriteChunks(mem[Current], mapped[Current], r.address, w, r.payload, Chunks(n))[b] # mem[Current][b]
      BY <2>1, <3>1, <1>3, <1>0, ProcsAssumption
    <3>3. PICK m \in [Addr -> Bytes] : m = mem[Current]
      BY <1>0, ProcsAssumption
    <3>4. WriteChunks(m, mapped[Current], r.address, LengthOfEachChunk[r.byteSize], r.payload,
                      Chunks(Len(r.payload)))[b] # m[b]
      BY <3>2, <3>3
    <3>5. b \in EditSpan(r)
      BY <3>4, <1>3, WriteInSpan
    <3>. QED
      BY <3>1, <3>5
  <2>. QED
    BY <2>1, <1>1, <1>3 DEF InRangeStep
<1>4. CASE /\ r.byteSize # "INVALID" /\ r.memType = "PHYSICAL"
           /\ phys' = WriteChunks(phys, physMapped, r.address, w, r.payload, Chunks(n))
           /\ UNCHANGED mem
  <2>1. ASSUME NEW b \in Addr, phys'[b] # phys[b]
        PROVE  b \in EditSpan(r)
    BY <2>1, <1>0, <1>4, WriteInSpan
  <2>. QED
    BY <2>1, <1>1, <1>4 DEF InRangeStep
<1>. QED
  BY <1>2, <1>3, <1>4 DEF EditMemoryVmxRoot, Statuses

(* The chunk loops of DebuggerCommandEditMemory and                        *)
(* DebuggerCommandEditMemoryVmxRoot write only the bytes the request names, *)
(* in the space it targets, whatever the page layout and the payload; reads *)
(* write no memory at all.                                                  *)
THEOREM EditRange == Spec => EditStaysInRange
<1>1. IInv /\ [Next]_vars => [InRangeStep]_vars
  <2> SUFFICES ASSUME IInv, [Next]_vars PROVE InRangeStep
    OBVIOUS
  <2>1. CASE \E r \in ReadRequests : ReadMemory(r) \/ ReadMemoryVmxRoot(r)
    BY <2>1, NoWriteInRange DEF ReadMemory, ReadMemoryVmxRoot, Reject
  <2>2. CASE \E r \in EditRequests : EditMemory(r)
    BY <2>2, EditMemoryInRange
  <2>3. CASE \E r \in EditRequests : EditMemoryVmxRoot(r)
    BY <2>3, EditMemoryVmxRootInRange
  <2>4. CASE UNCHANGED vars
    BY <2>4, NoWriteInRange DEF vars
  <2>. QED
    BY <2>1, <2>2, <2>3, <2>4 DEF Next
<1>. QED
  BY <1>1, Invariant, PTL DEF Spec, EditStaysInRange, InRangeStep

====
