# TLA+ models of the HyperDbg debugger command engine

This directory holds a verification development for
`src/hyperdbg/hyperkd/code/debugger/commands/DebuggerCommands.c`. That file is
the in-hypervisor part of the HyperDbg kernel debugger that serves debugger
commands. It reads and writes memory, searches memory for patterns, and reads and
writes MSRs. The development has TLA+ models of its handlers, TLC
configurations that model-check them on small instances, and TLAPS proofs.
`PROJECT.json` lists every run, mutant, finding, hazard and theorem, and maps
each definition to the source lines it translates.

## The system

`DebuggerCommands.c` has these parts. The names follow `spec.md`.

| Part | Functions (lines) | State it touches |
|---|---|---|
| Memory Command Engine, read | `DebuggerCommandReadMemory` (24-126), `DebuggerCommandReadMemoryVmxRoot` (136-277) | caller's buffer, `KernelStatus`, `AddressMode`, `*ReturnSize` |
| Breakpoint Shadow Table (read only) | the unmask loop over `g_BreakpointsListHead` (186-218) | caller's buffer |
| Memory Command Engine, edit | `DebuggerCommandEditMemory` (440-554), `DebuggerCommandEditMemoryVmxRoot` (562-663) | debuggee memory (virtual or physical), `Result` |
| MSR Broadcast Engine | `DebuggerReadOrWriteMsr` (287-432) | `g_DbgState[core].MsrState`, the cores' MSRs, caller's buffer |
| Pattern Search Engine | `PerformSearchAddress` (683-950), `SearchAddressWrapper` (969-1133), `DebuggerCommandSearchMemory` (1141-1234) | CR3 of the calling thread, scratch result pool, request/result buffer |
| Pool reservation, pre-activation | `DebuggerCommandReservePreallocatedPools` (1326-1441), `DebuggerCommandPreactivateFunctionality` (1450-1473) | pool manager requests |
| Thin forwarders | `DebuggerCommandFlush`, `...SignalExecutionState`, `...SendMessage`, `...SendGeneralBufferToDebugger`, `DebuggerCommandBringPagein` (1242-1317, 1482-1495) | other components' state |

The parts share two things. One is the address space loaded on the calling
thread: the search switches CR3 to the target process and must switch back.
The other is the debuggee memory that edits change and reads and searches see.
The handlers are called by the IOCTL dispatcher in the normal context, or by
the debugger in VMX root while the debuggee is paused. Neither caller is in
this repository. In the normal context a handler runs to completion on the
calling thread. In VMX root it runs inside one VM exit. The only concurrency
inside the file is the MSR broadcast: the requesting thread stages per-core
slots, and DPCs on every core consume them.

Hard behaviours:
- the CR3 switch/restore pair on every exit path of the search;
- a range that is only partly mapped;
- the result buffer at its limit;
- breakpoint bytes that must be hidden from VMX-root reads;
- chunk writes that fail part-way;
- the per-core MSR slots shared between the requester and the DPCs.

## Modules

### `SearchMemory` (Pattern Search Engine, virtual memory)

`SearchMemory` models `DebuggerCommandSearchMemory` -> `SearchAddressWrapper` ->
`PerformSearchAddress` with `IsDebuggeePaused = FALSE`. That is the only way
this file calls it.

State:
- `mem` and `mapped`: per-process memory and valid pages;
- `exists`: `CommonIsProcessExist`;
- `cr3`: the process whose page tables are loaded;
- `wrapperCr3` and `searchCr3`: the `CurrentProcessCr3` locals of the two functions;
- the page-walk locals;
- the matching-loop locals: `iter`, `idx`, `count`, `matched`;
- `storage`: the scratch pool, with one slot beyond its end so that an overflowing write is visible;
- the compaction index and the user buffer.

The loops of the code are steps:

| Action | Code it models |
|---|---|
| `SearchRejectProcess` | the process check |
| `SearchAllocFail` | allocation failure |
| `SearchBegin` | allocation, count reset, page alignment, `SwitchToProcessMemoryLayout` |
| `ValidateStep` | one iteration of the page walk |
| `ValidateEnd` | the restore, the accept test at 1063, then `PerformSearchAddress`'s granularity switch and its conditional switch to the target |
| `ScanStep` | one candidate position: the first-chunk read, the verification loop, the record, and the full-buffer early return |
| `ScanEnd` | the restore at 922-925 |
| `CompactStep` | one slot of the copy-back |
| `CompactEnd` | the sentinel or limit stop, freeing the pool, `STATUS_SUCCESS`, whatever the wrapper returned (`searchResult`, ignored at 1188) |

A read of a page that is not mapped in the loaded address space is done by
`RtlCopyMemory` with no exception handler around it.
It bugchecks, so `pc` becomes `"crashed"` and the model stops. This is why the
search runs say `CHECK_DEADLOCK FALSE`: the crashed state has no successor.

### `MemoryCommands` (Memory Command Engine and Breakpoint Shadow Table)

Each of the four handlers is one action (`ReadMemory`, `ReadMemoryVmxRoot`,
`EditMemory`, `EditMemoryVmxRoot`). Each of its exit paths is a disjunct, in
the order the code tests them.

State:
- `mem` and `mapped` per process;
- `phys` and `physMapped`;
- `bp`: the breakpoint list as a function from address to `PreviousByte`. The spec allows one descriptor per address, so list order does not matter;
- the outputs of the last call: `buf`, `returnSize`, `addressMode` and `status`.

`buf` ranges over offsets `0..Size`, so offset `Size` is the byte just after
the caller's buffer. Its value before the call is `past`.

The external accessors are not in this repository. They are modelled as
page-granular operations:
- `MemoryMapper*`, `MemoryManager*`: a chunk is written only if all its pages are valid;
- `CheckAccessValidityAndSafety`: all pages of the range, including the first page for size 0;
- `CheckAddressPhysical`: the start page is backed.

These assumptions are marked `spec_modelled` in the map.

Abstractions:
- A write chunk is one byte value that fills its `LengthOfEachChunk` bytes.
- The Wow64 query answers 32-bit, 64-bit, or fails.
- Physical bytes with no RAM behind them read as `Unbacked`.
- `EditEnum` gives the values of `EDIT_BYTE`, `EDIT_DWORD` and `EDIT_QWORD`: 0, 1, 2 in HyperDbg's SDK header, which is not in this repository.

### `MsrBroadcast` (MSR Broadcast Engine)

`DebuggerReadOrWriteMsr` stages the request in the per-core slots
`g_DbgState[core].MsrState`, queues DPCs, waits, and for reads copies the slots
to the user buffer. The model splits it at the wait:

| Action | Code it models |
|---|---|
| `MsrRequest(r)` | lines 287-347 and 355-413: the action-type and core-number tests, the staging loops, the immediate returns (invalid core, unknown action, a DPC that cannot be queued), and queuing the DPCs (`pending`) |
| `Dpc(c)` | the DPC routine on core `c` (outside `src/`, from the spec): a write stores the slot's value in the slot's MSR, a read stores the MSR's value in the slot; then it signals |
| `MsrComplete` | the end of the wait: lines 349-353, 375-389 and 415-426 |

State: `msr[c][m]`, the slots, `pc` (idle or waiting for all or one core),
`pending`, the request, the user buffer, `*ReturnSize` and the status.
There is one requester: the caller serialises debugger commands, so two
requests never share the slots. The DPCs of one request run in any order.

### `MsrAbstract` (what the MSR engine promises)

`MsrAbstract` is the MSR engine with the slots and the DPCs abstracted away.
A request is either refused at once (`Refuse`: invalid core, unknown action, or
a single-core DPC that cannot be queued), or accepted (`Accept`). An accepted
write reaches every target core in that one step. `Finish` then returns:
- a write returns size 0;
- an all-cores read returns every core's value and 8 bytes per core;
- a single-core read returns that core's value in `UserBuffer[0]` and 8 bytes.

`MsrBroadcast` maps onto it as follows:
- `busy` is `pc # "idle"`;
- `AbsMsr` gives the MSRs, counting the write of a DPC that is still pending as
  already done.

Under this mapping a DPC is a stutter: it moves its core from pending to done,
and the mapped MSR does not change. The property is
`MsrImplementsAbstract == Abs!Spec`. On a refusal the abstract spec leaves
`*ReturnSize` free, because the code leaves it unchanged on an invalid
single-core write; `msr_return_size` checks the spec's size rule on its own.

## Runs

The memory and search runs use a two-page, four-byte-per-page address space, two processes and
byte values {0, 1, 0xCC}. The pages are small, but each case the code
distinguishes happens:
- a range inside one page, and a range crossing into the second page;
- an absent second page;
- a breakpoint at the start, the middle and just past the end of a read;
- one and two chunks of each granularity crossing a page boundary;
- a result buffer of two slots that fills up.

| Run | Checks | Shows |
|---|---|---|
| `search_complete` (pass) | `TypeOK`, `SearchComplete` | every occurrence of the pattern in the searched memory is returned, unless the buffer filled with earlier ones |
| `search_sound` (violation) | `SearchSound` | a DWORD/QWORD pattern matching only in its first chunk is reported: the loop at 798 starts at `i = LengthOfEachChunk` |
| `search_cr3_restored` (violation) | `Cr3Restored` | the full-buffer return at 905 skips the CR3 restore |
| `search_results_within_buffer` (violation) | `ResultsWithinBuffer` | the match after the last slot is stored at index `MaximumSearchResults`, past the pool |
| `search_rejection_reported` (violation) | `SearchRejectionReported` (action property) | a range the wrapper rejects still returns `STATUS_SUCCESS` with an empty buffer: the wrapper's result is ignored at 1188 |
| `search_no_unmapped_read` (violation) | `NoUnmappedRead` | the range [4, 12) with page 2 absent passes the test at 1063, although the walk stopped at page 2, and the scan's first read (776) touches page 2 inside the range |
| `mem_commands` (pass) | `TypeOK`, `ReadUnshadowed`, `EditStaysInRange` (action property) | across interleaved reads and edits of all four handlers, VMX-root reads return the original bytes, and no edit changes a byte outside the chunks it names or in another space |
| `mem_buffer_tail` (violation) | `BufferTailUntouched` | the unmask loop writes `UserBuffer[Size]` (line 201) |
| `mem_edit_success_written` (violation) | `EditSuccessWritten` | a DWORD at 6 passes the first-page check (476) and runs onto absent page 2; the writer's failure is ignored (507) and success is reported |
| `mem_edit_root_range` (violation) | `EditRootRangeChecked` | the VMX-root edit checks `ByteSize * count` bytes (604) |
| `msr_broadcast` (pass) | `TypeOK`, `MsrReadReturnsCoreValues`, `MsrWriteApplied`, `RequestCompletes`, `MsrImplementsAbstract` | whatever order the DPCs run in, a successful read returns every targeted core's current value, a successful write reached every targeted core, every request leaves its wait, and the engine implements `MsrAbstract` |
| `msr_return_size` (violation) | `MsrReturnSizeRule` | a write to an invalid core leaves `*ReturnSize` as an earlier read set it (line 332) |

The memory model has one passing run, in which reads and edits interleave.
Its bounds are:
- read windows at 0 and 5, of 3 bytes each. The window at 0 lies below the address space: the normal read rejects address 0, and the VMX-root checks find no valid page. The window at 5 covers bytes 5-7 of the first page. Pages that cross into an absent page are exercised by the edits below and by the violation runs;
- one breakpoint table with breakpoints at 5 and 7: one at the start of the second window, and one inside it;
- edits at 6 with one chunk of each granularity: a DWORD or QWORD chunk there crosses the page boundary, onto a second page that may be absent.

With these bounds the run fires every disjunct of every handler in about a
minute. Edits of several chunks are covered in two other places. The theorem
`EditRange` proves `EditStaysInRange` for any number of chunks. The violation
runs `mem_edit_success_written` and `mem_edit_root_range` use two chunks. The breakpoint at the end of a window is exercised by
`mem_buffer_tail`, with its own table. Every property of a passing run has a
mutant in `PROJECT.json` that TLC must catch.

The MSR runs use three cores, two MSR numbers, two values and core numbers
{1, 3}: 1 is valid, 3 is not, and all-cores requests cover the broadcast. That
is enough for the DPCs to run in every order and for a read to follow a write
on the same MSR.

Fairness: only `MsrBroadcast` states liveness properties: `RequestCompletes`,
and the fairness part of `MsrImplementsAbstract` (an accepted request is
eventually finished, `WF(Finish)`). Its `Spec` assumes weak fairness of each
`Dpc(c)` and of `MsrComplete`. A DPC
queued on a core is drained by that core at its next DISPATCH_LEVEL drop, and
the waiting thread resumes once signalled; neither can be postponed forever.
The DPC routines themselves are outside `src/` and are modelled as always
signalling, so `RequestCompletes` cannot catch a routine that never signals.
It covers this file's side: the wait ends once every queued DPC has run.
The memory and search handlers are sequential code and need no fairness.

## Proofs

`SearchMemoryProofs` proves `THEOREM TypeCorrect == Spec => []TypeOK` with
TLAPS for every value of the constants. The proof uses only the named
`ASSUME`s of `SearchMemory` (page size, page count and buffer size positive;
`Caller` in `Procs`; requests inside the address space).

`TypeOK` alone is not inductive. A `ValidateEnd` step copies `wrapperCr3` into
`cr3`, and a `ScanEnd` step copies `searchCr3` into it. Those steps keep
`cr3 \in Procs` only if the saved values are processes when the step runs.
The proof therefore uses the strengthening `IInv`:
- `TypeOK`;
- `wrapperCr3 \in Procs` while validating;
- while scanning, the granularity is valid and `searchCr3 \in Procs` when the target is another process.

The proof shows `Init => IInv` and `IInv /\ [Next]_vars => IInv'`, with one
step per action and case splits on the branches of `ValidateEnd` and
`ScanStep`. Then `IInv => TypeOK`. The result covers the index
`idx \in 0..MaximumSearchResults`: the code's check keeps the index inside the
one-past-the-end slot, and never further.

`SearchCompleteProofs` proves `THEOREM SearchCompleteHolds == Spec => []SearchComplete`
for every value of the constants allowed by the same `ASSUME`s. The run
`search_complete` checks the same property on one small instance.
`SearchComplete` speaks only of the state after the IOCTL returned. What
makes it true is what the two loops keep true while they run, so the proof
uses the strengthening `CInv`. It adds four facts to `IInv`:
- `StoredInRange`: slots `0 .. idx - 1` hold addresses of the requested range;
- `EmptySuffix`: the slots after them are still zero;
- `ScanCovers`, while scanning: the scan runs in `scanSpace`, and the iterator is a candidate position (`AddressFrom` plus a multiple of the granularity). Every slot is below the iterator, and every occurrence below the iterator is stored;
- `CompactCovers`, while compacting: every occurrence is stored, unless the buffer is full and the occurrence lies above every stored address. The user buffer is exactly slots `0 .. ci - 1`.

`EmptySuffix` and `StoredInRange` (addresses are at least 1) are why the
copy-back loop, which stops at the first zero slot, stops exactly at `idx`.
`ScanStepCInv` has one step per branch of `PerformSearchAddress`'s loop body:
- fault;
- match with room;
- match into the one-past-the-end slot;
- no match.

Its arithmetic rests on `SamePosition`: two candidate positions less than one
granularity apart are equal. `OccurrenceFacts` states that the code's
comparisons accept every occurrence. `AppendSlot` carries the copy-back loop.
`CInv` was checked with TLC as an invariant of the `search_complete` instance
(about 700,000 states) before it was proved.

`MsrBroadcastProofs` proves, for every processor count and every set of MSR
numbers and values allowed by the `ASSUME`s of `MsrBroadcast` (at least one
core; MSR 0 and value 0 exist, as the slots start with them; the all-cores
marker is not a core number):
- `THEOREM TypeCorrect == Spec => []TypeOK`;
- `THEOREM WriteApplied == Spec => []MsrWriteApplied`;
- `THEOREM ReadReturnsCoreValues == Spec => []MsrReadReturnsCoreValues`.

All three follow from `THEOREM Invariant == Spec => []IInv`. The two
properties speak of the state after the wait, and they are not inductive: a
`MsrComplete` step needs to know what the DPCs left in the slots. `IInv` adds
what is true during the wait:
- `WaitShape`: no DPC is pending while idle; while waiting, the request is a
  read or a write, and the pending DPCs are among the cores it targets (for a
  single core, a core number below `ProcessorsCount`);
- `WriteInFlight`: during a write every targeted slot holds the request, and
  every targeted core whose DPC has run holds the value;
- `ReadInFlight`: during a read every targeted slot names the MSR, and every
  targeted core whose DPC has run holds that MSR's value in its slot.

There is one lemma per action (`RequestIInv`, `DpcIInv`, `CompleteIInv`), with
one step per path of `DebuggerReadOrWriteMsr`. `IInv` was checked with TLC on
the `msr_broadcast` instance before it was proved.

`MsrBroadcastProofs` also proves `THEOREM Refinement == Spec => Abs!SafeSpec`:
the engine implements the safety part of `MsrAbstract` for every processor
count. It has the usual two parts:
- `InitRefines` shows that `Init` maps to the abstract `Init`;
- `NextRefines` shows that, under `IInv`, every step maps to an abstract step or a stutter.

`NextRefines` has one lemma per action:
- `RequestRefines`: each path of `MsrRequest` is an `Accept` or a `Refuse`;
- `DpcRefines`: a DPC is a stutter. `WaitShape` puts the core among the targets, and `WriteInFlight` says its slot holds the request, so the write it makes is the one `AbsMsr` already counted;
- `CompleteRefines`: the end of the wait is `Finish`. `ReadInFlight` with no DPC pending says the slots hold the cores' values.

`MemoryCommandsProofs` proves, for every page size, page count, set of
processes, breakpoint tables and requests allowed by the `ASSUME`s of
`MemoryCommands`:
- `THEOREM TypeCorrect == Spec => []TypeOK`;
- `THEOREM ReadUnshadowedHolds == Spec => []ReadUnshadowed`;
- `THEOREM EditRange == Spec => EditStaysInRange`.

Every handler is one step that replaces the outputs of the previous call, so a
property about a call's outputs is established by the step of that call. The
strengthening `IInv` adds that the breakpoint table is one of `BpTables`. The
lemmas carry the argument:
- `RangeInAddr`: every byte a successful read copies lies in the address space;
- `WriteChunksFrame` and `WriteInSpan`: the chunk write changes only bytes in `[Address, Address + w * n)`;
- `ReadMemoryVmxRootIInv`: the unmask loop puts back `PreviousByte` exactly where `Original` does.

`EditRange` is an action property. It follows from
`IInv /\ [Next]_vars => [InRangeStep]_vars`, with one lemma per edit handler.

`SearchSound` has no theorem because the code breaks it: the run `search_sound`
finds the violation (line 798). Every safety property of a passing run is now
proved.

Out of the provers' reach, and left to TLC:
- anything about recursive definitions (none are used in proved modules);
- liveness: `RequestCompletes` and the fairness part of `MsrImplementsAbstract` are checked by TLC only.

## Not modelled

- The physical branch of `SearchAddressWrapper` (1080-1130) and the paused-debuggee path of `PerformSearchAddress` (called from other files). The physical branch is built on the virtual-to-physical translation primitives, which are outside `src/` and which the spec puts out of scope. So the compaction hazard at 1210, where a physical match at address 0 ends the copy-back, has no property.
- Concurrent MSR requesters: the caller serialises commands; the slots have no lock of their own.
- `DebuggerCommandReservePreallocatedPools` and `DebuggerCommandPreactivateFunctionality`. Each case of their switches only forwards a count or a type to the pool manager or to another component, outside `src/`. Their only state in this file is the result code. The ignored result of `PoolManagerCheckAndPerformAllocationAndDeallocation` (1437) is listed as a hazard with no property.
- The thin forwarders: each forwards to a component outside `src/` and keeps no state of this file.
- 64-bit wrap-around of `Address + Length`: addresses in the model are small naturals, and a few-page instance cannot reach 2^64.
- Physical reads past backed RAM (166): the spec asks only for the start-address check, so no property is stated about those bytes.
