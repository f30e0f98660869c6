---------------------------- MODULE MsrBroadcast ----------------------------
(***************************************************************************)
(* The MSR Broadcast Engine of DebuggerCommands.c: DebuggerReadOrWriteMsr  *)
(* and the per-core DPCs it dispatches.  The requesting thread stages the  *)
(* request in the per-core slots g_DbgState[core].MsrState, then either   *)
(* broadcasts (KeGenericCallDpc) or targets one core                       *)
(* (DpcRoutineRunTaskOnSingleCore), and blocks until the DPCs it queued    *)
(* have run.  Each DPC runs on its own core, in any order, and reads or   *)
(* writes that core's MSR through that core's slot.                        *)
(*                                                                         *)
(* Requests are serialised by the caller (one debugger command in flight), *)
(* so there is one requester.  g_DbgState has one entry per core at driver *)
(* load; ProcessorsCount is the active processor count, the same number.   *)
(***************************************************************************)
EXTENDS Naturals, FiniteSets

CONSTANTS
    ProcessorsCount,  \* KeQueryActiveProcessorCount(0)
    MsrIds,           \* MSR numbers a request may name (0 among them)
    Values,           \* MSR values
    AllCores,         \* DEBUGGER_READ_AND_WRITE_ON_MSR_APPLY_ALL_CORES
    CoreNumbers       \* core numbers a request may name (some out of range)

Cores == 0 .. ProcessorsCount - 1

ASSUME CountAssumption == ProcessorsCount \in Nat \ {0}
ASSUME ValuesAssumption == 0 \in Values /\ 0 \in MsrIds
ASSUME CoreAssumption == AllCores \notin Nat /\ CoreNumbers \subseteq Nat

Requests ==
    [actionType : {"WRITE", "READ", "OTHER"}, coreNumber : CoreNumbers \cup {AllCores},
     msr : MsrIds, value : Values]

Statuses == {"NONE", "SUCCESS", "INVALID_PARAMETER", "UNSUCCESSFUL"}

VARIABLES
    msr,         \* msr[c][m]: MSR m of core c
    slot,        \* slot[c]: g_DbgState[c].MsrState, [msr, value]
    pc,          \* "idle", "waitAll" (KeGenericCallDpc), "waitOne" (single core)
    pending,     \* cores whose queued DPC has not run yet
    req,         \* the request being served, or the last one served
    userBuf,     \* UserBuffer: one value per core
    returnSize,  \* *ReturnSize, in bytes
    status       \* the NTSTATUS of the last completed request

vars == <<msr, slot, pc, pending, req, userBuf, returnSize, status>>

-----------------------------------------------------------------------------
(* The cores the staging loops fill: i from 0 while i < ProcessorsCount.   *)
StagedCores == 0 .. ProcessorsCount - 1

(* A write stages both the MSR number and the value in a core's slot.     *)
(* Mutant: the value is not staged.                                       *)
StageWriteNoValue(s, r) == [s EXCEPT !.msr = r.msr]

StageWrite(s, r) == [msr |-> r.msr, value |-> r.value]

(* A read stages only the MSR number in a core's slot.                    *)
(* Mutant: the MSR number is not restaged.                                *)
StageReadStale(s, r) == s

StageRead(s, r) == [s EXCEPT !.msr = r.msr]

(* The core-number check of the single-core paths.                        *)
(* Mutant: the check lets the core number equal the processor count.     *)
ValidCoreOffByOne(n) == n <= ProcessorsCount

ValidCore(n) == n < ProcessorsCount

(* KeGenericCallDpc and DpcRoutineRunTaskOnSingleCore return once every   *)
(* DPC they queued has run.                                                *)
(* Mutant: the wait returns as soon as one DPC has run.                   *)
DpcsDoneEarly == pending = {} \/ Cardinality(pending) < ProcessorsCount

DpcsDone == pending = {}

(* The size of one UINT64.                                                 *)
(* Mutant: the size of a UINT32.                                          *)
EntrySizeDword == 4

EntrySize == 8

Init ==
    /\ msr \in [Cores -> [MsrIds -> Values]]
    /\ slot = [c \in Cores |-> [msr |-> 0, value |-> 0]]
    /\ pc = "idle"
    /\ pending = {}
    /\ req = CHOOSE r \in Requests : TRUE
    /\ userBuf = [c \in Cores |-> 0]
    /\ returnSize = 0
    /\ status = "NONE"

(* A request that returns at once with status s and ReturnSize rs.         *)
Return(s, rs) ==
    /\ status' = s /\ returnSize' = rs
    /\ UNCHANGED <<msr, slot, pc, pending, userBuf>>

(* DebuggerReadOrWriteMsr up to its dispatch: the all-cores paths stage     *)
(* every slot and broadcast; the single-core paths check the core number,   *)
(* stage that core's slot and queue its DPC, which may fail to be queued.   *)
MsrRequest(r) ==
    /\ pc = "idle"
    /\ req' = r
    /\ \/ /\ r.actionType = "WRITE" /\ r.coreNumber = AllCores
          /\ slot' = [c \in Cores |-> IF c \in StagedCores THEN StageWrite(slot[c], r)
                                                          ELSE slot[c]]
          /\ pending' = Cores /\ pc' = "waitAll"
          /\ UNCHANGED <<msr, userBuf, returnSize, status>>
       \/ /\ r.actionType = "READ" /\ r.coreNumber = AllCores
          /\ slot' = [c \in Cores |-> IF c \in StagedCores THEN StageRead(slot[c], r)
                                                          ELSE slot[c]]
          /\ pending' = Cores /\ pc' = "waitAll"
          /\ UNCHANGED <<msr, userBuf, returnSize, status>>
       \/ /\ r.actionType = "WRITE" /\ r.coreNumber # AllCores
          /\ ~ValidCore(r.coreNumber)
          /\ Return("INVALID_PARAMETER", returnSize)
       \/ /\ r.actionType = "READ" /\ r.coreNumber # AllCores
          /\ ~ValidCore(r.coreNumber)
          /\ Return("INVALID_PARAMETER", 0)
       \/ /\ r.actionType \in {"WRITE", "READ"} /\ r.coreNumber # AllCores
          /\ ValidCore(r.coreNumber)
          /\ slot' = [slot EXCEPT ![r.coreNumber] =
                        IF r.actionType = "WRITE" THEN StageWrite(@, r)
                                                  ELSE StageRead(@, r)]
          /\ \/ pending' = {r.coreNumber} /\ pc' = "waitOne"
                /\ UNCHANGED <<msr, userBuf, returnSize, status>>
             \/ status' = "UNSUCCESSFUL" /\ returnSize' = 0
                /\ UNCHANGED <<msr, pc, pending, userBuf>>
       \/ /\ r.actionType = "OTHER"
          /\ Return("UNSUCCESSFUL", 0)

(* A DPC reports that it has run (KeSignalCallDpcDone for the broadcast,  *)
(* the release of the single-core wait).                                   *)
(* Mutant: the DPC never reports.                                         *)
SignalDoneMissing(c) == pending' = pending

SignalDone(c) == pending' = pending \ {c}

(* The DPC of core c runs: DpcRoutineWriteMsrToAllCores and                *)
(* DpcRoutinePerformWriteMsr write the slot's value to the slot's MSR;     *)
(* the read routines store the MSR's value in the slot.                    *)
Dpc(c) ==
    /\ c \in pending
    /\ SignalDone(c)
    /\ IF req.actionType = "WRITE"
         THEN /\ msr' = [msr EXCEPT ![c][slot[c].msr] = slot[c].value]
              /\ UNCHANGED slot
         ELSE /\ slot' = [slot EXCEPT ![c].value = msr[c][slot[c].msr]]
              /\ UNCHANGED msr
    /\ UNCHANGED <<pc, req, userBuf, returnSize, status>>

(* The wait is over: reads copy the slots back to the user buffer.         *)
MsrComplete ==
    /\ pc \in {"waitAll", "waitOne"}
    /\ DpcsDone
    /\ pc' = "idle"
    /\ status' = "SUCCESS"
    /\ CASE req.actionType = "WRITE" ->
              returnSize' = 0 /\ UNCHANGED userBuf
         [] req.actionType = "READ" /\ pc = "waitAll" ->
              userBuf' = [c \in Cores |-> slot[c].value] /\ returnSize' = EntrySize * ProcessorsCount
         [] req.actionType = "READ" /\ pc = "waitOne" ->
              userBuf' = [userBuf EXCEPT ![0] = slot[req.coreNumber].value]
              /\ returnSize' = EntrySize
    /\ UNCHANGED <<msr, slot, pending, req>>

Next ==
    \/ \E r \in Requests : MsrRequest(r)
    \/ \E c \in Cores : Dpc(c)
    \/ MsrComplete

Spec == Init /\ [][Next]_vars /\ WF_vars(MsrComplete) /\ \A c \in Cores : WF_vars(Dpc(c))

-----------------------------------------------------------------------------
(* Type invariant.                                                         *)
TypeOK ==
    /\ msr \in [Cores -> [MsrIds -> Values]]
    /\ slot \in [Cores -> [msr : MsrIds, value : Values]]
    /\ pc \in {"idle", "waitAll", "waitOne"}
    /\ pending \subseteq Cores
    /\ req \in Requests
    /\ userBuf \in [Cores -> Values]
    /\ returnSize \in Nat
    /\ status \in Statuses

(* The cores a valid request targets.                                      *)
Targets(r) == IF r.coreNumber = AllCores THEN Cores ELSE {r.coreNumber}

(* Reads through the per-core slots (DebuggerReadOrWriteMsr, read paths):  *)
(* when a read returns STATUS_SUCCESS, the user buffer holds, in core      *)
(* order, the value the named MSR has on each targeted core.               *)
MsrReadReturnsCoreValues ==
    (pc = "idle" /\ status = "SUCCESS" /\ req.actionType = "READ") =>
        IF req.coreNumber = AllCores
        THEN \A c \in Cores : userBuf[c] = msr[c][req.msr]
        ELSE userBuf[0] = msr[req.coreNumber][req.msr]

(* Writes through the per-core slots (DebuggerReadOrWriteMsr, write        *)
(* paths): when a write returns STATUS_SUCCESS, every targeted core's MSR  *)
(* holds the requested value.                                              *)
MsrWriteApplied ==
    (pc = "idle" /\ status = "SUCCESS" /\ req.actionType = "WRITE") =>
        \A c \in Targets(req) : msr[c][req.msr] = req.value

(* Every request returns: once DebuggerReadOrWriteMsr has queued its DPCs, *)
(* the requesting thread eventually leaves the wait.                       *)
RequestCompletes == pc # "idle" ~> pc = "idle"

(* The output size rule: when a request returns, *ReturnSize is 8 bytes    *)
(* per core for an all-cores read, 8 for a single-core read, and 0 for      *)
(* writes and for every failure.                                           *)
MsrReturnSizeRule ==
    (pc = "idle" /\ status # "NONE") =>
        returnSize = IF status = "SUCCESS" /\ req.actionType = "READ"
                     THEN IF req.coreNumber = AllCores THEN EntrySize * ProcessorsCount
                          ELSE EntrySize
                     ELSE 0

-----------------------------------------------------------------------------
(* The refinement mapping to MsrAbstract.  The abstract request is busy    *)
(* from the dispatch to the end of the wait; a write DPC that is still     *)
(* pending counts as done, since the abstract write reaches every target   *)
(* core when the request is accepted.                                      *)
AbsMsr ==
    [c \in Cores |-> IF pc # "idle" /\ req.actionType = "WRITE" /\ c \in pending
                     THEN [msr[c] EXCEPT ![req.msr] = req.value]
                     ELSE msr[c]]

Abs == INSTANCE MsrAbstract WITH msr <- AbsMsr, busy <- pc # "idle"

(* DebuggerReadOrWriteMsr with its DPCs implements MsrAbstract: the fan-out *)
(* through the per-core slots, in any order of the DPCs, behaves as one    *)
(* atomic write to all targets, or one read of all targets, followed by    *)
(* the return with the sizes of the output rule.                           *)
MsrImplementsAbstract == Abs!Spec
=============================================================================
