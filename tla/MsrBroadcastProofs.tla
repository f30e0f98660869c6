------------------------- MODULE MsrBroadcastProofs -------------------------
(***************************************************************************)
(* Proofs about the MSR Broadcast Engine model.  The properties speak of   *)
(* the state after the wait; what makes them hold is what is true during  *)
(* it: the request in flight was staged in every targeted slot, and a core *)
(* whose DPC has run already holds the result.  IInv states this.          *)
(***************************************************************************)
EXTENDS MsrBroadcast, TLAPS

(* No DPC is queued while the requester is idle; while it waits, the       *)
(* request is a read or a write and the queued DPCs are those of the cores *)
(* it targets.                                                             *)
WaitShape ==
    /\ pc = "idle" => pending = {}
    /\ pc = "waitAll" => /\ req.coreNumber = AllCores
                         /\ req.actionType \in {"WRITE", "READ"}
    /\ pc = "waitOne" => /\ req.coreNumber \in Cores
                         /\ req.actionType \in {"WRITE", "READ"}
                         /\ pending \subseteq {req.coreNumber}

(* During a write every targeted slot holds the request, and every core    *)
(* whose DPC has run holds the value.                                      *)
WriteInFlight ==
    (pc # "idle" /\ req.actionType = "WRITE") =>
        \A c \in Targets(req) :
            /\ slot[c] = [msr |-> req.msr, value |-> req.value]
            /\ c \notin pending => msr[c][req.msr] = req.value

(* During a read every targeted slot names the MSR, and every core whose   *)
(* DPC has run holds that MSR's value in its slot.                         *)
ReadInFlight ==
    (pc # "idle" /\ req.actionType = "READ") =>
        \A c \in Targets(req) :
            /\ slot[c].msr = req.msr
            /\ c \notin pending => slot[c].value = msr[c][req.msr]

IInv ==
    /\ TypeOK
    /\ WaitShape
    /\ WriteInFlight
    /\ ReadInFlight
    /\ MsrWriteApplied
    /\ MsrReadReturnsCoreValues

-----------------------------------------------------------------------------
LEMMA RequestsNonEmpty == Requests # {}
<1> DEFINE r == [actionType |-> "OTHER", coreNumber |-> AllCores, msr |-> 0, value |-> 0]
<1>1. r \in Requests
  BY ValuesAssumption DEF Requests
<1>. QED
  BY <1>1

LEMMA CoresNat == Cores \subseteq Nat /\ 0 \in Cores
BY CountAssumption DEF Cores

LEMMA TargetsOfAll ==
    ASSUME NEW r, r.coreNumber = AllCores
    PROVE  Targets(r) = Cores
BY DEF Targets

LEMMA TargetsOfOne ==
    ASSUME NEW r, r.coreNumber # AllCores
    PROVE  Targets(r) = {r.coreNumber}
BY DEF Targets

-----------------------------------------------------------------------------
LEMMA InitIInv == Init => IInv
<1> SUFFICES ASSUME Init PROVE IInv
  OBVIOUS
<1>1. TypeOK
  BY RequestsNonEmpty, ValuesAssumption, CoresNat DEF Init, TypeOK, Statuses
<1>. QED
  BY <1>1 DEF Init, IInv, WaitShape, WriteInFlight, ReadInFlight,
            MsrWriteApplied, MsrReadReturnsCoreValues

LEMMA RequestFields ==
    ASSUME NEW r \in Requests
    PROVE  /\ r.actionType \in {"WRITE", "READ", "OTHER"}
           /\ r.coreNumber = AllCores \/ r.coreNumber \in Nat
           /\ r.msr \in MsrIds
           /\ r.value \in Values
BY CoreAssumption DEF Requests

(* A request on the valid-core paths names a core.                         *)
LEMMA ValidCoreIsCore ==
    ASSUME NEW n \in Nat, ValidCore(n)
    PROVE  n \in Cores
BY CountAssumption DEF ValidCore, Cores

(* Restaging a slot's MSR number keeps its value.                         *)
LEMMA SetSlotMsr ==
    ASSUME NEW sl \in [msr : MsrIds, value : Values], NEW m
    PROVE  [sl EXCEPT !.msr = m] = [msr |-> m, value |-> sl.value]
<1> DEFINE e == [sl EXCEPT !.msr = m]
           t == [msr |-> m, value |-> sl.value]
<1>1. DOMAIN sl = {"msr", "value"}
  OBVIOUS
<1>2. DOMAIN e = {"msr", "value"} /\ DOMAIN t = {"msr", "value"}
  BY <1>1
<1>3. e.msr = t.msr /\ e.value = t.value
  BY <1>1
<1>4. \A f \in {"msr", "value"} : e[f] = t[f]
  BY <1>3
<1>. QED
  BY <1>2, <1>4, Zenon

(* A request is served by MsrRequest: every path keeps IInv.               *)
LEMMA RequestIInv ==
    ASSUME IInv, NEW r \in Requests, MsrRequest(r)
    PROVE  IInv'
<1>. USE RequestFields, CoresNat
<1>1. pc = "idle"
  BY DEF MsrRequest
<1>0. /\ slot \in [Cores -> [msr : MsrIds, value : Values]]
      /\ returnSize \in Nat
  BY DEF IInv, TypeOK
<1>2. CASE r.actionType = "WRITE" /\ r.coreNumber = AllCores
  <2>1. /\ slot' = [c \in Cores |-> [msr |-> r.msr, value |-> r.value]]
        /\ pending' = Cores /\ pc' = "waitAll" /\ req' = r
        /\ UNCHANGED <<msr, userBuf, returnSize, status>>
    BY <1>2 DEF MsrRequest, StagedCores, Cores, StageWrite
  <2>2. TypeOK'
    BY <2>1 DEF IInv, TypeOK
  <2>. QED
    BY <2>1, <2>2, <1>2, TargetsOfAll
       DEF IInv, WaitShape, WriteInFlight, ReadInFlight, MsrWriteApplied, MsrReadReturnsCoreValues
<1>3. CASE r.actionType = "READ" /\ r.coreNumber = AllCores
  <2>0. /\ slot' = [c \in Cores |-> IF c \in StagedCores THEN [slot[c] EXCEPT !.msr = r.msr]
                                                          ELSE slot[c]]
        /\ pending' = Cores /\ pc' = "waitAll" /\ req' = r
        /\ UNCHANGED <<msr, userBuf, returnSize, status>>
    BY <1>3, Zenon DEF MsrRequest, StageRead
  <2>1. slot' = [c \in Cores |-> [msr |-> r.msr, value |-> slot[c].value]]
    BY <2>0, <1>0, SetSlotMsr DEF StagedCores, Cores
  <2>2. TypeOK'
    BY <2>0, <2>1 DEF IInv, TypeOK
  <2>. QED
    BY <2>0, <2>1, <2>2, <1>3, TargetsOfAll
       DEF IInv, WaitShape, WriteInFlight, ReadInFlight, MsrWriteApplied, MsrReadReturnsCoreValues
<1>4. CASE r.actionType \in {"WRITE", "READ"} /\ r.coreNumber # AllCores /\ ~ValidCore(r.coreNumber)
  <2>1. /\ status' = "INVALID_PARAMETER" /\ returnSize' \in Nat /\ req' = r
        /\ UNCHANGED <<msr, slot, pc, pending, userBuf>>
    BY <1>4, <1>0 DEF MsrRequest, Return
  <2>. QED
    BY <2>1, <1>1
       DEF IInv, TypeOK, Statuses, WaitShape, WriteInFlight, ReadInFlight, MsrWriteApplied,
           MsrReadReturnsCoreValues
<1>5. CASE r.coreNumber # AllCores /\ ValidCore(r.coreNumber) /\ r.actionType \in {"WRITE", "READ"}
  <2> DEFINE k == r.coreNumber
  <2>1. k \in Cores
    BY <1>5, ValidCoreIsCore
  <2>2. slot'[k] = [msr |-> r.msr,
                    value |-> IF r.actionType = "WRITE" THEN r.value ELSE slot[k].value]
    <3>1. slot' = [slot EXCEPT ![k] = IF r.actionType = "WRITE" THEN [msr |-> r.msr, value |-> r.value]
                                                              ELSE [slot[k] EXCEPT !.msr = r.msr]]
      BY <1>5, Zenon DEF MsrRequest, StageWrite, StageRead
    <3>2. [slot[k] EXCEPT !.msr = r.msr] = [msr |-> r.msr, value |-> slot[k].value]
      BY <2>1, <1>0, SetSlotMsr
    <3>. QED
      BY <3>1, <3>2, <2>1, <1>0
  <2>3. /\ slot' \in [Cores -> [msr : MsrIds, value : Values]]
        /\ \A c \in Cores \ {k} : slot'[c] = slot[c]
    <3>1. slot' = [slot EXCEPT ![k] = slot'[k]]
      BY <1>5, <2>1, Zenon DEF MsrRequest
    <3>. QED
      BY <3>1, <2>2, <2>1, <1>0
  <2>4. /\ req' = r
        /\ \/ pending' = {k} /\ pc' = "waitOne"
              /\ UNCHANGED <<msr, userBuf, returnSize, status>>
           \/ status' = "UNSUCCESSFUL" /\ returnSize' = 0
              /\ UNCHANGED <<msr, pc, pending, userBuf>>
    BY <1>5 DEF MsrRequest
  <2>5. TypeOK'
    BY <2>1, <2>3, <2>4 DEF IInv, TypeOK, Statuses
  <2>. QED
    BY <2>1, <2>2, <2>4, <2>5, <1>1, <1>5, TargetsOfOne
       DEF IInv, WaitShape, WriteInFlight, ReadInFlight, MsrWriteApplied, MsrReadReturnsCoreValues
<1>6. CASE r.actionType = "OTHER"
  <2>1. /\ status' = "UNSUCCESSFUL" /\ returnSize' = 0 /\ req' = r
        /\ UNCHANGED <<msr, slot, pc, pending, userBuf>>
    BY <1>6 DEF MsrRequest, Return
  <2>. QED
    BY <2>1, <1>1
       DEF IInv, TypeOK, Statuses, WaitShape, WriteInFlight, ReadInFlight, MsrWriteApplied,
           MsrReadReturnsCoreValues
<1>. QED
  BY <1>2, <1>3, <1>4, <1>5, <1>6

(* A DPC's read fills a slot's value and keeps its MSR number.             *)
LEMMA SetSlotValue ==
    ASSUME NEW sl \in [msr : MsrIds, value : Values], NEW v
    PROVE  [sl EXCEPT !.value = v] = [msr |-> sl.msr, value |-> v]
<1> DEFINE e == [sl EXCEPT !.value = v]
           t == [msr |-> sl.msr, value |-> v]
<1>1. DOMAIN sl = {"msr", "value"}
  OBVIOUS
<1>2. DOMAIN e = {"msr", "value"} /\ DOMAIN t = {"msr", "value"}
  BY <1>1
<1>3. e.msr = t.msr /\ e.value = t.value
  BY <1>1
<1>4. \A f \in {"msr", "value"} : e[f] = t[f]
  BY <1>3
<1>. QED
  BY <1>2, <1>4, Zenon

(* The DPC of a core runs: it completes that core's part of the request    *)
(* in flight and touches no other core.                                    *)
LEMMA DpcIInv ==
    ASSUME IInv, NEW c \in Cores, Dpc(c)
    PROVE  IInv'
<1>. USE CoresNat
<1>0. TypeOK /\ WaitShape /\ WriteInFlight /\ ReadInFlight
  BY DEF IInv
<1>1. /\ c \in pending /\ pending' = pending \ {c}
      /\ UNCHANGED <<pc, req, userBuf, returnSize, status>>
  BY DEF Dpc, SignalDone
<1>2. /\ pc # "idle"
      /\ req.actionType \in {"WRITE", "READ"}
      /\ c \in Targets(req)
  <2>1. pc # "idle"
    BY <1>0, <1>1 DEF WaitShape
  <2>2. CASE pc = "waitAll"
    BY <2>1, <2>2, <1>0, TargetsOfAll DEF WaitShape
  <2>3. CASE pc = "waitOne"
    BY <2>1, <2>3, <1>0, <1>1, TargetsOfOne, CoreAssumption DEF WaitShape
  <2>. QED
    BY <2>1, <2>2, <2>3, <1>0 DEF TypeOK
<1>3. WaitShape'
  BY <1>0, <1>1, <1>2 DEF WaitShape
<1>4. CASE req.actionType = "WRITE"
  <2>1. slot[c] = [msr |-> req.msr, value |-> req.value]
    BY <1>0, <1>2, <1>4 DEF WriteInFlight
  <2>2. /\ msr' = [msr EXCEPT ![c][req.msr] = req.value]
        /\ UNCHANGED slot
    BY <1>4, <2>1 DEF Dpc
  <2>3. req.msr \in MsrIds /\ req.value \in Values
    BY <1>0, RequestFields DEF TypeOK
  <2>4. TypeOK'
    BY <1>0, <1>1, <2>2, <2>3 DEF TypeOK
  <2>5. WriteInFlight'
    BY <1>0, <1>1, <2>1, <2>2, <2>3 DEF WriteInFlight, TypeOK
  <2>. QED
    BY <1>1, <1>2, <1>3, <1>4, <2>4, <2>5
       DEF IInv, ReadInFlight, MsrWriteApplied, MsrReadReturnsCoreValues
<1>5. CASE req.actionType = "READ"
  <2>1. slot[c].msr = req.msr
    BY <1>0, <1>2, <1>5 DEF ReadInFlight
  <2>2. slot[c] \in [msr : MsrIds, value : Values]
    BY <1>0 DEF TypeOK
  <2>3. /\ slot' = [slot EXCEPT ![c] = [msr |-> req.msr, value |-> msr[c][req.msr]]]
        /\ UNCHANGED msr
    <3>1. /\ slot' = [slot EXCEPT ![c] = [slot[c] EXCEPT !.value = msr[c][slot[c].msr]]]
          /\ UNCHANGED msr
      BY <1>5, Zenon DEF Dpc
    <3>2. [slot[c] EXCEPT !.value = msr[c][slot[c].msr]]
            = [msr |-> slot[c].msr, value |-> msr[c][slot[c].msr]]
      BY <2>2, SetSlotValue
    <3>. QED
      BY <3>1, <3>2, <2>1
  <2>4. msr[c][req.msr] \in Values /\ req.msr \in MsrIds
    BY <1>0, <2>1, <2>2 DEF TypeOK
  <2>5. TypeOK'
    BY <1>0, <1>1, <2>3, <2>4 DEF TypeOK
  <2>6. ReadInFlight'
    BY <1>0, <1>1, <2>3 DEF ReadInFlight, TypeOK
  <2>. QED
    BY <1>1, <1>2, <1>3, <1>5, <2>5, <2>6
       DEF IInv, WriteInFlight, MsrWriteApplied, MsrReadReturnsCoreValues
<1>. QED
  BY <1>2, <1>4, <1>5

(* The wait ends: every queued DPC has run, so the slots hold the results. *)
LEMMA CompleteIInv ==
    ASSUME IInv, MsrComplete
    PROVE  IInv'
<1>. USE CoresNat
<1>0. TypeOK /\ WaitShape /\ WriteInFlight /\ ReadInFlight
  BY DEF IInv
<1>1. /\ pc \in {"waitAll", "waitOne"} /\ pending = {}
      /\ pc' = "idle" /\ status' = "SUCCESS"
      /\ UNCHANGED <<msr, slot, pending, req>>
  BY DEF MsrComplete, DpcsDone
<1>2. req.actionType \in {"WRITE", "READ"}
  BY <1>0, <1>1 DEF WaitShape
<1>3. WaitShape'
  BY <1>1 DEF WaitShape
<1>4. CASE req.actionType = "WRITE"
  <2>1. returnSize' = 0 /\ UNCHANGED userBuf
    BY <1>4, Zenon DEF MsrComplete
  <2>2. TypeOK'
    BY <1>0, <1>1, <2>1 DEF TypeOK, Statuses
  <2>3. MsrWriteApplied'
    BY <1>0, <1>1, <1>4 DEF WriteInFlight, MsrWriteApplied, Targets
  <2>. QED
    BY <1>1, <1>3, <1>4, <2>2, <2>3
       DEF IInv, WriteInFlight, ReadInFlight, MsrReadReturnsCoreValues
<1>5. CASE req.actionType = "READ" /\ pc = "waitAll"
  <2>1. /\ userBuf' = [c \in Cores |-> slot[c].value]
        /\ returnSize' = EntrySize * ProcessorsCount
    BY <1>5 DEF MsrComplete
  <2>2. req.coreNumber = AllCores
    BY <1>0, <1>5 DEF WaitShape
  <2>3. \A c \in Cores : slot[c].value = msr[c][req.msr]
    BY <1>0, <1>1, <1>5, <2>2, TargetsOfAll DEF ReadInFlight
  <2>4. TypeOK'
    BY <1>0, <1>1, <2>1, CountAssumption DEF TypeOK, Statuses, EntrySize
  <2>5. MsrReadReturnsCoreValues'
    BY <1>1, <2>1, <2>2, <2>3 DEF MsrReadReturnsCoreValues
  <2>. QED
    BY <1>1, <1>3, <1>5, <2>4, <2>5
       DEF IInv, WriteInFlight, ReadInFlight, MsrWriteApplied
<1>6. CASE req.actionType = "READ" /\ pc = "waitOne"
  <2> DEFINE k == req.coreNumber
  <2>1. /\ userBuf' = [userBuf EXCEPT ![0] = slot[k].value]
        /\ returnSize' = EntrySize
    BY <1>6 DEF MsrComplete
  <2>2. k \in Cores /\ k # AllCores
    BY <1>0, <1>6, CoreAssumption DEF WaitShape
  <2>3. slot[k].value = msr[k][req.msr]
    BY <1>0, <1>1, <1>6, <2>2, TargetsOfOne DEF ReadInFlight
  <2>4. TypeOK'
    BY <1>0, <1>1, <2>1, <2>2 DEF TypeOK, Statuses, EntrySize
  <2>5. MsrReadReturnsCoreValues'
    BY <1>1, <2>1, <2>2, <2>3, <1>0 DEF MsrReadReturnsCoreValues, TypeOK
  <2>. QED
    BY <1>1, <1>3, <1>6, <2>4, <2>5
       DEF IInv, WriteInFlight, ReadInFlight, MsrWriteApplied
<1>. QED
  BY <1>1, <1>2, <1>4, <1>5, <1>6

(* A step of the whole system keeps IInv.                                  *)
LEMMA NextIInv == IInv /\ [Next]_vars => IInv'
<1> SUFFICES ASSUME IInv, [Next]_vars PROVE IInv'
  OBVIOUS
<1>1. CASE \E r \in Requests : MsrRequest(r)
  BY <1>1, RequestIInv
<1>2. CASE \E c \in Cores : Dpc(c)
  BY <1>2, DpcIInv
<1>3. CASE MsrComplete
  BY <1>3, CompleteIInv
<1>4. CASE UNCHANGED vars
  BY <1>4 DEF vars, IInv, TypeOK, WaitShape, WriteInFlight, ReadInFlight,
             MsrWriteApplied, MsrReadReturnsCoreValues, Targets
<1>. QED
  BY <1>1, <1>2, <1>3, <1>4 DEF Next

-----------------------------------------------------------------------------
(* Every reachable state of the MSR engine satisfies IInv.                 *)
THEOREM Invariant == Spec => []IInv
<1>1. Init => IInv
  BY InitIInv
<1>2. IInv /\ [Next]_vars => IInv'
  BY NextIInv
<1>. QED
  BY <1>1, <1>2, PTL DEF Spec

(* Type correctness of the MSR engine, for every processor count: the      *)
(* single-core paths never index a slot outside 0 .. ProcessorsCount - 1.  *)
THEOREM TypeCorrect == Spec => []TypeOK
BY Invariant, PTL DEF IInv

(* Writes through the per-core slots (DebuggerReadOrWriteMsr, write        *)
(* paths): for every processor count and every order of the DPCs, a write  *)
(* that returns STATUS_SUCCESS has set the MSR on every targeted core.     *)
THEOREM WriteApplied == Spec => []MsrWriteApplied
BY Invariant, PTL DEF IInv

(* Reads through the per-core slots (DebuggerReadOrWriteMsr, read paths):  *)
(* for every processor count and every order of the DPCs, a read that      *)
(* returns STATUS_SUCCESS returns each targeted core's value of the MSR.   *)
THEOREM ReadReturnsCoreValues == Spec => []MsrReadReturnsCoreValues
BY Invariant, PTL DEF IInv

-----------------------------------------------------------------------------
(* The refinement of MsrAbstract under the mapping AbsMsr.  The requester  *)
(* is busy in the abstract exactly while it waits; a DPC is a stutter of   *)
(* the abstract system, because AbsMsr counts its write as done already;   *)
(* the end of the wait is the abstract Finish.                             *)

(* While no write is in flight the mapped MSRs are the real ones.          *)
LEMMA AbsMsrQuiet ==
    ASSUME pc = "idle" \/ pending = {} \/ req.actionType # "WRITE"
    PROVE  AbsMsr = [c \in Cores |-> msr[c]]
BY DEF AbsMsr

LEMMA InitRefines == Init => Abs!Init
<1> SUFFICES ASSUME Init PROVE Abs!Init
  OBVIOUS
<1>1. AbsMsr = msr
  <2>1. msr \in [Cores -> [MsrIds -> Values]] /\ pc = "idle"
    BY DEF Init
  <2>. QED
    BY <2>1, AbsMsrQuiet
<1>2. Abs!Requests = Requests /\ Abs!Cores = Cores
  BY DEF Abs!Requests, Requests, Abs!Cores, Cores
<1>. QED
  BY <1>1, <1>2 DEF Init, Abs!Init

(* A request is accepted or refused by the abstract engine as the code     *)
(* dispatches it or returns at once.                                       *)
LEMMA RequestRefines ==
    ASSUME IInv, NEW r \in Requests, MsrRequest(r)
    PROVE  Abs!Refuse(r) \/ Abs!Accept(r)
<1>. USE RequestFields, CoresNat
<1>1. pc = "idle" /\ pending = {} /\ req' = r
  BY DEF MsrRequest, IInv, WaitShape
<1>2. AbsMsr = [c \in Cores |-> msr[c]]
  BY <1>1, AbsMsrQuiet
<1>3. returnSize \in Nat
  BY DEF IInv, TypeOK
<1>4. CASE r.actionType = "WRITE" /\ r.coreNumber = AllCores
  <2>1. /\ pc' = "waitAll" /\ pending' = Cores
        /\ UNCHANGED <<msr, userBuf, returnSize, status>>
    BY <1>4 DEF MsrRequest
  <2>2. AbsMsr' = [c \in Cores |-> [msr[c] EXCEPT ![r.msr] = r.value]]
    BY <1>1, <1>4, <2>1 DEF AbsMsr
  <2>3. AbsMsr' = [c \in Abs!Cores |-> IF c \in Abs!TargetCores(r)
                                       THEN [AbsMsr[c] EXCEPT ![r.msr] = r.value]
                                       ELSE AbsMsr[c]]
    BY <1>2, <1>4, <2>2 DEF Abs!TargetCores, Abs!Cores, Cores
  <2>4. Abs!Accept(r)
    BY <1>1, <1>4, <2>1, <2>3 DEF Abs!Accept
  <2>. QED
    BY <2>4
<1>5. CASE r.actionType = "READ" /\ r.coreNumber = AllCores
  <2>1. /\ pc' = "waitAll" /\ pending' = Cores
        /\ UNCHANGED <<msr, userBuf, returnSize, status>>
    BY <1>5 DEF MsrRequest
  <2>2. AbsMsr' = AbsMsr
    BY <1>1, <1>2, <1>5, <2>1 DEF AbsMsr
  <2>. QED
    BY <1>1, <1>5, <2>1, <2>2 DEF Abs!Accept
<1>6. CASE r.actionType \in {"WRITE", "READ"} /\ r.coreNumber # AllCores /\ ~ValidCore(r.coreNumber)
  <2>1. /\ status' = "INVALID_PARAMETER" /\ returnSize' \in Nat
        /\ UNCHANGED <<msr, pc, pending, userBuf>>
    BY <1>6, <1>3 DEF MsrRequest, Return
  <2>2. AbsMsr' = AbsMsr
    BY <1>1, <1>2, <2>1 DEF AbsMsr
  <2>3. r.coreNumber >= ProcessorsCount
    <3>1. r.coreNumber \in Nat
      BY <1>6, RequestFields
    <3>. QED
      BY <1>6, <3>1, CountAssumption DEF ValidCore
  <2>. QED
    BY <1>1, <1>6, <2>1, <2>2, <2>3 DEF Abs!Refuse
<1>7. CASE r.coreNumber # AllCores /\ ValidCore(r.coreNumber) /\ r.actionType \in {"WRITE", "READ"}
  <2>1. r.coreNumber < ProcessorsCount
    BY <1>7 DEF ValidCore
  <2>2. CASE pending' = {r.coreNumber} /\ pc' = "waitOne"
             /\ UNCHANGED <<msr, userBuf, returnSize, status>>
    <3>1. AbsMsr' = [c \in Cores |-> IF r.actionType = "WRITE" /\ c \in {r.coreNumber}
                                     THEN [msr[c] EXCEPT ![r.msr] = r.value]
                                     ELSE msr[c]]
      BY <1>1, <2>2 DEF AbsMsr
    <3>2. AbsMsr' = IF r.actionType = "WRITE"
                    THEN [c \in Abs!Cores |-> IF c \in Abs!TargetCores(r)
                                             THEN [AbsMsr[c] EXCEPT ![r.msr] = r.value]
                                             ELSE AbsMsr[c]]
                    ELSE AbsMsr
      BY <1>2, <1>7, <3>1 DEF Abs!TargetCores, Abs!Cores, Cores
    <3>3. (pc # "idle")' = TRUE
      BY <2>2
    <3>. QED
      BY <1>1, <1>7, <2>1, <2>2, <3>2, <3>3 DEF Abs!Accept
  <2>3. CASE status' = "UNSUCCESSFUL" /\ returnSize' = 0
             /\ UNCHANGED <<msr, pc, pending, userBuf>>
    <3>1. AbsMsr' = AbsMsr
      BY <1>1, <1>2, <2>3 DEF AbsMsr
    <3>. QED
      BY <1>1, <1>7, <2>1, <2>3, <3>1 DEF Abs!Refuse
  <2>. QED
    BY <1>7, <2>2, <2>3 DEF MsrRequest
<1>8. CASE r.actionType = "OTHER"
  <2>1. /\ status' = "UNSUCCESSFUL" /\ returnSize' = 0
        /\ UNCHANGED <<msr, pc, pending, userBuf>>
    BY <1>8 DEF MsrRequest, Return
  <2>2. AbsMsr' = AbsMsr
    BY <1>1, <1>2, <2>1 DEF AbsMsr
  <2>. QED
    BY <1>1, <1>8, <2>1, <2>2 DEF Abs!Refuse
<1>. QED
  BY <1>4, <1>5, <1>6, <1>7, <1>8

(* A DPC changes nothing the abstract engine sees: a write DPC moves its   *)
(* core from pending to done, and AbsMsr already counted the write.        *)
LEMMA DpcRefines ==
    ASSUME IInv, NEW c \in Cores, Dpc(c)
    PROVE  UNCHANGED Abs!vars
<1>. USE CoresNat
<1>0. TypeOK /\ WaitShape /\ WriteInFlight
  BY DEF IInv
<1>1. /\ c \in pending /\ pending' = pending \ {c}
      /\ UNCHANGED <<pc, req, userBuf, returnSize, status>>
  BY DEF Dpc, SignalDone
<1>2. pc # "idle" /\ c \in Targets(req)
  <2>1. pc # "idle"
    BY <1>0, <1>1 DEF WaitShape
  <2>2. CASE pc = "waitAll"
    BY <2>1, <2>2, <1>0, TargetsOfAll DEF WaitShape
  <2>3. CASE pc = "waitOne"
    BY <2>1, <2>3, <1>0, <1>1, TargetsOfOne, CoreAssumption DEF WaitShape
  <2>. QED
    BY <2>1, <2>2, <2>3, <1>0 DEF TypeOK
<1>3. AbsMsr' = AbsMsr
  <2>1. CASE req.actionType = "WRITE"
    <3>1. slot[c] = [msr |-> req.msr, value |-> req.value]
      BY <1>0, <1>2, <2>1 DEF WriteInFlight
    <3>2. msr' = [msr EXCEPT ![c][req.msr] = req.value]
      BY <2>1, <3>1 DEF Dpc
    <3>3. msr \in [Cores -> [MsrIds -> Values]]
      BY <1>0 DEF TypeOK
    <3>4. ASSUME NEW d \in Cores PROVE AbsMsr'[d] = AbsMsr[d]
      <4>1. CASE d = c
        BY <1>1, <1>2, <2>1, <3>2, <3>3, <4>1 DEF AbsMsr
      <4>2. CASE d # c
        BY <1>1, <1>2, <2>1, <3>2, <3>3, <4>2 DEF AbsMsr
      <4>. QED
        BY <4>1, <4>2
    <3>. QED
      BY <3>4 DEF AbsMsr
  <2>2. CASE req.actionType # "WRITE"
    <3>1. UNCHANGED msr
      BY <2>2 DEF Dpc
    <3>. QED
      BY <1>1, <2>2, <3>1 DEF AbsMsr
  <2>. QED
    BY <2>1, <2>2
<1>. QED
  BY <1>1, <1>3 DEF Abs!vars

(* The end of the wait is the abstract Finish: every DPC has run, so the   *)
(* slots hold what the abstract read returns.                              *)
LEMMA CompleteRefines ==
    ASSUME IInv, MsrComplete
    PROVE  Abs!Finish
<1>. USE CoresNat
<1>0. TypeOK /\ WaitShape /\ ReadInFlight
  BY DEF IInv
<1>1. /\ pc \in {"waitAll", "waitOne"} /\ pending = {}
      /\ pc' = "idle" /\ status' = "SUCCESS"
      /\ UNCHANGED <<msr, slot, pending, req>>
  BY DEF MsrComplete, DpcsDone
<1>2. AbsMsr = [c \in Cores |-> msr[c]] /\ AbsMsr' = AbsMsr
  BY <1>1 DEF AbsMsr
<1>3. req.actionType \in {"WRITE", "READ"}
  BY <1>0, <1>1 DEF WaitShape
<1>4. CASE req.actionType = "WRITE"
  <2>1. returnSize' = 0 /\ UNCHANGED userBuf
    BY <1>4, Zenon DEF MsrComplete
  <2>. QED
    BY <1>1, <1>2, <1>4, <2>1 DEF Abs!Finish
<1>5. CASE req.actionType = "READ" /\ pc = "waitAll"
  <2>1. /\ userBuf' = [c \in Cores |-> slot[c].value]
        /\ returnSize' = EntrySize * ProcessorsCount
    BY <1>5 DEF MsrComplete
  <2>2. req.coreNumber = AllCores
    BY <1>0, <1>5 DEF WaitShape
  <2>3. \A c \in Cores : slot[c].value = msr[c][req.msr]
    BY <1>0, <1>1, <1>5, <2>2, TargetsOfAll DEF ReadInFlight
  <2>4. userBuf' = [c \in Abs!Cores |-> AbsMsr[c][req.msr]]
    BY <1>2, <2>1, <2>3 DEF Abs!Cores, Cores
  <2>5. returnSize' = Abs!ValueBytes * ProcessorsCount
    BY <2>1 DEF Abs!ValueBytes, EntrySize
  <2>. QED
    BY <1>1, <1>2, <1>5, <2>2, <2>4, <2>5 DEF Abs!Finish
<1>6. CASE req.actionType = "READ" /\ pc = "waitOne"
  <2> DEFINE k == req.coreNumber
  <2>1. /\ userBuf' = [userBuf EXCEPT ![0] = slot[k].value]
        /\ returnSize' = EntrySize
    BY <1>6 DEF MsrComplete
  <2>2. k \in Cores /\ k # AllCores
    BY <1>0, <1>6, CoreAssumption DEF WaitShape
  <2>3. slot[k].value = msr[k][req.msr]
    BY <1>0, <1>1, <1>6, <2>2, TargetsOfOne DEF ReadInFlight
  <2>. QED
    BY <1>1, <1>2, <1>6, <2>1, <2>2, <2>3 DEF Abs!Finish, Abs!ValueBytes, EntrySize
<1>. QED
  BY <1>1, <1>3, <1>4, <1>5, <1>6

(* Every step of the engine is a step or a stutter of MsrAbstract.         *)
LEMMA NextRefines == IInv /\ [Next]_vars => [Abs!Next]_Abs!vars
<1> SUFFICES ASSUME IInv, [Next]_vars PROVE [Abs!Next]_Abs!vars
  OBVIOUS
<1>1. CASE \E r \in Requests : MsrRequest(r)
  <2>1. PICK r \in Requests : MsrRequest(r)
    BY <1>1
  <2>2. r \in Abs!Requests
    BY DEF Requests, Abs!Requests
  <2>. QED
    BY <2>1, <2>2, RequestRefines DEF Abs!Next
<1>2. CASE \E c \in Cores : Dpc(c)
  BY <1>2, DpcRefines
<1>3. CASE MsrComplete
  BY <1>3, CompleteRefines DEF Abs!Next
<1>4. CASE UNCHANGED vars
  BY <1>4 DEF vars, Abs!vars, AbsMsr
<1>. QED
  BY <1>1, <1>2, <1>3, <1>4 DEF Next

(* DebuggerReadOrWriteMsr with its per-core DPCs implements the safety     *)
(* part of MsrAbstract (MsrImplementsAbstract without its fairness), for   *)
(* every processor count: whatever the order of the DPCs, the fan-out is   *)
(* one atomic write or read of all targets, then the return.               *)
THEOREM Refinement == Spec => Abs!SafeSpec
<1>1. Init => Abs!Init
  BY InitRefines
<1>2. IInv /\ [Next]_vars => [Abs!Next]_Abs!vars
  BY NextRefines
<1>. QED
  BY <1>1, <1>2, Invariant, PTL DEF Spec, Abs!SafeSpec
====
