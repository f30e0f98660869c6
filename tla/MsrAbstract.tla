---------------------------- MODULE MsrAbstract -----------------------------
(***************************************************************************)
(* What DebuggerReadOrWriteMsr promises its caller, with the per-core     *)
(* slots and the DPCs abstracted away.  A request is either refused at    *)
(* once, or accepted; an accepted write reaches every target core in that *)
(* one step, and the request is later finished: a read then returns the   *)
(* value the MSR has on each target core, with 8 bytes per value.         *)
(*                                                                         *)
(* On a refusal the abstract spec does not fix *ReturnSize: the code        *)
(* leaves it unchanged on an invalid single-core write, and the rule the   *)
(* spec states for failures is checked on its own (MsrReturnSizeRule).      *)
(***************************************************************************)
EXTENDS Naturals

CONSTANTS ProcessorsCount, MsrIds, Values, AllCores, CoreNumbers

Cores == 0 .. ProcessorsCount - 1

Requests ==
    [actionType : {"WRITE", "READ", "OTHER"}, coreNumber : CoreNumbers \cup {AllCores},
     msr : MsrIds, value : Values]

VARIABLES
    msr,         \* msr[c][m]: MSR m of core c
    busy,        \* an accepted request has not finished yet
    req,         \* the request being served, or the last one served
    userBuf,     \* the caller's output buffer
    returnSize,  \* *ReturnSize
    status       \* the status of the last finished request

vars == <<msr, busy, req, userBuf, returnSize, status>>

(* The cores a request addresses.                                          *)
TargetCores(r) == IF r.coreNumber = AllCores THEN Cores ELSE {r.coreNumber}

(* Each value returned takes the 8 bytes of a UINT64.                      *)
ValueBytes == 8

Init ==
    /\ msr \in [Cores -> [MsrIds -> Values]]
    /\ busy = FALSE
    /\ req = CHOOSE r \in Requests : TRUE
    /\ userBuf = [c \in Cores |-> 0]
    /\ returnSize = 0
    /\ status = "NONE"

(* A request that names a core the machine does not have, or an unknown   *)
(* action, or whose single-core dispatch fails, returns at once and      *)
(* touches no MSR.                                                         *)
Refuse(r) ==
    /\ ~busy
    /\ req' = r
    /\ \/ /\ r.actionType \in {"WRITE", "READ"} /\ r.coreNumber # AllCores
          /\ r.coreNumber >= ProcessorsCount
          /\ status' = "INVALID_PARAMETER"
       \/ /\ r.actionType \in {"WRITE", "READ"} /\ r.coreNumber # AllCores
          /\ r.coreNumber < ProcessorsCount
          /\ status' = "UNSUCCESSFUL"
       \/ /\ r.actionType = "OTHER"
          /\ status' = "UNSUCCESSFUL"
    /\ returnSize' \in Nat
    /\ UNCHANGED <<msr, busy, userBuf>>

(* A valid request is accepted; a write takes effect on all its targets.  *)
Accept(r) ==
    /\ ~busy
    /\ r.actionType \in {"WRITE", "READ"}
    /\ r.coreNumber = AllCores \/ r.coreNumber < ProcessorsCount
    /\ req' = r
    /\ busy' = TRUE
    /\ msr' = IF r.actionType = "WRITE"
                THEN [c \in Cores |-> IF c \in TargetCores(r)
                                      THEN [msr[c] EXCEPT ![r.msr] = r.value]
                                      ELSE msr[c]]
                ELSE msr
    /\ UNCHANGED <<userBuf, returnSize, status>>

(* The accepted request finishes with success; a read returns the target  *)
(* cores' values in core order.                                           *)
Finish ==
    /\ busy
    /\ busy' = FALSE
    /\ status' = "SUCCESS"
    /\ \/ /\ req.actionType = "WRITE"
          /\ returnSize' = 0 /\ UNCHANGED userBuf
       \/ /\ req.actionType = "READ" /\ req.coreNumber = AllCores
          /\ userBuf' = [c \in Cores |-> msr[c][req.msr]]
          /\ returnSize' = ValueBytes * ProcessorsCount
       \/ /\ req.actionType = "READ" /\ req.coreNumber # AllCores
          /\ userBuf' = [userBuf EXCEPT ![0] = msr[req.coreNumber][req.msr]]
          /\ returnSize' = ValueBytes
    /\ UNCHANGED <<msr, req>>

Next ==
    \/ \E r \in Requests : Refuse(r) \/ Accept(r)
    \/ Finish

SafeSpec == Init /\ [][Next]_vars

(* An accepted request is eventually finished.                             *)
Spec == SafeSpec /\ WF_vars(Finish)
=============================================================================
