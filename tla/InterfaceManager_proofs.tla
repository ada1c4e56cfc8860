------------------------ MODULE InterfaceManager_proofs ------------------------
(***************************************************************************)
(* Proofs about InterfaceManager, for any number of faults during a call.  *)
(***************************************************************************)
EXTENDS InterfaceManager, TLAPS

Flags == /\ up \in BOOLEAN /\ seenUp \in BOOLEAN
         /\ trying \in BOOLEAN /\ ignored \in BOOLEAN

(* Where a call has got to tells what its faults can have left undone: one *)
(* fault for a mode that is not the wanted one, one for a link that is     *)
(* down, and two for both.                                                 *)
Progress ==
    /\ pc \in {"ensure", "query", "down"} => ~trying
    /\ pc = "ensure" => wanted = "monitor"
    /\ pc = "type" => (faults = 0 => ~up)
    /\ pc = "up" => (faults = 0 => mode = wanted)
    /\ pc = "recover" => faults >= 1
    /\ pc = "verify" =>
          /\ ~(mode = wanted /\ up) => faults >= 1
          /\ mode # wanted /\ ~up => faults >= 2
          /\ up \/ ignored

IInv == TypeOK /\ Progress /\ SuccessIsUsable /\ NotLeftDown

-----------------------------------------------------------------------------
(* It holds of an adapter in either mode, before the first call.           *)
LEMMA InitIInv == Init => IInv
<1> SUFFICES ASSUME Init PROVE IInv
  OBVIOUS
<1> USE DEF Init
<1>1. Flags
  BY Zenon DEF Flags
<1>2. mode \in Modes /\ wanted \in Modes /\ seenMode \in Modes /\ pc \in Points
      /\ result \in {"none", "ok", "error"} /\ faults \in 0 .. MaxFaults
  BY InterfaceAssumption DEF Modes, Points
<1>3. Progress /\ SuccessIsUsable /\ NotLeftDown
  BY DEF Progress, SuccessIsUsable, NotLeftDown, Returned
<1> QED
  BY <1>1, <1>2, <1>3 DEF IInv, TypeOK, Flags

(* Each command keeps the types ...                                        *)
LEMMA TypeStep ==
    ASSUME TypeOK, [Next]_vars
    PROVE  TypeOK'
<1> USE DEF TypeOK, adapter, Fault
<1>1. Flags'
  BY DEF Flags, Next, EnsureMonitorMode, SetInterfaceType, Call, CheckEnsure,
     CheckExists, TakeDown, ChangeType, BringUp, Recover, Verify, Succeeds,
     Fails, LinkDown, LinkUp, SetType, Proceed, Recovery, Raise, ReturnOk,
     Query, ReadType, ReadLink, QueryFails, vars
<1>2. (faults \in 0 .. MaxFaults)'
  BY InterfaceAssumption DEF Next, EnsureMonitorMode, SetInterfaceType, Call,
     CheckEnsure, CheckExists, TakeDown, ChangeType, BringUp, Recover, Verify,
     Succeeds, Fails, Query, ReadLink, QueryFails, vars
<1>3. (mode \in Modes /\ wanted \in Modes /\ seenMode \in Modes /\ pc \in Points
      /\ result \in {"none", "ok", "error"})'
  BY DEF Modes, Points, Next, EnsureMonitorMode, SetInterfaceType, Requested,
     Call, CheckEnsure, CheckExists, TakeDown, ChangeType, BringUp, Recover,
     Verify, Succeeds, Fails, LinkDown, LinkUp, SetType, Proceed, Recovery,
     Raise, ReturnOk, Query, ReadType, QueryFails, vars
<1> QED
  BY <1>1, <1>2, <1>3 DEF Flags

(* ... and accounts for what it leaves undone with a fault.                *)
LEMMA ProgressStep ==
    ASSUME IInv, [Next]_vars
    PROVE  (Progress /\ SuccessIsUsable /\ NotLeftDown)'
<1> USE DEF IInv, TypeOK, Progress, SuccessIsUsable, NotLeftDown, Returned,
            adapter, Fault
<1>1. CASE EnsureMonitorMode
  BY <1>1 DEF EnsureMonitorMode, Call
<1>2. CASE SetInterfaceType
  BY <1>2 DEF SetInterfaceType, Call
<1>3. CASE CheckEnsure
  BY <1>3 DEF CheckEnsure, Query, ReadType, ReadLink, QueryFails, Ready,
     ReturnOk, Raise
<1>4. CASE CheckExists
  BY <1>4 DEF CheckExists, Query, ReadType, ReadLink, QueryFails, Raise
<1>5. CASE TakeDown
  BY <1>5 DEF TakeDown, Succeeds, Fails, LinkDown, Proceed, Raise
<1>6. CASE ChangeType
  BY <1>6 DEF ChangeType, Succeeds, Fails, SetType, Proceed, Recovery
<1>7. CASE BringUp
  <2>1. CASE Succeeds(LinkUp) /\ ignored' = (faults' # faults) /\ Proceed("verify")
    <3>1. up' \/ faults' # faults
      BY <2>1 DEF Succeeds, LinkUp
    <3>2. up' \/ ignored'
      BY <2>1, <3>1, Zenon
    <3> QED
      BY <1>7, <2>1, <3>2 DEF BringUp, Succeeds, LinkUp, Proceed
  <2>2. CASE Fails(LinkUp) /\ Recovery /\ UNCHANGED ignored
    BY <1>7, <2>2 DEF BringUp, Fails, LinkUp, Proceed, Recovery
  <2> QED
    BY <1>7, <2>1, <2>2 DEF BringUp
<1>8. CASE Recover
  BY <1>8 DEF Recover, Succeeds, Fails, LinkUp, Raise
<1>9. CASE Verify
  BY <1>9 DEF Verify, Query, ReadType, ReadLink, QueryFails, Verified,
     ReturnOk, Raise
<1>10. CASE UNCHANGED vars
  BY <1>10 DEF vars
<1> QED
  BY <1>1, <1>2, <1>3, <1>4, <1>5, <1>6, <1>7, <1>8, <1>9, <1>10 DEF Next

-----------------------------------------------------------------------------
(* The inductive invariant.                                                *)
THEOREM InductiveInvariant == Spec => []IInv
<1>1. IInv /\ [Next]_vars => IInv'
  BY TypeStep, ProgressStep DEF IInv
<1> QED
  BY InitIInv, <1>1, PTL DEF Spec

(* Every variable keeps its type, and the count of faults its bound.       *)
THEOREM TypeCorrect == Spec => []TypeOK
  BY InductiveInvariant, PTL DEF IInv

(* set_interface_type and ensure_monitor_mode return only with the adapter *)
(* in the requested mode, and with its link up unless the driver ignored   *)
(* the "ip link set up" of this very call, whatever else went wrong.       *)
THEOREM ReturnMeansUsable == Spec => []SuccessIsUsable
  BY InductiveInvariant, PTL DEF IInv

(* A type change that fails once takes the link up again before it raises. *)
THEOREM FailureLeavesLinkUp == Spec => []NotLeftDown
  BY InductiveInvariant, PTL DEF IInv
=============================================================================
