-------------------------- MODULE InterfaceManager --------------------------
(***************************************************************************)
(* InterfaceManager of wids/capture/interface_manager.py: it puts a        *)
(* wireless adapter into monitor or managed mode with a sequence of ip and *)
(* iw commands, each a subprocess with a timeout.                          *)
(*                                                                         *)
(* A command takes effect and succeeds; or fails without effect; or exits  *)
(* with 0 although the driver ignored it; or is killed by the timeout,     *)
(* before or after its effect.  A fault is any but the first.  The adapter *)
(* is present throughout, in managed or monitor mode (another type, such   *)
(* as AP, is left out), and nobody else configures it.                     *)
(***************************************************************************)
EXTENDS Naturals

CONSTANT MaxFaults   \* bound: faults during one call

ASSUME InterfaceAssumption == MaxFaults \in Nat

VARIABLES
    mode,     \* interface_type of the adapter
    up,       \* is its link up?
    pc,       \* the command that comes next
    wanted,   \* the requested mode
    seenMode, \* what the last query of the adapter returned
    seenUp,
    result,   \* of the last call: "ok" or "error"; "none" before it returns
    faults,   \* faults in this call
    trying,   \* history: has the call reached its try block?
    ignored   \* history: did the driver ignore the call's "ip link set up"?

adapter == <<mode, up>>
vars == <<mode, up, pc, wanted, seenMode, seenUp, result, faults, trying,
          ignored>>

-----------------------------------------------------------------------------
Modes == {"managed", "monitor"}
InterfaceTypes == Modes \cup {"AP"}
Points == {"idle", "ensure", "query", "down", "type", "up", "recover", "verify"}

TypeOK ==
    /\ mode \in Modes /\ wanted \in Modes /\ seenMode \in Modes
    /\ up \in BOOLEAN /\ seenUp \in BOOLEAN /\ trying \in BOOLEAN
    /\ ignored \in BOOLEAN
    /\ pc \in Points
    /\ result \in {"none", "ok", "error"}
    /\ faults \in 0 .. MaxFaults

Init ==
    /\ mode \in Modes /\ up \in BOOLEAN
    /\ pc = "idle"
    /\ wanted = "managed" /\ seenMode = "managed"
    /\ seenUp = FALSE /\ trying = FALSE /\ ignored = FALSE
    /\ result = "none"
    /\ faults = 0

-----------------------------------------------------------------------------
Fault == faults < MaxFaults /\ faults' = faults + 1

(* A command with this effect on the adapter: it exits with 0 ...          *)
Succeeds(effect) ==
    \/ effect /\ UNCHANGED faults
    \/ Fault /\ UNCHANGED adapter

(* ... or does not, or the timeout makes it raise.                         *)
Fails(effect) ==
    /\ Fault
    /\ UNCHANGED adapter \/ effect

Proceed(to) == pc' = to /\ UNCHANGED <<result, seenMode, seenUp>>

Raise ==
    /\ pc' = "idle"
    /\ result' = "error"
    /\ UNCHANGED <<seenMode, seenUp>>

ReturnOk ==
    /\ pc' = "idle"
    /\ result' = "ok"

LinkDown == up' = FALSE /\ UNCHANGED mode
LinkUp == up' = TRUE /\ UNCHANGED mode
SetType == mode' = wanted /\ UNCHANGED up

(* get_interface: the type that iw dev prints, and the link that ip link   *)
(* show prints.  The latter may fail without raising: the link then counts *)
(* as down.                                                                *)
ReadType == seenMode' = mode

ReadLink ==
    \/ seenUp' = up /\ UNCHANGED faults
    \/ Fault /\ seenUp' = FALSE

Query == UNCHANGED adapter /\ ReadType /\ ReadLink

QueryFails == Fault /\ UNCHANGED adapter

-----------------------------------------------------------------------------
Call(to, m) ==
    /\ pc = "idle"
    /\ pc' = to
    /\ wanted' = m
    /\ result' = "none"
    /\ faults' = 0
    /\ trying' = FALSE /\ ignored' = FALSE
    /\ UNCHANGED <<adapter, seenMode, seenUp>>

EnsureMonitorMode == Call("ensure", "monitor")

(* Any other type is refused before the first command.                     *)
RequestedUnchecked == InterfaceTypes
Requested == {m \in InterfaceTypes : m \in Modes}

SetInterfaceType == \E m \in Requested : Call("query", m)

(* ensure_monitor_mode changes nothing when the adapter is ready.          *)
ReadyWhenMonitor(m, u) == m = "monitor"
Ready(m, u) == m = "monitor" /\ u

CheckEnsure ==
    /\ pc = "ensure"
    /\ UNCHANGED <<wanted, trying, ignored>>
    /\ \/ /\ Query
          /\ IF Ready(seenMode', seenUp') THEN ReturnOk
             ELSE pc' = "query" /\ UNCHANGED result
       \/ QueryFails /\ Raise

CheckExists ==
    /\ pc = "query"
    /\ UNCHANGED <<wanted, trying, ignored>>
    /\ \/ Query /\ pc' = "down" /\ UNCHANGED result
       \/ QueryFails /\ Raise

(* The first command is outside of the try block: if it is killed after    *)
(* its effect, nothing takes the link up again.                            *)
TakeDown ==
    /\ pc = "down"
    /\ UNCHANGED <<wanted, ignored>>
    /\ \/ Succeeds(LinkDown) /\ Proceed("type") /\ trying' = TRUE
       \/ Fails(LinkDown) /\ Raise /\ UNCHANGED trying

NoRecovery == Raise
Recovery == Proceed("recover")

(* The kernel refuses to change the type of an interface that is up.       *)
ChangeType ==
    /\ pc = "type"
    /\ UNCHANGED <<wanted, trying, ignored>>
    /\ \/ ~up /\ Succeeds(SetType) /\ Proceed("up")
       \/ up /\ UNCHANGED <<adapter, faults>> /\ Recovery
       \/ Fails(SetType) /\ Recovery

BringUp ==
    /\ pc = "up"
    /\ UNCHANGED <<wanted, trying>>
    /\ \/ /\ Succeeds(LinkUp)
          /\ ignored' = (faults' # faults)
          /\ Proceed("verify")
       \/ Fails(LinkUp) /\ Recovery /\ UNCHANGED ignored

(* Best effort: what this command returns is not looked at, and the call   *)
(* raises in any case.                                                     *)
Recover ==
    /\ pc = "recover"
    /\ UNCHANGED <<wanted, trying, ignored>>
    /\ Succeeds(LinkUp) \/ Fails(LinkUp)
    /\ Raise

Verified(m) == m = wanted

Verify ==
    /\ pc = "verify"
    /\ UNCHANGED <<wanted, trying, ignored>>
    /\ \/ Query /\ (IF Verified(seenMode') THEN ReturnOk
                    ELSE pc' = "idle" /\ result' = "error")
       \/ QueryFails /\ Raise

Next ==
    \/ EnsureMonitorMode \/ SetInterfaceType
    \/ CheckEnsure \/ CheckExists \/ TakeDown \/ ChangeType \/ BringUp
    \/ Recover \/ Verify

Spec == Init /\ [][Next]_vars

-----------------------------------------------------------------------------
Returned(r) == pc = "idle" /\ result = r

(* A call that returns has put the adapter into the mode it was asked for, *)
(* whatever went wrong on the way: the type is read back.  Its link is up  *)
(* too, also if the adapter was found in monitor mode with its link down,  *)
(* with one exception: the link is not read back, so that a driver that    *)
(* ignores "ip link set up", and lets it exit with 0, leaves it down.      *)
SuccessIsUsable ==
    Returned("ok") => mode = wanted /\ (up \/ ignored)

(* The comment of set_interface_type, "do not leave the adapter down after *)
(* a failed type change": once in the try block, a call that raises leaves *)
(* the link up, also if a command was killed after its effect.  A second   *)
(* fault, of the recovery itself, is more than the code provides for.      *)
NotLeftDown == Returned("error") /\ trying /\ faults <= 1 => up
=============================================================================
