---------------------------- MODULE ChannelHopper ----------------------------
(***************************************************************************)
(* ChannelHopper and ChannelManager of wids/capture/channel_manager.py: a  *)
(* daemon thread that tunes the adapter to the next channel of its plan    *)
(* with an iw command, reports the channel and dwells on it, until its     *)
(* stop event is set or a command fails.                                   *)
(*                                                                         *)
(* This module holds the state and the steps; CaptureWorker, which owns    *)
(* the hopper, handles the error that its thread reports.  Which channel   *)
(* is set is left out: nothing here depends on it.                         *)
(***************************************************************************)
EXTENDS Naturals

CONSTANTS
    Hoppers,  \* hopper objects; NoHopper is None
    NoHopper

ASSUME HopperAssumption == NoHopper \notin Hoppers

VARIABLES
    hopPc,    \* control point of each hopper's thread
    hopStop,  \* _stop_event.is_set()
    hopLocked \* the worker's main thread holds the hopper's _lock

hopVars == <<hopPc, hopStop, hopLocked>>

-----------------------------------------------------------------------------
HopAlivePoints == {"check", "set", "report", "dwell", "failed", "alarm",
                   "alarmed", "closing"}
HopPoints == HopAlivePoints \cup {"unstarted", "over"}

HopTypeOK ==
    /\ hopPc \in [Hoppers -> HopPoints]
    /\ hopStop \in [Hoppers -> BOOLEAN]
    /\ hopLocked \in [Hoppers -> BOOLEAN]

HopInit ==
    /\ hopPc = [h \in Hoppers |-> "unstarted"]
    /\ hopStop = [h \in Hoppers |-> FALSE]
    /\ hopLocked = [h \in Hoppers |-> FALSE]

HopAlive(h) == hopPc[h] \in HopAlivePoints

HopGoto(h, from, to) ==
    /\ hopPc[h] = from
    /\ hopPc' = [hopPc EXCEPT ![h] = to]

-----------------------------------------------------------------------------
(* start() and stop(), on the worker's main thread.  The lock is a plain   *)
(* one, so a section under it is a step of its own: a signal handler may   *)
(* run in the middle.                                                      *)
HopLock(h) ==
    /\ ~hopLocked[h]
    /\ hopLocked' = [hopLocked EXCEPT ![h] = TRUE]
    /\ UNCHANGED <<hopPc, hopStop>>

HopUnlock(h) == hopLocked' = [hopLocked EXCEPT ![h] = FALSE]

LaunchHop(h) ==
    /\ hopStop' = [hopStop EXCEPT ![h] = FALSE]
    /\ hopPc' = [hopPc EXCEPT ![h] = "check"]
    /\ HopUnlock(h)

AskHopToStop(h) ==
    /\ hopStop' = [hopStop EXCEPT ![h] = TRUE]
    /\ UNCHANGED <<hopPc, hopLocked>>

PeekThread(h) ==
    /\ HopUnlock(h)
    /\ UNCHANGED <<hopPc, hopStop>>

-----------------------------------------------------------------------------
(* _run: the thread.                                                       *)
CheckHopStop(h) ==
    /\ HopGoto(h, "check", IF hopStop[h] THEN "over" ELSE "set")
    /\ UNCHANGED <<hopStop, hopLocked>>

(* set_channel: a command that fails or times out raises.                  *)
SetChannel(h) ==
    /\ HopGoto(h, "set", "report") \/ HopGoto(h, "set", "failed")
    /\ UNCHANGED <<hopStop, hopLocked>>

(* on_channel_changed is the manager's update_current_channel.             *)
ReportChannel(h) ==
    /\ HopGoto(h, "report", "dwell")
    /\ UNCHANGED <<hopStop, hopLocked>>

EndDwell(h) ==
    /\ HopGoto(h, "dwell", IF hopStop[h] THEN "over" ELSE "check")
    /\ UNCHANGED <<hopStop, hopLocked>>

(* The except clause; the call of on_error comes next.                     *)
HopFails(h) ==
    /\ HopGoto(h, "failed", "alarm")
    /\ hopStop' = [hopStop EXCEPT ![h] = TRUE]
    /\ UNCHANGED hopLocked

HopStep(h) ==
    \/ CheckHopStop(h) \/ SetChannel(h) \/ ReportChannel(h) \/ EndDwell(h)
    \/ HopFails(h)
=============================================================================
