--------------------------- MODULE HeartbeatService ---------------------------
(***************************************************************************)
(* HeartbeatService of wids/workers/heartbeat.py: a daemon thread samples  *)
(* the manager's status and hands the record to a publisher, at once and   *)
(* after every interval, until its stop event is set.                      *)
(*                                                                         *)
(* CaptureWorker makes a service for every run.  This module holds the     *)
(* state and the steps of the services, CaptureWorker composes them with   *)
(* the other threads.  A record carries the phase of the manager and       *)
(* nothing else.                                                           *)
(***************************************************************************)
EXTENDS Naturals

CONSTANTS Services  \* service objects, one per run of the worker

VARIABLES
    beatPc,     \* control point of each service's thread
    beatStop,   \* _stop_event.is_set() of each service
    beatRecord, \* what the thread has sampled
    published   \* history: the record the publisher took last in this run

beatVars == <<beatPc, beatStop, beatRecord, published>>

-----------------------------------------------------------------------------
(* CaptureStatus.state: "active" stands for STARTING, RUNNING, STOPPING.   *)
Phases == {"idle", "active", "stopped", "failed"}
FinalPhases == {"stopped", "failed"}
NoRecord == "none"

BeatAlivePoints == {"sampling", "publishing", "waiting"}
BeatPoints == BeatAlivePoints \cup {"unstarted", "over"}

BeatTypeOK ==
    /\ beatPc \in [Services -> BeatPoints]
    /\ beatStop \in [Services -> BOOLEAN]
    /\ beatRecord \in [Services -> Phases \cup {NoRecord}]
    /\ \A s \in Services : beatPc[s] = "publishing" <=> beatRecord[s] # NoRecord
    /\ published \in Phases \cup {NoRecord}

BeatInit ==
    /\ beatPc = [s \in Services |-> "unstarted"]
    /\ beatStop = [s \in Services |-> FALSE]
    /\ beatRecord = [s \in Services |-> NoRecord]
    /\ published = NoRecord

BeatAlive(s) == beatPc[s] \in BeatAlivePoints

BeatGoto(s, from, to) ==
    /\ beatPc[s] = from
    /\ beatPc' = [beatPc EXCEPT ![s] = to]

(* The publisher takes the record, or raises: publish_once swallows that.  *)
Publish(record) == published' = record \/ UNCHANGED published

-----------------------------------------------------------------------------
(* start() and the first half of stop(), on the worker's thread.           *)
StartBeat(s) ==
    /\ ~BeatAlive(s)
    /\ beatStop' = [beatStop EXCEPT ![s] = FALSE]
    /\ beatPc' = [beatPc EXCEPT ![s] = "sampling"]
    /\ UNCHANGED <<beatRecord, published>>

AskBeatToStop(s) ==
    /\ beatStop' = [beatStop EXCEPT ![s] = TRUE]
    /\ UNCHANGED <<beatPc, beatRecord, published>>

(* _run: the thread.                                                       *)
Sample(s, phase) ==
    /\ BeatGoto(s, "sampling", "publishing")
    /\ beatRecord' = [beatRecord EXCEPT ![s] = phase]
    /\ UNCHANGED <<beatStop, published>>

PublishSample(s) ==
    /\ BeatGoto(s, "publishing", "waiting")
    /\ Publish(beatRecord[s])
    /\ beatRecord' = [beatRecord EXCEPT ![s] = NoRecord]
    /\ UNCHANGED beatStop

(* The wait ends with the stop event, or with the interval.                *)
EndWaitUnsampled(s) ==
    /\ BeatGoto(s, "waiting", IF beatStop[s] THEN "over" ELSE "publishing")
    /\ UNCHANGED <<beatStop, beatRecord, published>>
EndWait(s) ==
    /\ BeatGoto(s, "waiting", IF beatStop[s] THEN "over" ELSE "sampling")
    /\ UNCHANGED <<beatStop, beatRecord, published>>
=============================================================================
