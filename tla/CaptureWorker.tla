---------------------------- MODULE CaptureWorker ----------------------------
(***************************************************************************)
(* CaptureWorker of wids/workers/capture_worker.py: run() and run_source() *)
(* on the main thread start a heartbeat service and the channel hopper,    *)
(* drive the capture manager and take everything down again, with joins    *)
(* that give up after five seconds.  The signal handler of main() runs on  *)
(* the main thread, between any two of its steps.                          *)
(*                                                                         *)
(* Of the capture manager, and of the source it reads, this module keeps   *)
(* what decides whether a stop is heard: when stop() is accepted, when the *)
(* stop event is cleared, and whether there is a capture to close yet.     *)
(* CaptureManager.tla has the whole of it.  Interface setup and evidence   *)
(* files are not looked into here.                                         *)
(***************************************************************************)
EXTENDS HeartbeatService, ChannelHopper, FiniteSets

CONSTANTS
    MaxRuns,    \* bound: runs of this worker
    MaxSignals, \* bound: signals, 0 or 1
    MaxTimeouts, \* bound: the main thread's joins that give up, 0, 1 or 2
    MaxTroubles \* bound: signals and joins that give up, taken together

ASSUME WorkerAssumption ==
    /\ MaxRuns \in Nat \ {0}
    /\ MaxSignals \in {0, 1}
    /\ MaxTimeouts \in 0 .. 2
    /\ MaxTroubles \in Nat
    /\ Services = 1 .. MaxRuns
    /\ Hoppers = 1 .. MaxRuns

VARIABLES
    workerPc,        \* control point of the main thread
    runs,            \* runs begun
    hopper,          \* _hopper
    backgroundError, \* _background_error is not None
    raising,         \* an exception is on its way out of run_source
    phase,           \* phase of the capture manager
    accepting,       \* its _state is STARTING or RUNNING: stop() is accepted
    stoppers,        \* history: whose stop() set the stop event since it was clear
    capture,         \* the source's _capture; "lost" if closing it failed
    closers,         \* hoppers whose stop() has yet to close this source
    handlerPc,       \* control point of the signal handler
    signals,         \* signals delivered
    outcome,         \* of the last run: "ok" or "error"; "none" before it returns
    finalSent,       \* history: the publisher took the final record
    timedOut         \* history: joins that gave up

runVars == <<runs, hopper, raising, outcome, finalSent>>
signalVars == <<handlerPc, signals>>
managerVars == <<phase, accepting, stoppers, capture, closers>>
workerVars == <<workerPc, runVars, backgroundError, managerVars, signalVars,
                timedOut>>
vars == <<workerVars, beatVars, hopVars>>

-----------------------------------------------------------------------------
(* In manager.run(): the event is cleared, RUNNING set, the capture opened,*)
(* stored, read, closed and forgotten, the final state set.                *)
Running == {"source", "storing", "session"}
ManagerRuns == {"opening", "starting"} \cup Running \cup {"forget", "ended"}
WorkerPoints == {"idle", "setup", "beat", "hop", "launch", "manage", "check",
                 "stopHop", "lockHop", "peekHop", "joinHop", "stopBeat",
                 "joinBeat", "finalBeat", "evidence"} \cup ManagerRuns
HandlerPoints == {"idle", "manager", "close", "hop", "lock", "done"}

WorkerTypeOK ==
    /\ workerPc \in WorkerPoints
    /\ runs \in 0 .. MaxRuns
    /\ hopper \in Hoppers \cup {NoHopper}
    /\ backgroundError \in BOOLEAN /\ raising \in BOOLEAN /\ finalSent \in BOOLEAN
    /\ phase \in Phases
    /\ accepting \in BOOLEAN
    /\ stoppers \subseteq {"hopper", "signal"}
    /\ capture \in {"none", "stored", "closed", "lost"}
    /\ closers \subseteq Hoppers
    /\ handlerPc \in HandlerPoints
    /\ signals \in 0 .. MaxSignals
    /\ outcome \in {"none", "ok", "error"}
    /\ timedOut \subseteq {"hop", "beat"}

TypeOK == BeatTypeOK /\ HopTypeOK /\ WorkerTypeOK

Init ==
    /\ BeatInit
    /\ HopInit
    /\ workerPc = "idle"
    /\ runs = 0
    /\ hopper = NoHopper
    /\ backgroundError = FALSE /\ raising = FALSE /\ finalSent = FALSE
    /\ phase = "idle"
    /\ accepting = FALSE
    /\ stoppers = {} /\ closers = {}
    /\ capture = "none"
    /\ handlerPc = "idle"
    /\ signals = 0
    /\ outcome = "none"
    /\ timedOut = {}

-----------------------------------------------------------------------------
(* The manager's stop(): ignored unless the state is STARTING or RUNNING;  *)
(* it sets STOPPING and the event, and closes the source afterwards.  A    *)
(* capture whose close() raises is forgotten although it still runs.       *)
AcceptStop(who) ==
    /\ accepting
    /\ accepting' = FALSE
    /\ stoppers' = stoppers \cup {who}
    /\ UNCHANGED <<phase, capture>>

IgnoreStop == ~accepting /\ UNCHANGED managerVars

CloseNothing == UNCHANGED <<phase, accepting, stoppers, capture>>
CloseSource ==
    /\ IF capture = "stored" THEN capture' \in {"closed", "lost"}
                             ELSE UNCHANGED capture
    /\ UNCHANGED <<phase, accepting, stoppers>>

(* The main thread holds the manager's RLock throughout _begin, and the    *)
(* source's plain Lock while it stores or forgets the capture.  A handler, *)
(* on the same thread, passes the first and not the second.                *)
ManagerFree == workerPc # "opening"
SourceFree == workerPc \notin {"storing", "forget"}

Interrupted == handlerPc \notin {"idle", "done"}

Goto(from, to) ==
    /\ ~Interrupted
    /\ workerPc = from
    /\ workerPc' = to

-----------------------------------------------------------------------------
BeginRun ==
    /\ runs < MaxRuns
    /\ runs' = runs + 1
    /\ outcome' = "none"
    /\ finalSent' = FALSE
    /\ published' = NoRecord

(* run(): _build_source tunes to the first channel and makes a hopper.     *)
Run ==
    /\ Goto("idle", "setup")
    /\ BeginRun
    /\ UNCHANGED <<hopper, raising, backgroundError, managerVars, signalVars,
                   timedOut, beatPc, beatStop, beatRecord, hopVars>>

BuildSource ==
    /\ Goto("setup", "beat")
    /\ hopper' = runs
    /\ UNCHANGED <<runs, raising, outcome, finalSent, backgroundError, managerVars,
                   signalVars, timedOut, beatVars, hopVars>>

(* The constructor of the source, the last to fail, comes after the        *)
(* assignment of _hopper.                                                  *)
BuildFails ==
    /\ Goto("setup", "idle")
    /\ outcome' = "error"
    /\ hopper' \in {hopper, runs}
    /\ UNCHANGED <<runs, raising, finalSent, backgroundError, managerVars,
                   signalVars, timedOut, beatVars, hopVars>>

(* run_source() with an injected source: the hopper of an earlier run(),   *)
(* if there is one, is used again.                                         *)
RunSource ==
    /\ Goto("idle", "beat")
    /\ BeginRun
    /\ UNCHANGED <<hopper, raising, backgroundError, managerVars, signalVars,
                   timedOut, beatPc, beatStop, beatRecord, hopVars>>

StartHeartbeat ==
    /\ Goto("beat", "hop")
    /\ backgroundError' = FALSE
    /\ raising' = FALSE
    /\ StartBeat(runs)
    /\ UNCHANGED <<runs, hopper, outcome, finalSent, managerVars, signalVars, timedOut,
                   hopVars>>

SkipHopper ==
    /\ hopper = NoHopper
    /\ \/ Goto("hop", "manage")
       \/ Goto("stopHop", "stopBeat")
    /\ UNCHANGED <<runVars, backgroundError, managerVars, signalVars, timedOut,
                   beatVars, hopVars>>

(* hopper.start(): the check under its lock.  The RuntimeError of a hopper *)
(* that still runs leaves run_source outside of its try block: nobody      *)
(* stops the heartbeat.                                                    *)
EnterHopper ==
    /\ hopper # NoHopper
    /\ ~HopAlive(hopper)
    /\ Goto("hop", "launch")
    /\ HopLock(hopper)
    /\ UNCHANGED <<runVars, backgroundError, managerVars, signalVars, timedOut,
                   beatVars>>

HopperStillRuns ==
    /\ hopper # NoHopper
    /\ HopAlive(hopper)
    /\ Goto("hop", "idle")
    /\ outcome' = "error"
    /\ UNCHANGED <<runs, hopper, raising, finalSent, backgroundError, managerVars,
                   signalVars, timedOut, beatVars, hopVars>>

LaunchHopper ==
    /\ Goto("launch", "manage")
    /\ LaunchHop(hopper)
    /\ UNCHANGED <<runVars, backgroundError, managerVars, signalVars, timedOut,
                   beatVars>>

-----------------------------------------------------------------------------
(* manager.run(): _begin makes the session stoppable ...                   *)
BeginSession ==
    /\ Goto("manage", "opening")
    /\ phase' = "active"
    /\ accepting' = TRUE
    /\ capture' = "none"
    /\ closers' = {}
    /\ UNCHANGED <<runVars, backgroundError, stoppers, signalVars, timedOut, beatVars,
                   hopVars>>

(* ... and then clears the event, with what a handler has asked meanwhile. *)
FinishBegin ==
    /\ Goto("opening", "starting")
    /\ stoppers' = {}
    /\ UNCHANGED <<runVars, backgroundError, phase, accepting, capture, closers,
                   signalVars, timedOut, beatVars, hopVars>>

(* RUNNING, whatever the state has become meanwhile.                       *)
SetRunning ==
    /\ Goto("starting", "source")
    /\ accepting' = TRUE
    /\ UNCHANGED <<runVars, backgroundError, phase, stoppers, capture, closers,
                   signalVars, timedOut, beatVars, hopVars>>

OpenCapture ==
    /\ Goto("source", "storing")
    /\ UNCHANGED <<runVars, backgroundError, managerVars, signalVars, timedOut,
                   beatVars, hopVars>>

Fail(from, to) ==
    /\ Goto(from, to)
    /\ raising' = TRUE
    /\ UNCHANGED <<runs, hopper, outcome, finalSent, backgroundError, managerVars,
                   signalVars, timedOut, beatVars, hopVars>>

OpenFails == Fail("source", "ended")

StoreCapture ==
    /\ Goto("storing", "session")
    /\ capture' = "stored"
    /\ UNCHANGED <<runVars, backgroundError, phase, accepting, stoppers, closers,
                   signalVars, timedOut, beatVars, hopVars>>

(* The read ends: the source has no more, or the loop sees the stop event; *)
(* or it fails.  The generator closes and forgets the capture.             *)
SourceEnds ==
    /\ Goto("session", "forget")
    /\ UNCHANGED <<runVars, backgroundError, managerVars, signalVars, timedOut,
                   beatVars, hopVars>>

SourceFails == Fail("session", "forget")

ForgetCapture ==
    /\ Goto("forget", "ended")
    /\ capture' = "none"
    /\ UNCHANGED <<runVars, backgroundError, phase, accepting, stoppers, closers,
                   signalVars, timedOut, beatVars, hopVars>>

(* STOPPED or, after an error that no stop asked for, FAILED.              *)
EndSession ==
    /\ \/ /\ raising /\ stoppers = {}
          /\ Goto("ended", "stopHop")
          /\ phase' = "failed"
          /\ UNCHANGED raising
       \/ /\ ~raising \/ stoppers # {}
          /\ Goto("ended", "check")
          /\ phase' = "stopped"
          /\ raising' = FALSE
    /\ accepting' = FALSE
    /\ UNCHANGED <<runs, hopper, outcome, finalSent, backgroundError, stoppers,
                   capture, closers, signalVars, timedOut, beatVars, hopVars>>

CheckBackground ==
    /\ Goto("check", "stopHop")
    /\ raising' = backgroundError
    /\ UNCHANGED <<runs, hopper, outcome, finalSent, backgroundError, managerVars,
                   signalVars, timedOut, beatVars, hopVars>>

-----------------------------------------------------------------------------
(* The finally clause: hopper.stop(timeout=5.0), ...                       *)
StopHopper ==
    /\ hopper # NoHopper
    /\ Goto("stopHop", "lockHop")
    /\ AskHopToStop(hopper)
    /\ UNCHANGED <<runVars, backgroundError, managerVars, signalVars, timedOut,
                   beatVars>>

LockHopper ==
    /\ Goto("lockHop", "peekHop")
    /\ HopLock(hopper)
    /\ UNCHANGED <<runVars, backgroundError, managerVars, signalVars, timedOut,
                   beatVars>>

PeekHopper ==
    /\ Goto("peekHop", "joinHop")
    /\ PeekThread(hopper)
    /\ UNCHANGED <<runVars, backgroundError, managerVars, signalVars, timedOut,
                   beatVars>>

(* A join returns when the thread is over, or gives up.                    *)
JoinNothing(alive, who) == UNCHANGED timedOut
Join(alive, who) ==
    \/ ~alive /\ UNCHANGED timedOut
    \/ /\ alive
       /\ timedOut' = timedOut \cup {who}
       /\ Cardinality(timedOut') <= MaxTimeouts
       /\ signals + Cardinality(timedOut') <= MaxTroubles

JoinHopper ==
    /\ Goto("joinHop", "stopBeat")
    /\ Join(HopAlive(hopper), "hop")
    /\ UNCHANGED <<runVars, backgroundError, managerVars, signalVars, beatVars,
                   hopVars>>

(* ... heartbeat.stop(timeout=5.0, publish_final=True), ...                *)
StopHeartbeat ==
    /\ Goto("stopBeat", "joinBeat")
    /\ AskBeatToStop(runs)
    /\ UNCHANGED <<runVars, backgroundError, managerVars, signalVars, timedOut,
                   hopVars>>

JoinHeartbeat ==
    /\ Goto("joinBeat", "finalBeat")
    /\ Join(BeatAlive(runs), "beat")
    /\ UNCHANGED <<runVars, backgroundError, managerVars, signalVars, beatVars,
                   hopVars>>

PublishFinal ==
    /\ Goto("finalBeat", "evidence")
    /\ \/ published' = phase /\ finalSent' = TRUE
       \/ UNCHANGED <<published, finalSent>>
    /\ UNCHANGED <<runs, hopper, raising, outcome, backgroundError, managerVars,
                   signalVars, timedOut, beatPc, beatStop, beatRecord, hopVars>>

(* ... and _finalize_evidence, whose error comes too late to be raised.    *)
FinalizeEvidence ==
    /\ Goto("evidence", "idle")
    /\ outcome' = IF raising THEN "error" ELSE "ok"
    /\ backgroundError' \in {backgroundError, TRUE}
    /\ raising' = FALSE
    /\ UNCHANGED <<runs, hopper, finalSent, managerVars, signalVars,
                   timedOut, beatVars, hopVars>>

-----------------------------------------------------------------------------
(* _on_background_error, on the hopper's thread: the error is stored, and  *)
(* then the manager stopped.  If the source of the stop is not the current *)
(* one any more, closing it changes nothing.                               *)
StoreError(h, from, to) ==
    /\ HopGoto(h, from, to)
    /\ backgroundError' = TRUE
    /\ UNCHANGED managerVars

StopSession(h, from, ignored) ==
    /\ ManagerFree
    /\ \/ /\ HopGoto(h, from, "closing")
          /\ AcceptStop("hopper")
          /\ closers' = closers \cup {h}
       \/ HopGoto(h, from, ignored) /\ IgnoreStop
    /\ UNCHANGED backgroundError

CloseStopped(h, to) ==
    /\ HopGoto(h, "closing", to)
    /\ IF h \in closers THEN SourceFree /\ CloseSource
                        ELSE UNCHANGED <<phase, accepting, stoppers, capture>>
    /\ closers' = closers \ {h}
    /\ UNCHANGED backgroundError

StoreErrorLast(h) ==
    \/ StopSession(h, "alarm", "alarmed")
    \/ CloseStopped(h, "alarmed")
    \/ StoreError(h, "alarmed", "over")
StoreErrorOnly(h) == StoreError(h, "alarm", "over")
HandleError(h) ==
    \/ StoreError(h, "alarm", "alarmed")
    \/ StopSession(h, "alarmed", "over")
    \/ CloseStopped(h, "over")

OnBackgroundError(h) ==
    /\ HandleError(h)
    /\ UNCHANGED <<workerPc, runVars, signalVars, timedOut, beatVars, hopStop,
                   hopLocked>>

(* on_channel_changed and the status provider take the manager's lock.     *)
HopperThread(h) ==
    \/ /\ HopStep(h)
       /\ hopPc[h] = "report" => ManagerFree
       /\ UNCHANGED <<workerVars, beatVars>>
    \/ OnBackgroundError(h)

HeartbeatThread(s) ==
    /\ \/ ManagerFree /\ Sample(s, phase)
       \/ PublishSample(s) \/ EndWait(s)
    /\ UNCHANGED <<workerVars, hopVars>>

-----------------------------------------------------------------------------
(* The signal handler: worker.stop().                                      *)
Signal ==
    /\ handlerPc = "idle"
    /\ signals < MaxSignals
    /\ signals + Cardinality(timedOut) < MaxTroubles
    /\ signals' = signals + 1
    /\ handlerPc' = "manager"
    /\ UNCHANGED <<workerPc, runVars, backgroundError, managerVars, timedOut,
                   beatVars, hopVars>>

HandlerGoto(from, to) ==
    /\ handlerPc = from
    /\ handlerPc' = to
    /\ UNCHANGED <<workerPc, runVars, backgroundError, signals, timedOut, beatVars>>

AfterManager == IF hopper = NoHopper THEN "done" ELSE "hop"

HandlerStopsManager ==
    /\ \/ HandlerGoto("manager", "close") /\ AcceptStop("signal")
       \/ HandlerGoto("manager", AfterManager) /\ IgnoreStop
    /\ UNCHANGED <<closers, hopVars>>

(* A plain lock: the main thread, if it holds it, never goes on.           *)
HandlerClosesSource ==
    /\ HandlerGoto("close", AfterManager)
    /\ SourceFree
    /\ CloseSource
    /\ UNCHANGED <<closers, hopVars>>

HandlerStopsHopper ==
    /\ HandlerGoto("hop", "lock")
    /\ AskHopToStop(hopper)
    /\ UNCHANGED managerVars

(* Another plain lock.  The join that follows ends, by itself or by its    *)
(* timeout, and does nothing.                                              *)
HandlerLocks ==
    /\ HandlerGoto("lock", "done")
    /\ ~hopLocked[hopper]
    /\ UNCHANGED <<managerVars, hopVars>>

HandlerStep ==
    \/ HandlerStopsManager \/ HandlerClosesSource \/ HandlerStopsHopper
    \/ HandlerLocks

-----------------------------------------------------------------------------
(* The steps the main thread takes by itself; a read that a packet, a      *)
(* fault or the end of the file would end is the environment's.            *)
MainStep ==
    \/ BuildSource \/ BuildFails \/ StartHeartbeat \/ SkipHopper \/ EnterHopper
    \/ HopperStillRuns \/ LaunchHopper
    \/ BeginSession \/ FinishBegin \/ SetRunning \/ OpenCapture \/ OpenFails
    \/ StoreCapture \/ ForgetCapture \/ EndSession
    \/ CheckBackground \/ StopHopper \/ LockHopper \/ PeekHopper \/ JoinHopper
    \/ StopHeartbeat \/ JoinHeartbeat \/ PublishFinal \/ FinalizeEvidence

Next ==
    \/ Run \/ RunSource \/ MainStep \/ SourceEnds \/ SourceFails
    \/ \E h \in Hoppers : HopperThread(h)
    \/ \E s \in Services : HeartbeatThread(s)
    \/ Signal \/ HandlerStep

Spec == Init /\ [][Next]_vars

(* Threads run, the handler goes on once it has begun, and the read of a   *)
(* capture that has been closed returns.  Nothing makes the read of an     *)
(* open capture return, stop or no stop: the channel may be silent.  The   *)
(* hoppers share one fairness, and so do the heartbeats: less than each of *)
(* these threads has, and enough.                                          *)
ReadClosed == capture = "closed" /\ (SourceEnds \/ SourceFails)

Fairness ==
    /\ WF_vars(MainStep)
    /\ WF_vars(ReadClosed)
    /\ WF_vars(HandlerStep)
    /\ WF_vars(\E h \in Hoppers : HopperThread(h))
    /\ WF_vars(\E s \in Services : HeartbeatThread(s))

FairSpec == Spec /\ Fairness

(* A packet comes, sooner or later, and the loop then sees the stop event. *)
StopEnds == stoppers # {} /\ SourceEnds
BusyAir == WF_vars(StopEnds)

-----------------------------------------------------------------------------
(* Properties                                                              *)

NoTimeouts == timedOut = {}

(* Unless a join gave up, the last record that reaches the publisher after *)
(* a run is the final one: no sample taken earlier overtakes it.           *)
LastRecordFinal ==
    workerPc = "idle" /\ finalSent /\ NoTimeouts => published \in FinalPhases

(* Unless a join gave up, a run leaves no thread behind: nobody tunes the  *)
(* adapter or publishes a heartbeat between runs.                          *)
ThreadsEnd ==
    workerPc = "idle" /\ NoTimeouts =>
        /\ \A h \in Hoppers : ~HopAlive(h)
        /\ \A s \in Services : ~BeatAlive(s)

(* A session that the hopper's failure has stopped is never reported as a  *)
(* run without error, although it ends with the state STOPPED.             *)
HopperStopReported ==
    workerPc = "idle" /\ "hopper" \in stoppers /\ phase = "stopped" /\ NoTimeouts
        => outcome = "error"

(* A handler that waits for a lock of the thread it has interrupted.       *)
Stuck ==
    \/ handlerPc = "lock" /\ hopLocked[hopper]
    \/ handlerPc = "close" /\ ~SourceFree

HopperFailed == hopper # NoHopper /\ hopPc[hopper] = "failed"

(* A hopper that fails once the manager is RUNNING ends the session, if    *)
(* packets keep coming.  Three things may prevent it: a signal has blocked *)
(* the process (Stuck); the channel is silent and every stop() came before *)
(* the capture was stored, or failed to close it (not BusyAir); the hopper *)
(* failed before RUNNING, when its stop() is ignored, because the manager  *)
(* was IDLE, or STOPPING from a stop() whose event _begin then cleared.    *)
HopperFailureEnds ==
    BusyAir => ((workerPc \in Running /\ HopperFailed)
                   ~> (workerPc = "idle" \/ Stuck))

(* Even if no packet ever comes, a hopper that fails while the capture is  *)
(* being read, with no stop() before, ends the session by closing the      *)
(* capture, unless closing it fails or a signal has blocked the process.   *)
HopperFailureCloses ==
    (workerPc = "session" /\ accepting /\ capture = "stored" /\ HopperFailed)
        ~> (workerPc = "idle" \/ capture = "lost" \/ Stuck)

(* stop() docstring: "Request an orderly worker shutdown."  A session does *)
(* not go on as if nothing had happened after the handler has returned.    *)
StopHeeded ==
    handlerPc = "done" /\ workerPc = "session" => stoppers # {}
=============================================================================
