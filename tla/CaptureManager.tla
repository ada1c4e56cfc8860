--------------------------- MODULE CaptureManager ---------------------------
(***************************************************************************)
(* CaptureManager of wids/capture/capture_manager.py: run(source) drives a *)
(* packet source through parser, frame sink and feature extractor on the   *)
(* calling thread; stop() may be called by other threads (the channel      *)
(* hopper's error callback) and by the signal handler that main() installs,*)
(* which Python executes on the main thread, between two of its steps.     *)
(*                                                                         *)
(* self._lock is an RLock: a handler enters it although the main thread it *)
(* interrupted holds it.  Blocks under the lock that do one thing are one  *)
(* action; only _begin, which a handler can interrupt half way, is two.    *)
(***************************************************************************)
EXTENDS PacketSource

CONSTANTS
    Runners,     \* threads that call run()
    MainThread,  \* the runner on which signal handlers execute
    Stoppers,    \* other threads, each calling stop() once
    Handlers     \* deliveries of SIGINT/SIGTERM, each calling stop() once

ASSUME ManagerAssumption ==
    /\ Agents = Runners \cup Stoppers \cup Handlers
    /\ MainThread \in Runners
    /\ Runners \cap Stoppers = {}
    /\ Runners \cap Handlers = {}
    /\ Stoppers \cap Handlers = {}

VARIABLES
    state,        \* _state
    stopEvent,    \* _stop_event.is_set()
    source,       \* _source
    lock,         \* owner of _lock while _begin holds it
    seen,         \* _packets_seen
    parsed,       \* _packets_parsed
    skipped,      \* _packets_skipped
    parseErrors,  \* _parse_errors
    reasonCounts, \* _reason_counts
    seenPackets,  \* _seen_packets
    lastError,    \* _last_error, by where it came from
    pc,           \* control point of each runner
    argument,     \* the source each runner passed to run()
    reason,       \* the reason a runner passes to _record_skip
    unused,       \* sources no run() has been given yet
    stopPc,       \* control point of each stop() caller
    delivered,    \* history: frame_sink calls per source and packet number
    allowance     \* history: packets taken when stop() was accepted

countVars == <<seen, parsed, skipped, parseErrors, reasonCounts, lastError>>
sessionVars == <<state, stopEvent, source, lock>>
historyVars == <<delivered, allowance>>
runnerVars == <<pc, argument, reason, unused>>
managerVars == <<sessionVars, countVars, seenPackets, runnerVars, stopPc,
                 historyVars>>
vars == <<managerVars, sourceVars>>

-----------------------------------------------------------------------------
States == {"IDLE", "STARTING", "RUNNING", "STOPPING", "STOPPED", "FAILED"}
ActiveStatesButStopping == {"STARTING", "RUNNING"}
ActiveStates == {"STARTING", "RUNNING", "STOPPING"}
StoppableUnlessIdle == States \ {"IDLE", "STOPPING"}
StoppableStates == {"STARTING", "RUNNING"}

Reasons == {"duplicate", "ignored", "rejected", "processing"}
ErrorReasonsAll == Reasons
ErrorReasons == Reasons \ {"ignored"}
NoReason == "none"

RunnerPoints == {"idle", "begin", "starting", "next", "count", "dedup",
                 "parse", "deliver", "skip", "note", "parsed", "ended",
                 "raised", "failing", "final", "report"}

(* Where a runner is between taking the session in _begin and the          *)
(* assignment of STOPPED or FAILED.                                        *)
SessionPoints == RunnerPoints \ {"idle", "final", "report"}
InSession(r) == pc[r] \in SessionPoints

(* How many packets a runner at one of these points holds: at most one,    *)
(* since one runner at most is in the loop.                                *)
Held(points) == IF \E r \in Runners : pc[r] \in points THEN 1 ELSE 0

NoLimit == MaxPackets + 1

SessionTypeOK ==
    /\ state \in States
    /\ stopEvent \in BOOLEAN
    /\ source \in Sources \cup {NoSource}
    /\ lock \in Runners \cup {NoAgent}

CountTypeOK ==
    /\ seen \in Nat /\ parsed \in Nat /\ skipped \in Nat /\ parseErrors \in Nat
    /\ reasonCounts \in [Reasons -> Nat]
    /\ seenPackets \subseteq Sources \X Nat
    /\ lastError \in {"none", "processing", "fatal"}

RunnerTypeOK ==
    /\ pc \in [Runners -> RunnerPoints]
    /\ argument \in [Runners -> Sources \cup {NoSource}]
    /\ reason \in [Runners -> Reasons \cup {NoReason}]
    /\ unused \subseteq Sources

CallerTypeOK ==
    stopPc \in [Stoppers \cup Handlers -> {"idle", "closing", "done", "ignored"}]

HistoryTypeOK ==
    /\ delivered \in [Sources \X PacketNumbers -> Nat]
    /\ allowance \in Nat

TypeOK ==
    /\ SourceTypeOK
    /\ SessionTypeOK
    /\ CountTypeOK
    /\ RunnerTypeOK
    /\ CallerTypeOK
    /\ HistoryTypeOK

Init ==
    /\ SourceInit
    /\ state = "IDLE"
    /\ stopEvent = FALSE
    /\ source = NoSource
    /\ lock = NoAgent
    /\ seen = 0 /\ parsed = 0 /\ skipped = 0 /\ parseErrors = 0
    /\ reasonCounts = [w \in Reasons |-> 0]
    /\ seenPackets = {}
    /\ lastError = "none"
    /\ pc = [r \in Runners |-> "idle"]
    /\ argument = [r \in Runners |-> NoSource]
    /\ reason = [r \in Runners |-> NoReason]
    /\ unused = Sources
    /\ stopPc = [c \in Stoppers \cup Handlers |-> "idle"]
    /\ delivered = [k \in Sources \X PacketNumbers |-> 0]
    /\ allowance = NoLimit

-----------------------------------------------------------------------------
ThreadOf(a) == IF a \in Handlers THEN MainThread ELSE a

LockIgnored(a) == TRUE
LockFree(a) == lock \in {NoAgent, ThreadOf(a)}

(* The main thread does not run its own code while a handler runs on it.   *)
Runnable(r) == r = MainThread => \A h \in Handlers : stopPc[h] # "closing"

Goto(r, from, to) ==
    /\ Runnable(r)
    /\ pc[r] = from
    /\ pc' = [pc EXCEPT ![r] = to]

(* Most steps of the loop body change the runner's own control point and   *)
(* nothing of the session, the sources or the stop() callers.              *)
KeepSession == UNCHANGED <<sessionVars, argument, unused, stopPc, allowance>>

-----------------------------------------------------------------------------
(* run(), part 1: _begin, and the assignment of RUNNING, which does not    *)
(* look at what the state has become meanwhile.  The state and _source are *)
(* assigned together here, one after the other in the code: only a signal  *)
(* between the two would see the difference, and would close nothing.      *)

Begin(r) ==
    /\ Goto(r, "idle", "begin")
    /\ LockFree(r)
    /\ state \notin ActiveStates
    /\ \E s \in unused :
          /\ argument' = [argument EXCEPT ![r] = s]
          /\ unused' = unused \ {s}
          /\ source' = s
    /\ state' = "STARTING"
    /\ lock' = r
    /\ allowance' = NoLimit
    /\ UNCHANGED <<stopEvent, countVars, seenPackets, reason, stopPc, delivered,
                   sourceVars>>

(* "A capture session is already active": the call raises.                 *)
BeginRefused(r) ==
    /\ Goto(r, "idle", "idle")
    /\ LockFree(r)
    /\ state \in ActiveStates
    /\ \E s \in unused : unused' = unused \ {s}
    /\ UNCHANGED <<sessionVars, countVars, seenPackets, argument, reason, stopPc,
                   historyVars, sourceVars>>

ResetCountsNotSkipped ==
    /\ seen' = 0 /\ parsed' = 0 /\ parseErrors' = 0 /\ UNCHANGED skipped
    /\ reasonCounts' = [w \in Reasons |-> 0] /\ lastError' = "none" /\ seenPackets' = {}
ResetCountsNotErrors ==
    /\ seen' = 0 /\ parsed' = 0 /\ skipped' = 0 /\ UNCHANGED parseErrors
    /\ reasonCounts' = [w \in Reasons |-> 0] /\ lastError' = "none" /\ seenPackets' = {}
ResetCountsNoKeys ==
    /\ seen' = 0 /\ parsed' = 0 /\ skipped' = 0 /\ parseErrors' = 0
    /\ reasonCounts' = <<>> /\ lastError' = "none" /\ seenPackets' = {}
ResetCounts ==
    /\ seen' = 0 /\ parsed' = 0 /\ skipped' = 0 /\ parseErrors' = 0
    /\ reasonCounts' = [w \in Reasons |-> 0] /\ lastError' = "none" /\ seenPackets' = {}

FinishBegin(r) ==
    /\ Goto(r, "begin", "starting")
    /\ ResetCounts
    /\ stopEvent' = FALSE
    /\ lock' = NoAgent
    /\ UNCHANGED <<state, source, argument, reason, unused, stopPc, historyVars,
                   sourceVars>>

SetRunning(r) ==
    /\ Goto(r, "starting", "next")
    /\ LockFree(r)
    /\ state' = "RUNNING"
    /\ UNCHANGED <<stopEvent, source, lock, countVars, seenPackets, argument,
                   reason, unused, stopPc, historyVars, sourceVars>>

-----------------------------------------------------------------------------
(* run(), part 2: the loop over source.packets(self._stop_event).          *)

(* While the runner is at "next", the generator runs.                      *)
InGenerator(r) == pc[r] = "next" /\ Runnable(r)

Arrival(r) ==
    /\ InGenerator(r)
    /\ seen < MaxPackets \/ stopEvent
    /\ ReadPacket(argument[r])
    /\ UNCHANGED managerVars

SourceFault(r) ==
    /\ InGenerator(r)
    /\ \/ OpenFails(argument[r], stopEvent)
       \/ ReadFails(r, argument[r], stopEvent)
    /\ UNCHANGED managerVars

SourceEnd(r) ==
    /\ InGenerator(r)
    /\ Exhausted(r, argument[r])
    /\ UNCHANGED managerVars

GeneratorStep(r) ==
    /\ InGenerator(r)
    /\ \/ Open(argument[r])
       \/ EnterStore(r, argument[r])
       \/ Store(argument[r])
       \/ CheckStop(r, argument[r], stopEvent)
    /\ UNCHANGED managerVars

(* The close that a runner is in, in the generator's finally block or in   *)
(* run()'s.                                                                *)
RunnerClose(r) ==
    /\ Runnable(r)
    /\ CloseStep(r)
    /\ UNCHANGED managerVars

NeverBreaks == FALSE
MustBreak == stopEvent

(* An envelope is yielded; the loop looks at the stop event once more.     *)
TakePacket(r) ==
    /\ pc[r] = "next"
    /\ generator[argument[r]] = "yielded"
    /\ IF MustBreak
       THEN /\ InGenerator(r)
            /\ Abandon(r, argument[r], FALSE)
            /\ UNCHANGED managerVars
       ELSE /\ Goto(r, "next", "count")
            /\ KeepSession
            /\ UNCHANGED <<countVars, seenPackets, reason, delivered, sourceVars>>

Count(r) ==
    /\ Goto(r, "count", "dedup")
    /\ LockFree(r)
    /\ seen' = seen + 1
    /\ KeepSession
    /\ UNCHANGED <<parsed, skipped, parseErrors, reasonCounts, lastError,
                   seenPackets, reason, delivered, sourceVars>>

PacketKey(r) == <<argument[r], number[argument[r]]>>

Skip(r, from, why) ==
    /\ Goto(r, from, "skip")
    /\ reason' = [reason EXCEPT ![r] = why]

RememberNothing(r) == UNCHANGED seenPackets
Remember(r) == seenPackets' = seenPackets \cup {PacketKey(r)}

Dedup(r) ==
    /\ pc[r] = "dedup"
    /\ LockFree(r)
    /\ Remember(r)
    /\ IF PacketKey(r) \in seenPackets
       THEN Skip(r, "dedup", "duplicate")
       ELSE Goto(r, "dedup", "parse") /\ UNCHANGED reason
    /\ KeepSession
    /\ UNCHANGED <<countVars, delivered, sourceVars>>

(* PacketParser.parse never raises.  A PARSED result without a frame       *)
(* counts with the rejections: it is an error skip as they are.            *)
Parse(r) ==
    /\ \/ Goto(r, "parse", "deliver") /\ UNCHANGED reason
       \/ Skip(r, "parse", "ignored")
       \/ Skip(r, "parse", "rejected")
    /\ KeepSession
    /\ UNCHANGED <<countVars, seenPackets, delivered, sourceVars>>

(* frame_sink, ingest and feature_sink, in this order; the first is where  *)
(* a frame becomes visible outside, and any of the three may raise.        *)
Deliver(r) ==
    /\ pc[r] = "deliver"
    /\ \/ /\ delivered' = [delivered EXCEPT ![PacketKey(r)] = @ + 1]
          /\ \/ Goto(r, "deliver", "parsed") /\ UNCHANGED reason
             \/ Skip(r, "deliver", "processing")
       \/ Skip(r, "deliver", "processing") /\ UNCHANGED delivered
    /\ KeepSession
    /\ UNCHANGED <<countVars, seenPackets, sourceVars>>

RecordSkip(r) ==
    /\ Goto(r, "skip", IF reason[r] = "processing" THEN "note" ELSE "next")
    /\ LockFree(r)
    /\ skipped' = skipped + 1
    /\ parseErrors' = IF reason[r] \in ErrorReasons THEN parseErrors + 1
                                                    ELSE parseErrors
    /\ reasonCounts' = [reasonCounts EXCEPT ![reason[r]] = @ + 1]
    /\ IF reason[r] = "processing" THEN UNCHANGED sourceVars
                                   ELSE Resume(argument[r])
    /\ reason' = [reason EXCEPT ![r] = NoReason]
    /\ KeepSession
    /\ UNCHANGED <<seen, parsed, lastError, seenPackets, delivered>>

(* last_error is set and on_processing_error called; what an injected      *)
(* callback raises leaves the loop.                                        *)
NoteError(r) ==
    /\ Goto(r, "note", "next")
    /\ LockFree(r)
    /\ lastError' = "processing"
    /\ Resume(argument[r]) \/ Abandon(r, argument[r], TRUE)
    /\ KeepSession
    /\ UNCHANGED <<seen, parsed, skipped, parseErrors, reasonCounts, seenPackets,
                   reason, delivered>>

CountParsed(r) ==
    /\ Goto(r, "parsed", "next")
    /\ LockFree(r)
    /\ parsed' = parsed + 1
    /\ Resume(argument[r])
    /\ KeepSession
    /\ UNCHANGED <<seen, skipped, parseErrors, reasonCounts, lastError,
                   seenPackets, reason, delivered>>

LoopEnds(r) ==
    /\ Goto(r, "next", IF failure[argument[r]] THEN "raised" ELSE "ended")
    /\ GeneratorDone(r, argument[r])
    /\ KeepSession
    /\ UNCHANGED <<countVars, seenPackets, reason, delivered, sourceVars>>

-----------------------------------------------------------------------------
(* run(), part 3: the end of the try block, its except clause and its      *)
(* finally clause.  The session is over for _begin once the state is set,  *)
(* and _source is dropped only afterwards.                                 *)

SetFinalState(r, from, final) ==
    /\ Goto(r, from, "final")
    /\ LockFree(r)
    /\ state' = final
    /\ EnterClose(r, argument[r], "grab")
    /\ UNCHANGED <<stopEvent, source, lock, seen, parsed, skipped, parseErrors,
                   reasonCounts, seenPackets, argument, reason, unused, stopPc,
                   historyVars, readerVars, attached, opened, sourceLock>>

SetStopped(r) ==
    /\ SetFinalState(r, "ended", "STOPPED")
    /\ UNCHANGED lastError

(* except: the stop event decides between STOPPED and FAILED, and is read  *)
(* before the lock is taken.                                               *)
CheckFailure(r) ==
    /\ Goto(r, "raised", IF stopEvent THEN "ended" ELSE "failing")
    /\ KeepSession
    /\ UNCHANGED <<countVars, seenPackets, reason, delivered, sourceVars>>

SetFailed(r) ==
    /\ SetFinalState(r, "failing", "FAILED")
    /\ lastError' = "fatal"

Finalize(r) ==
    /\ Goto(r, "final", "report")
    /\ LockFree(r)
    /\ closer[r] = "outside"
    /\ source' = NoSource
    /\ UNCHANGED <<state, stopEvent, lock, countVars, seenPackets, argument,
                   reason, unused, stopPc, historyVars, sourceVars>>

Return(r) ==
    /\ Goto(r, "report", "idle")
    /\ LockFree(r)
    /\ argument' = [argument EXCEPT ![r] = NoSource]
    /\ UNCHANGED <<sessionVars, countVars, seenPackets, reason, unused, stopPc,
                   historyVars, sourceVars>>

-----------------------------------------------------------------------------
(* stop()                                                                  *)

(* Handlers run one at a time: a second one would find STOPPING and return.*)
MayCall(c) == c \in Handlers => \A h \in Handlers : stopPc[h] # "closing"

RaiseNoEvent == UNCHANGED stopEvent
RaiseEvent == stopEvent' = TRUE

RequestStop(c) ==
    /\ stopPc[c] = "idle"
    /\ MayCall(c)
    /\ LockFree(c)
    /\ state \in StoppableStates
    /\ state' = "STOPPING"
    /\ RaiseEvent
    /\ allowance' = seen + Held({"count"})
    /\ IF source = NoSource
       THEN /\ stopPc' = [stopPc EXCEPT ![c] = "done"]
            /\ UNCHANGED closerVars
       ELSE /\ stopPc' = [stopPc EXCEPT ![c] = "closing"]
            /\ EnterClose(c, source, "grab")
    /\ UNCHANGED <<source, lock, countVars, seenPackets, runnerVars, delivered,
                   readerVars, attached, opened, sourceLock>>

IgnoreStop(c) ==
    /\ stopPc[c] = "idle"
    /\ MayCall(c)
    /\ LockFree(c)
    /\ state \notin StoppableStates
    /\ stopPc' = [stopPc EXCEPT ![c] = "ignored"]
    /\ UNCHANGED <<sessionVars, countVars, seenPackets, runnerVars, historyVars,
                   sourceVars>>

CallerClose(c) ==
    /\ CloseStep(c)
    /\ UNCHANGED managerVars

StopReturns(c) ==
    /\ stopPc[c] = "closing"
    /\ closer[c] = "outside"
    /\ stopPc' = [stopPc EXCEPT ![c] = "done"]
    /\ UNCHANGED <<sessionVars, countVars, seenPackets, runnerVars, historyVars,
                   sourceVars>>

-----------------------------------------------------------------------------
(* The steps a runner takes by itself, as opposed to what the environment  *)
(* decides: new calls, packets, faults and the end of a source.            *)
LoopStep(r) ==
    \/ GeneratorStep(r) \/ RunnerClose(r) \/ TakePacket(r)
    \/ Count(r) \/ Dedup(r) \/ Parse(r) \/ Deliver(r) \/ RecordSkip(r)
    \/ NoteError(r) \/ CountParsed(r) \/ LoopEnds(r)

RunnerStep(r) ==
    \/ FinishBegin(r) \/ SetRunning(r) \/ LoopStep(r)
    \/ SetStopped(r) \/ CheckFailure(r) \/ SetFailed(r)
    \/ Finalize(r) \/ Return(r)

Environment(r) ==
    \/ Begin(r) \/ BeginRefused(r)
    \/ Arrival(r) \/ SourceFault(r) \/ SourceEnd(r)

CallerStep(c) == CallerClose(c) \/ StopReturns(c)

(* The process ends: nothing is running and no call is outstanding.        *)
Finished ==
    /\ unused = {}
    /\ \A r \in Runners : pc[r] = "idle"
    /\ \A c \in Stoppers \cup Handlers : stopPc[c] \in {"done", "ignored"}
    /\ UNCHANGED vars

Next ==
    \/ \E r \in Runners : RunnerStep(r) \/ Environment(r)
    \/ \E c \in Stoppers \cup Handlers :
          RequestStop(c) \/ IgnoreStop(c) \/ CallerStep(c)
    \/ Finished

Spec == Init /\ [][Next]_vars

-----------------------------------------------------------------------------
(* Fairness.  A thread that can run does run, and a call of stop() goes on *)
(* once it has begun.  Reading from a finite file, or from a capture that  *)
(* is closed, returns.  Reading from an open live capture returns only if  *)
(* a packet arrives: FairSpec says nothing about that, and BusyAir says    *)
(* that the air is never quiet for ever.                                   *)

ReadReturns(r) ==
    /\ InGenerator(r)
    /\ argument[r] \notin LiveSources \/ ~opened[argument[r]]
    /\ Arrival(r) \/ SourceFault(r) \/ SourceEnd(r)

Fairness ==
    /\ \A r \in Runners : WF_vars(RunnerStep(r)) /\ WF_vars(ReadReturns(r))
    /\ \A c \in Stoppers \cup Handlers : WF_vars(CallerStep(c))

FairSpec == Spec /\ Fairness

BusyAir == \A r \in Runners : WF_vars(Arrival(r))

-----------------------------------------------------------------------------
(* Properties                                                              *)

(* Two run() calls never own the session at once: _begin's check under the *)
(* lock excludes the second until the first has set its final state.       *)
OneSession ==
    \A r, q \in Runners : InSession(r) /\ InSession(q) => r = q

(* The manager reports an active state exactly while a run() owns the      *)
(* session: a stop() that comes late must not leave STOPPING behind, which *)
(* would make _begin refuse every later session.                           *)
StateTracksSession ==
    state \in ActiveStates <=> \E r \in Runners : InSession(r)

(* Is a packet counted by the loop and not yet settled?                    *)
InFlight == Held({"dedup", "parse", "deliver", "skip", "parsed"})

ErrorSkips ==
    reasonCounts["duplicate"] + reasonCounts["rejected"]
        + reasonCounts["processing"]

(* The counters of status() add up at every moment: each packet seen is    *)
(* parsed, skipped or the one in hand, every skip has a reason, and the    *)
(* parse errors are the skips for an error.                                *)
Accounting ==
    /\ seen = parsed + skipped + InFlight
    /\ skipped = ErrorSkips + reasonCounts["ignored"]
    /\ parseErrors = ErrorSkips

(* A packet number of a session reaches the frame sink at most once, even  *)
(* when the source repeats it (run's duplicate check).                     *)
NoRedelivery ==
    \A k \in Sources \X PacketNumbers : delivered[k] <= 1

(* After stop() has been accepted the session counts the packet the loop   *)
(* had already taken and no other, although a packet may have been yielded *)
(* or fetched when the request came.                                       *)
StopBounded == seen <= allowance

(* When run() is about to return, the capture it opened is closed and      *)
(* forgotten, whichever of generator, run() and stop() closed it.          *)
NoCaptureLeak ==
    \A r \in Runners : pc[r] = "report" =>
        ~opened[argument[r]] /\ ~attached[argument[r]]

Phase ==
    IF state \in ActiveStates
    THEN IF \E r \in Runners : pc[r] = "begin" THEN "opening" ELSE "active"
    ELSE IF state = "IDLE" THEN "idle"
    ELSE IF state = "STOPPED" THEN "stopped" ELSE "failed"

Contract == INSTANCE CaptureContract WITH phase <- Phase,
                                          settled <- parsed + skipped

(* The manager implements the contract its callers rely on.                *)
ImplementsContract == Contract!Spec

(* A session of source s is over, or has not begun.                        *)
NoSessionOf(s) == ~\E r \in Runners : InSession(r) /\ argument[r] = s

(* stop() docstring: "Request capture termination and close a blocking     *)
(* live source."  A session whose stop was accepted ends.                  *)
StopTerminates ==
    \A c \in Stoppers \cup Handlers, s \in Sources :
        (stopPc[c] = "closing" /\ closing[c] = s) ~> NoSessionOf(s)

(* It does on a channel that is never silent for ever, even if the stop    *)
(* came before the capture was opened, and even if closing it fails.       *)
BusyStopTerminates == BusyAir => StopTerminates

(* Even if no packet ever arrives, a stop() that finds the capture in      *)
(* self._capture ends the session by closing the capture, unless close()   *)
(* raises: the capture is then forgotten although it still runs.           *)
StopClosesAttached ==
    \A c \in Stoppers \cup Handlers, s \in Sources :
        (closer[c] = "grab" /\ closing[c] = s /\ attached[s])
            ~> NoSessionOf(s) \/ (opened[s] /\ ~attached[s])

(* A call of stop() returns: closing the source never blocks it for good.  *)
StopCallReturns ==
    \A c \in Stoppers \cup Handlers :
        stopPc[c] = "closing" ~> stopPc[c] = "done"

(* run() over a file comes to an end by itself, and the manager is then    *)
(* free for another session.                                               *)
ReplayEnds ==
    \A r \in Runners :
        (pc[r] # "idle" /\ argument[r] \notin LiveSources) ~> pc[r] = "idle"

(* A stop() that was accepted stays in force until the session ends: its   *)
(* event is not cleared behind its back.                                   *)
AcceptedStopSticks ==
    allowance # NoLimit /\ state \in ActiveStates => stopEvent

(* A handler never waits for a lock that the thread it runs on holds.      *)
NoSelfDeadlock ==
    \A h \in Handlers :
        closer[h] = "grab" => sourceLock[closing[h]] # MainThread
=============================================================================
