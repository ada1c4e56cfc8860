------------------------- MODULE CaptureWorker_proofs -------------------------
(***************************************************************************)
(* Proofs about CaptureWorker, for any number of runs, with or without a   *)
(* signal and joins that give up.                                          *)
(***************************************************************************)
EXTENDS CaptureWorker, TLAPS

BeforeBeat == {"idle", "setup", "beat"}
BeforeHop == BeforeBeat \cup {"hop", "launch"}
BeatJoined == {"finalBeat", "evidence"}
HopJoined == {"stopBeat", "joinBeat"} \cup BeatJoined
AfterSession == {"check", "stopHop", "lockHop", "peekHop", "joinHop"} \cup HopJoined

RunsCounted == workerPc # "idle" => runs # 0

(* Between the runs, and after its join, no thread of a service is alive;  *)
(* otherwise at most that of the run's own service.                        *)
OwnThreads == NoTimeouts =>
    /\ \A h \in Hoppers :
          HopAlive(h) => h = hopper /\ workerPc \notin BeforeHop \cup HopJoined
    /\ \A s \in Services :
          BeatAlive(s) => s = runs /\ workerPc \notin BeforeBeat \cup BeatJoined

(* The session is the worker's: nobody else begins or ends one, and a      *)
(* stop() is accepted in no other.                                         *)
PhaseKnown ==
    /\ accepting => workerPc \in ManagerRuns
    /\ phase = "active" <=> workerPc \in ManagerRuns
    /\ workerPc \in AfterSession => phase \in FinalPhases

(* The final record is the last thing a run publishes.                     *)
FinalKept == finalSent =>
    /\ workerPc \in {"idle", "evidence"}
    /\ NoTimeouts => published \in FinalPhases

(* The hopper's error on its way from its thread to the result of the run: *)
(* stored, then read by the worker, then on its way out of run_source.     *)
ErrorKept == NoTimeouts =>
    /\ \A h \in Hoppers : hopPc[h] = "alarmed" => backgroundError
    /\ "hopper" \in stoppers =>
          /\ workerPc \in (ManagerRuns \ {"opening"}) \cup {"check"}
                => backgroundError
          /\ workerPc \in AfterSession \ {"check"} /\ phase = "stopped" => raising
          /\ workerPc = "idle" /\ phase = "stopped" => outcome = "error"

IInv ==
    /\ TypeOK
    /\ RunsCounted
    /\ OwnThreads
    /\ PhaseKnown
    /\ FinalKept
    /\ ErrorKept

-----------------------------------------------------------------------------
(* Nothing has been started when the worker is made.                       *)
LEMMA InitIInv == Init => IInv
<1> SUFFICES ASSUME Init PROVE IInv
  OBVIOUS
<1> USE DEF Init, BeatInit, HopInit
<1>1. TypeOK
  <2>1. /\ backgroundError \in BOOLEAN /\ raising \in BOOLEAN
        /\ finalSent \in BOOLEAN /\ accepting \in BOOLEAN
    BY Zenon
  <2>2. BeatTypeOK /\ HopTypeOK
    BY DEF BeatTypeOK, BeatPoints, Phases, NoRecord, HopTypeOK, HopPoints
  <2>3. WorkerTypeOK
    BY <2>1, WorkerAssumption
       DEF WorkerTypeOK, WorkerPoints, ManagerRuns, Running, Phases, HandlerPoints
  <2> QED
    BY <2>2, <2>3 DEF TypeOK
<1>2. RunsCounted /\ OwnThreads /\ PhaseKnown /\ FinalKept /\ ErrorKept
  BY DEF RunsCounted, OwnThreads, HopAlive, HopAlivePoints, BeatAlive,
     BeatAlivePoints, PhaseKnown, ManagerRuns, Running, FinalKept, ErrorKept,
     AfterSession, HopJoined, BeatJoined
<1> QED
  BY <1>1, <1>2 DEF IInv

-----------------------------------------------------------------------------
(* The steps of the hopper's error callback, as the other variables see it.*)
LEMMA ErrorSteps ==
    ASSUME NEW h \in Hoppers, OnBackgroundError(h)
    PROVE  /\ \E from \in {"alarm", "alarmed", "closing"},
                 to \in {"alarmed", "closing", "over"} : HopGoto(h, from, to)
           /\ UNCHANGED <<workerPc, runVars, signalVars, timedOut, beatVars,
                          hopStop, hopLocked>>
<1>1. CASE StoreError(h, "alarm", "alarmed")
  BY <1>1 DEF OnBackgroundError, StoreError
<1>2. CASE StopSession(h, "alarmed", "over")
  BY <1>2 DEF OnBackgroundError, StopSession
<1>3. CASE CloseStopped(h, "over")
  BY <1>3 DEF OnBackgroundError, CloseStopped
<1> QED
  BY <1>1, <1>2, <1>3 DEF OnBackgroundError, HandleError

-----------------------------------------------------------------------------
(* Type correctness: the services, the hoppers, and the worker itself.     *)
LEMMA BeatTypeStep ==
    ASSUME TypeOK, RunsCounted, [Next]_vars
    PROVE  BeatTypeOK'
<1> USE WorkerAssumption
<1> USE DEF TypeOK, WorkerTypeOK, RunsCounted, BeatTypeOK, BeatPoints,
            BeatAlivePoints, Phases, NoRecord, vars, workerVars, runVars, managerVars,
            signalVars, beatVars,
            hopVars
<1>1. CASE Run
  BY <1>1 DEF Run, Goto, BeginRun
<1>2. CASE RunSource
  BY <1>2 DEF RunSource, Goto, BeginRun
<1>3. CASE BuildSource
  BY <1>3 DEF BuildSource, Goto
<1>4. CASE BuildFails
  BY <1>4 DEF BuildFails, Goto
<1>5. CASE StartHeartbeat
  BY <1>5 DEF StartHeartbeat, Goto, StartBeat, BeatAlive
<1>6. CASE SkipHopper
  BY <1>6 DEF SkipHopper, Goto
<1>7. CASE EnterHopper
  BY <1>7 DEF EnterHopper, Goto
<1>8. CASE HopperStillRuns
  BY <1>8 DEF HopperStillRuns, Goto
<1>9. CASE LaunchHopper
  BY <1>9 DEF LaunchHopper, Goto
<1>10. CASE BeginSession
  BY <1>10 DEF BeginSession, Goto
<1>11. CASE FinishBegin
  BY <1>11 DEF FinishBegin, Goto
<1>12. CASE SetRunning
  BY <1>12 DEF SetRunning, Goto
<1>13. CASE OpenCapture
  BY <1>13 DEF OpenCapture, Goto
<1>14. CASE OpenFails
  BY <1>14 DEF OpenFails, Fail, Goto
<1>15. CASE StoreCapture
  BY <1>15 DEF StoreCapture, Goto
<1>16. CASE SourceEnds
  BY <1>16 DEF SourceEnds, Goto
<1>17. CASE SourceFails
  BY <1>17 DEF SourceFails, Fail, Goto
<1>18. CASE ForgetCapture
  BY <1>18 DEF ForgetCapture, Goto
<1>19. CASE EndSession
  BY <1>19 DEF EndSession, Goto
<1>20. CASE CheckBackground
  BY <1>20 DEF CheckBackground, Goto
<1>21. CASE StopHopper
  BY <1>21 DEF StopHopper, Goto
<1>22. CASE LockHopper
  BY <1>22 DEF LockHopper, Goto
<1>23. CASE PeekHopper
  BY <1>23 DEF PeekHopper, Goto
<1>24. CASE JoinHopper
  BY <1>24 DEF JoinHopper, Goto
<1>25. CASE StopHeartbeat
  BY <1>25 DEF StopHeartbeat, Goto, AskBeatToStop
<1>26. CASE JoinHeartbeat
  BY <1>26 DEF JoinHeartbeat, Goto
<1>27. CASE PublishFinal
  BY <1>27 DEF PublishFinal, Goto
<1>28. CASE FinalizeEvidence
  BY <1>28 DEF FinalizeEvidence, Goto
<1>29. ASSUME NEW h \in Hoppers, HopperThread(h) PROVE BeatTypeOK'
  BY <1>29 DEF HopperThread, OnBackgroundError
<1>30. ASSUME NEW s \in Services, HeartbeatThread(s) PROVE BeatTypeOK'
  <2>1. CASE Sample(s, phase)
    BY <2>1 DEF Sample, BeatGoto
  <2>2. CASE PublishSample(s)
    BY <2>2 DEF PublishSample, Publish, BeatGoto
  <2>3. CASE EndWait(s)
    BY <2>3 DEF EndWait, BeatGoto
  <2> QED
    BY <1>30, <2>1, <2>2, <2>3 DEF HeartbeatThread
<1>31. CASE Signal
  BY <1>31 DEF Signal
<1>32. CASE HandlerStopsManager
  BY <1>32 DEF HandlerStopsManager, HandlerGoto, AcceptStop, IgnoreStop
<1>33. CASE HandlerClosesSource
  BY <1>33 DEF HandlerClosesSource, HandlerGoto, CloseSource
<1>34. CASE HandlerStopsHopper
  BY <1>34 DEF HandlerStopsHopper, HandlerGoto
<1>35. CASE HandlerLocks
  BY <1>35 DEF HandlerLocks, HandlerGoto
<1>36. CASE UNCHANGED vars
  BY <1>36
<1> QED
  BY <1>1, <1>2, <1>3, <1>4, <1>5, <1>6, <1>7, <1>8, <1>9, <1>10, <1>11,
       <1>12, <1>13, <1>14, <1>15, <1>16, <1>17, <1>18, <1>19, <1>20, <1>21,
       <1>22, <1>23, <1>24, <1>25, <1>26, <1>27, <1>28, <1>29, <1>30, <1>31,
       <1>32, <1>33, <1>34, <1>35, <1>36
     DEF Next, MainStep, HandlerStep

(* The hopper's variables keep their types.                                *)
LEMMA HopTypeStep ==
    ASSUME TypeOK, [Next]_vars
    PROVE  HopTypeOK'
<1> USE DEF TypeOK, HopTypeOK, HopPoints, HopAlivePoints, vars, workerVars, runVars,
managerVars, signalVars, beatVars,
            hopVars
<1>1. CASE Run
  BY <1>1 DEF Run, Goto
<1>2. CASE RunSource
  BY <1>2 DEF RunSource, Goto
<1>3. CASE BuildSource
  BY <1>3 DEF BuildSource, Goto
<1>4. CASE BuildFails
  BY <1>4 DEF BuildFails, Goto
<1>5. CASE StartHeartbeat
  BY <1>5 DEF StartHeartbeat, Goto, BeatAlive
<1>6. CASE SkipHopper
  BY <1>6 DEF SkipHopper, Goto
<1>7. CASE EnterHopper
  BY <1>7 DEF EnterHopper, Goto, HopLock
<1>8. CASE HopperStillRuns
  BY <1>8 DEF HopperStillRuns, Goto
<1>9. CASE LaunchHopper
  BY <1>9 DEF LaunchHopper, Goto, LaunchHop, HopUnlock
<1>10. CASE BeginSession
  BY <1>10 DEF BeginSession, Goto
<1>11. CASE FinishBegin
  BY <1>11 DEF FinishBegin, Goto
<1>12. CASE SetRunning
  BY <1>12 DEF SetRunning, Goto
<1>13. CASE OpenCapture
  BY <1>13 DEF OpenCapture, Goto
<1>14. CASE OpenFails
  BY <1>14 DEF OpenFails, Fail, Goto
<1>15. CASE StoreCapture
  BY <1>15 DEF StoreCapture, Goto
<1>16. CASE SourceEnds
  BY <1>16 DEF SourceEnds, Goto
<1>17. CASE SourceFails
  BY <1>17 DEF SourceFails, Fail, Goto
<1>18. CASE ForgetCapture
  BY <1>18 DEF ForgetCapture, Goto
<1>19. CASE EndSession
  BY <1>19 DEF EndSession, Goto
<1>20. CASE CheckBackground
  BY <1>20 DEF CheckBackground, Goto
<1>21. CASE StopHopper
  BY <1>21 DEF StopHopper, Goto, AskHopToStop
<1>22. CASE LockHopper
  BY <1>22 DEF LockHopper, Goto, HopLock
<1>23. CASE PeekHopper
  BY <1>23 DEF PeekHopper, Goto, PeekThread, HopUnlock
<1>24. CASE JoinHopper
  BY <1>24 DEF JoinHopper, Goto
<1>25. CASE StopHeartbeat
  BY <1>25 DEF StopHeartbeat, Goto
<1>26. CASE JoinHeartbeat
  BY <1>26 DEF JoinHeartbeat, Goto
<1>27. CASE PublishFinal
  BY <1>27 DEF PublishFinal, Goto
<1>28. CASE FinalizeEvidence
  BY <1>28 DEF FinalizeEvidence, Goto
<1>29. ASSUME NEW h \in Hoppers, HopperThread(h) PROVE HopTypeOK'
  <2>1. CASE HopStep(h)
    BY <2>1 DEF HopStep, CheckHopStop, SetChannel, ReportChannel, EndDwell,
       HopFails, HopGoto
  <2>2. CASE OnBackgroundError(h)
    BY <2>2, ErrorSteps DEF HopGoto
  <2> QED
    BY <1>29, <2>1, <2>2 DEF HopperThread
<1>30. ASSUME NEW s \in Services, HeartbeatThread(s) PROVE HopTypeOK'
  BY <1>30 DEF HeartbeatThread
<1>31. CASE Signal
  BY <1>31 DEF Signal
<1>32. CASE HandlerStopsManager
  BY <1>32 DEF HandlerStopsManager, HandlerGoto, AcceptStop, IgnoreStop
<1>33. CASE HandlerClosesSource
  BY <1>33 DEF HandlerClosesSource, HandlerGoto, CloseSource
<1>34. CASE HandlerStopsHopper
  BY <1>34 DEF HandlerStopsHopper, HandlerGoto, AskHopToStop
<1>35. CASE HandlerLocks
  BY <1>35 DEF HandlerLocks, HandlerGoto
<1>36. CASE UNCHANGED vars
  BY <1>36
<1> QED
  BY <1>1, <1>2, <1>3, <1>4, <1>5, <1>6, <1>7, <1>8, <1>9, <1>10, <1>11,
       <1>12, <1>13, <1>14, <1>15, <1>16, <1>17, <1>18, <1>19, <1>20, <1>21,
       <1>22, <1>23, <1>24, <1>25, <1>26, <1>27, <1>28, <1>29, <1>30, <1>31,
       <1>32, <1>33, <1>34, <1>35, <1>36
     DEF Next, MainStep, HandlerStep

Flags ==
    /\ backgroundError \in BOOLEAN /\ raising \in BOOLEAN
    /\ finalSent \in BOOLEAN /\ accepting \in BOOLEAN
WorkerRest ==
    /\ workerPc \in WorkerPoints /\ runs \in 0 .. MaxRuns
    /\ hopper \in Hoppers \cup {NoHopper} /\ phase \in Phases
    /\ stoppers \subseteq {"hopper", "signal"}
    /\ capture \in {"none", "stored", "closed", "lost"}
    /\ closers \subseteq Hoppers
    /\ handlerPc \in HandlerPoints /\ signals \in 0 .. MaxSignals
    /\ outcome \in {"none", "ok", "error"}
    /\ timedOut \subseteq {"hop", "beat"}

(* The worker's variables keep theirs, which needs the number of run()     *)
(* calls so far.                                                           *)
LEMMA WorkerTypeStep ==
    ASSUME TypeOK, RunsCounted, [Next]_vars
    PROVE  (WorkerTypeOK /\ RunsCounted)'
<1> USE WorkerAssumption
<1> USE DEF TypeOK, WorkerTypeOK, RunsCounted, WorkerPoints, ManagerRuns,
            Running, HandlerPoints, AfterManager, Phases, vars, workerVars, runVars, managerVars, signalVars, beatVars,
            hopVars
<1>1. CASE Run
  <2>1. Flags'
    BY <1>1 DEF Flags, Run, Goto, BeginRun
  <2>2. WorkerRest' /\ RunsCounted'
    BY <1>1 DEF WorkerRest, Run, Goto, BeginRun
  <2> QED
    BY <2>1, <2>2 DEF Flags, WorkerRest
<1>2. CASE RunSource
  <2>1. Flags'
    BY <1>2 DEF Flags, RunSource, Goto, BeginRun
  <2>2. WorkerRest' /\ RunsCounted'
    BY <1>2 DEF WorkerRest, RunSource, Goto, BeginRun
  <2> QED
    BY <2>1, <2>2 DEF Flags, WorkerRest
<1>3. CASE BuildSource
  BY <1>3 DEF BuildSource, Goto
<1>4. CASE BuildFails
  BY <1>4 DEF BuildFails, Goto
<1>5. CASE StartHeartbeat
  BY <1>5 DEF StartHeartbeat, Goto, BeatAlive
<1>6. CASE SkipHopper
  BY <1>6 DEF SkipHopper, Goto
<1>7. CASE EnterHopper
  BY <1>7 DEF EnterHopper, Goto
<1>8. CASE HopperStillRuns
  BY <1>8 DEF HopperStillRuns, Goto
<1>9. CASE LaunchHopper
  BY <1>9 DEF LaunchHopper, Goto
<1>10. CASE BeginSession
  BY <1>10 DEF BeginSession, Goto
<1>11. CASE FinishBegin
  BY <1>11 DEF FinishBegin, Goto
<1>12. CASE SetRunning
  BY <1>12 DEF SetRunning, Goto
<1>13. CASE OpenCapture
  BY <1>13 DEF OpenCapture, Goto
<1>14. CASE OpenFails
  BY <1>14 DEF OpenFails, Fail, Goto
<1>15. CASE StoreCapture
  BY <1>15 DEF StoreCapture, Goto
<1>16. CASE SourceEnds
  BY <1>16 DEF SourceEnds, Goto
<1>17. CASE SourceFails
  BY <1>17 DEF SourceFails, Fail, Goto
<1>18. CASE ForgetCapture
  BY <1>18 DEF ForgetCapture, Goto
<1>19. CASE EndSession
  <2>1. Flags'
    BY <1>19, Zenon DEF Flags, EndSession, Goto
  <2>2. WorkerRest' /\ RunsCounted'
    BY <1>19 DEF WorkerRest, EndSession, Goto
  <2> QED
    BY <2>1, <2>2 DEF Flags, WorkerRest
<1>20. CASE CheckBackground
  BY <1>20 DEF CheckBackground, Goto
<1>21. CASE StopHopper
  BY <1>21 DEF StopHopper, Goto
<1>22. CASE LockHopper
  BY <1>22 DEF LockHopper, Goto
<1>23. CASE PeekHopper
  BY <1>23 DEF PeekHopper, Goto
<1>24. CASE JoinHopper
  <2>1. timedOut' \subseteq {"hop", "beat"}
    BY <1>24 DEF JoinHopper, Join
  <2> QED
    BY <1>24, <2>1 DEF JoinHopper, Goto
<1>25. CASE StopHeartbeat
  BY <1>25 DEF StopHeartbeat, Goto
<1>26. CASE JoinHeartbeat
  <2>1. timedOut' \subseteq {"hop", "beat"}
    BY <1>26 DEF JoinHeartbeat, Join
  <2> QED
    BY <1>26, <2>1 DEF JoinHeartbeat, Goto
<1>27. CASE PublishFinal
  <2>1. Flags'
    BY <1>27 DEF Flags, PublishFinal, Goto
  <2>2. WorkerRest' /\ RunsCounted'
    BY <1>27 DEF WorkerRest, PublishFinal, Goto
  <2> QED
    BY <2>1, <2>2 DEF Flags, WorkerRest
<1>28. CASE FinalizeEvidence
  BY <1>28, ZenonT(30) DEF FinalizeEvidence, Goto
<1>29. ASSUME NEW h \in Hoppers, HopperThread(h)
      PROVE  (WorkerTypeOK /\ RunsCounted)'
  <2>1. CASE HopStep(h) /\ UNCHANGED <<workerVars, beatVars>>
    BY <2>1
  <2>2. CASE OnBackgroundError(h)
    <3>1. UNCHANGED <<workerPc, runVars, signalVars, timedOut>>
      BY <2>2 DEF OnBackgroundError
    <3>2. CASE StoreError(h, "alarm", "alarmed")
      <4>1. backgroundError' = TRUE /\ UNCHANGED managerVars
        BY <3>2 DEF StoreError
      <4> QED
        BY <3>1, <4>1
    <3>3. CASE StopSession(h, "alarmed", "over")
      <4>1. /\ accepting' \in BOOLEAN /\ UNCHANGED <<backgroundError, phase, capture>>
            /\ stoppers' \subseteq stoppers \cup {"hopper"}
            /\ closers' \subseteq closers \cup {h}
        BY <3>3 DEF StopSession, AcceptStop, IgnoreStop
      <4> QED
        BY <3>1, <4>1
    <3>4. CASE CloseStopped(h, "over")
      <4>1. /\ UNCHANGED <<backgroundError, phase, accepting, stoppers>>
            /\ capture' \in {"none", "stored", "closed", "lost"}
            /\ closers' \subseteq closers
        BY <3>4 DEF CloseStopped, CloseSource
      <4> QED
        BY <3>1, <4>1
    <3> QED
      BY <2>2, <3>2, <3>3, <3>4 DEF OnBackgroundError, HandleError
  <2> QED
    BY <1>29, <2>1, <2>2 DEF HopperThread
<1>30. ASSUME NEW s \in Services, HeartbeatThread(s)
      PROVE  (WorkerTypeOK /\ RunsCounted)'
  BY <1>30 DEF HeartbeatThread
<1>31. CASE Signal
  BY <1>31 DEF Signal
<1>32. CASE HandlerStopsManager
  <2>1. /\ accepting' \in BOOLEAN
        /\ stoppers' \subseteq stoppers \cup {"signal"}
        /\ handlerPc' \in {"close", "hop", "done"}
        /\ UNCHANGED <<workerPc, runVars, backgroundError, phase, capture, closers,
                       signals, timedOut>>
    BY <1>32 DEF HandlerStopsManager, HandlerGoto, AcceptStop, IgnoreStop
  <2> QED
    BY <2>1
<1>33. CASE HandlerClosesSource
  BY <1>33 DEF HandlerClosesSource, HandlerGoto, CloseSource
<1>34. CASE HandlerStopsHopper
  BY <1>34 DEF HandlerStopsHopper, HandlerGoto
<1>35. CASE HandlerLocks
  BY <1>35 DEF HandlerLocks, HandlerGoto
<1>36. CASE UNCHANGED vars
  BY <1>36
<1> QED
  BY <1>1, <1>2, <1>3, <1>4, <1>5, <1>6, <1>7, <1>8, <1>9, <1>10, <1>11,
       <1>12, <1>13, <1>14, <1>15, <1>16, <1>17, <1>18, <1>19, <1>20, <1>21,
       <1>22, <1>23, <1>24, <1>25, <1>26, <1>27, <1>28, <1>29, <1>30, <1>31,
       <1>32, <1>33, <1>34, <1>35, <1>36
     DEF Next, MainStep, HandlerStep

-----------------------------------------------------------------------------
(* Threads are started one at a time and joined before the next.           *)
LEMMA ThreadsStep ==
    ASSUME IInv, [Next]_vars
    PROVE  OwnThreads'
<1> USE WorkerAssumption, HopperAssumption
<1> USE DEF IInv, TypeOK, BeatTypeOK, HopTypeOK, WorkerTypeOK, OwnThreads,
            NoTimeouts, HopAlive, HopAlivePoints, BeatAlive, BeatAlivePoints,
            BeforeBeat, BeforeHop, HopJoined, BeatJoined, vars, workerVars, runVars,
            managerVars, signalVars, beatVars,
            hopVars
<1>1. CASE Run
  BY <1>1 DEF Run, Goto, BeginRun
<1>2. CASE RunSource
  BY <1>2 DEF RunSource, Goto, BeginRun
<1>3. CASE BuildSource
  BY <1>3 DEF BuildSource, Goto
<1>4. CASE BuildFails
  BY <1>4 DEF BuildFails, Goto
<1>5. CASE StartHeartbeat
  BY <1>5 DEF StartHeartbeat, Goto, StartBeat, BeatAlive
<1>6. CASE SkipHopper
  BY <1>6 DEF SkipHopper, Goto
<1>7. CASE EnterHopper
  BY <1>7 DEF EnterHopper, Goto, HopLock
<1>8. CASE HopperStillRuns
  BY <1>8 DEF HopperStillRuns, Goto
<1>9. CASE LaunchHopper
  BY <1>9 DEF LaunchHopper, Goto, LaunchHop, HopUnlock
<1>10. CASE BeginSession
  BY <1>10 DEF BeginSession, Goto
<1>11. CASE FinishBegin
  BY <1>11 DEF FinishBegin, Goto
<1>12. CASE SetRunning
  BY <1>12 DEF SetRunning, Goto
<1>13. CASE OpenCapture
  BY <1>13 DEF OpenCapture, Goto
<1>14. CASE OpenFails
  BY <1>14 DEF OpenFails, Fail, Goto
<1>15. CASE StoreCapture
  BY <1>15 DEF StoreCapture, Goto
<1>16. CASE SourceEnds
  BY <1>16 DEF SourceEnds, Goto
<1>17. CASE SourceFails
  BY <1>17 DEF SourceFails, Fail, Goto
<1>18. CASE ForgetCapture
  BY <1>18 DEF ForgetCapture, Goto
<1>19. CASE EndSession
  BY <1>19 DEF EndSession, Goto
<1>20. CASE CheckBackground
  BY <1>20 DEF CheckBackground, Goto
<1>21. CASE StopHopper
  BY <1>21 DEF StopHopper, Goto, AskHopToStop
<1>22. CASE LockHopper
  BY <1>22 DEF LockHopper, Goto, HopLock
<1>23. CASE PeekHopper
  BY <1>23 DEF PeekHopper, Goto, PeekThread, HopUnlock
<1>24. CASE JoinHopper
  BY <1>24 DEF JoinHopper, Goto, Join
<1>25. CASE StopHeartbeat
  BY <1>25 DEF StopHeartbeat, Goto, AskBeatToStop
<1>26. CASE JoinHeartbeat
  BY <1>26 DEF JoinHeartbeat, Goto, Join
<1>27. CASE PublishFinal
  BY <1>27 DEF PublishFinal, Goto
<1>28. CASE FinalizeEvidence
  BY <1>28 DEF FinalizeEvidence, Goto
<1>29. ASSUME NEW h \in Hoppers, HopperThread(h) PROVE OwnThreads'
  <2>1. /\ UNCHANGED <<workerPc, runs, hopper, timedOut, beatPc>>
        /\ HopAlive(h)
        /\ \A g \in Hoppers : g # h => hopPc'[g] = hopPc[g]
    <3>1. CASE HopStep(h) /\ UNCHANGED <<workerVars, beatVars>>
      BY <3>1 DEF HopStep, CheckHopStop, SetChannel, ReportChannel, EndDwell,
         HopFails, HopGoto
    <3>2. CASE OnBackgroundError(h)
      BY <3>2, ErrorSteps DEF HopGoto
    <3> QED
      BY <1>29, <3>1, <3>2 DEF HopperThread
  <2> QED
    BY <2>1
<1>30. ASSUME NEW s \in Services, HeartbeatThread(s) PROVE OwnThreads'
  BY <1>30 DEF HeartbeatThread, Sample, PublishSample, Publish, EndWait,
       BeatGoto
<1>31. CASE Signal
  BY <1>31 DEF Signal
<1>32. CASE HandlerStopsManager
  BY <1>32 DEF HandlerStopsManager, HandlerGoto, AcceptStop, IgnoreStop
<1>33. CASE HandlerClosesSource
  BY <1>33 DEF HandlerClosesSource, HandlerGoto, CloseSource
<1>34. CASE HandlerStopsHopper
  BY <1>34 DEF HandlerStopsHopper, HandlerGoto, AskHopToStop
<1>35. CASE HandlerLocks
  BY <1>35 DEF HandlerLocks, HandlerGoto
<1>36. CASE UNCHANGED vars
  BY <1>36
<1> QED
  BY <1>1, <1>2, <1>3, <1>4, <1>5, <1>6, <1>7, <1>8, <1>9, <1>10, <1>11,
       <1>12, <1>13, <1>14, <1>15, <1>16, <1>17, <1>18, <1>19, <1>20, <1>21,
       <1>22, <1>23, <1>24, <1>25, <1>26, <1>27, <1>28, <1>29, <1>30, <1>31,
       <1>32, <1>33, <1>34, <1>35, <1>36
     DEF Next, MainStep, HandlerStep

(* The session, the records and the errors of a run.                       *)
LEMMA RunStep ==
    ASSUME IInv, [Next]_vars
    PROVE  (PhaseKnown /\ FinalKept /\ ErrorKept)'
<1> USE WorkerAssumption
<1> USE DEF IInv, TypeOK, BeatTypeOK, HopTypeOK, WorkerTypeOK, OwnThreads,
            NoTimeouts, HopAlive, HopAlivePoints, BeatAlive, BeatAlivePoints,
            BeforeBeat, BeforeHop, HopJoined, BeatJoined, AfterSession,
            PhaseKnown, ManagerRuns, Running, FinalKept, ErrorKept, FinalPhases, vars, workerVars, runVars,
            managerVars, signalVars, beatVars,
            hopVars
<1>1. CASE Run
  BY <1>1 DEF Run, Goto, BeginRun
<1>2. CASE RunSource
  BY <1>2 DEF RunSource, Goto, BeginRun
<1>3. CASE BuildSource
  BY <1>3 DEF BuildSource, Goto
<1>4. CASE BuildFails
  BY <1>4 DEF BuildFails, Goto
<1>5. CASE StartHeartbeat
  BY <1>5 DEF StartHeartbeat, Goto, StartBeat, BeatAlive
<1>6. CASE SkipHopper
  BY <1>6 DEF SkipHopper, Goto
<1>7. CASE EnterHopper
  BY <1>7 DEF EnterHopper, Goto, HopLock
<1>8. CASE HopperStillRuns
  BY <1>8 DEF HopperStillRuns, Goto
<1>9. CASE LaunchHopper
  BY <1>9 DEF LaunchHopper, Goto, LaunchHop, HopUnlock
<1>10. CASE BeginSession
  BY <1>10 DEF BeginSession, Goto
<1>11. CASE FinishBegin
  BY <1>11 DEF FinishBegin, Goto
<1>12. CASE SetRunning
  BY <1>12 DEF SetRunning, Goto
<1>13. CASE OpenCapture
  BY <1>13 DEF OpenCapture, Goto
<1>14. CASE OpenFails
  BY <1>14 DEF OpenFails, Fail, Goto
<1>15. CASE StoreCapture
  BY <1>15 DEF StoreCapture, Goto
<1>16. CASE SourceEnds
  BY <1>16 DEF SourceEnds, Goto
<1>17. CASE SourceFails
  BY <1>17 DEF SourceFails, Fail, Goto
<1>18. CASE ForgetCapture
  BY <1>18 DEF ForgetCapture, Goto
<1>19. CASE EndSession
  BY <1>19 DEF EndSession, Goto
<1>20. CASE CheckBackground
  BY <1>20 DEF CheckBackground, Goto
<1>21. CASE StopHopper
  BY <1>21 DEF StopHopper, Goto, AskHopToStop
<1>22. CASE LockHopper
  BY <1>22 DEF LockHopper, Goto, HopLock
<1>23. CASE PeekHopper
  BY <1>23 DEF PeekHopper, Goto, PeekThread, HopUnlock
<1>24. CASE JoinHopper
  BY <1>24 DEF JoinHopper, Goto, Join
<1>25. CASE StopHeartbeat
  BY <1>25 DEF StopHeartbeat, Goto, AskBeatToStop
<1>26. CASE JoinHeartbeat
  BY <1>26 DEF JoinHeartbeat, Goto, Join
<1>27. CASE PublishFinal
  BY <1>27 DEF PublishFinal, Goto
<1>28. CASE FinalizeEvidence
  BY <1>28 DEF FinalizeEvidence, Goto
<1>29. ASSUME NEW h \in Hoppers, HopperThread(h)
      PROVE  (PhaseKnown /\ FinalKept /\ ErrorKept)'
  <2>1. CASE HopStep(h) /\ UNCHANGED <<workerVars, beatVars>>
    <3>1. \A g \in Hoppers : hopPc'[g] = "alarmed" => hopPc[g] = "alarmed"
      BY <2>1 DEF HopStep, CheckHopStop, SetChannel, ReportChannel, EndDwell,
         HopFails, HopGoto
    <3> QED
      BY <2>1, <3>1
  <2>2. CASE OnBackgroundError(h)
    <3>1. UNCHANGED <<workerPc, runVars, signalVars, timedOut, beatVars>>
      BY <2>2 DEF OnBackgroundError
    <3>2. CASE StoreError(h, "alarm", "alarmed")
      BY <3>1, <3>2 DEF StoreError
    <3>3. CASE StopSession(h, "alarmed", "over")
      <4>1. /\ UNCHANGED <<backgroundError, phase>>
            /\ hopPc[h] = "alarmed" /\ ManagerFree
            /\ \A g \in Hoppers : hopPc'[g] = "alarmed" => hopPc[g] = "alarmed"
        BY <3>3 DEF StopSession, AcceptStop, IgnoreStop, HopGoto
      <4>2. \/ accepting /\ ~accepting'
            \/ UNCHANGED <<accepting, stoppers>>
        BY <3>3 DEF StopSession, AcceptStop, IgnoreStop
      <4> QED
        BY <3>1, <4>1, <4>2 DEF ManagerFree
    <3>4. CASE CloseStopped(h, "over")
      <4>1. /\ UNCHANGED <<backgroundError, phase, accepting, stoppers>>
            /\ \A g \in Hoppers : hopPc'[g] = "alarmed" => hopPc[g] = "alarmed"
        BY <3>4 DEF CloseStopped, CloseSource, HopGoto
      <4> QED
        BY <3>1, <4>1
    <3> QED
      BY <2>2, <3>2, <3>3, <3>4 DEF OnBackgroundError, HandleError
  <2> QED
    BY <1>29, <2>1, <2>2 DEF HopperThread
<1>30. ASSUME NEW s \in Services, HeartbeatThread(s)
      PROVE  (PhaseKnown /\ FinalKept /\ ErrorKept)'
  BY <1>30 DEF HeartbeatThread, Sample, PublishSample, Publish, EndWait,
       BeatGoto
<1>31. CASE Signal
  BY <1>31 DEF Signal
<1>32. CASE HandlerStopsManager
  BY <1>32 DEF HandlerStopsManager, HandlerGoto, AcceptStop, IgnoreStop
<1>33. CASE HandlerClosesSource
  BY <1>33 DEF HandlerClosesSource, HandlerGoto, CloseSource
<1>34. CASE HandlerStopsHopper
  BY <1>34 DEF HandlerStopsHopper, HandlerGoto, AskHopToStop
<1>35. CASE HandlerLocks
  BY <1>35 DEF HandlerLocks, HandlerGoto
<1>36. CASE UNCHANGED vars
  BY <1>36
<1> QED
  BY <1>1, <1>2, <1>3, <1>4, <1>5, <1>6, <1>7, <1>8, <1>9, <1>10, <1>11,
       <1>12, <1>13, <1>14, <1>15, <1>16, <1>17, <1>18, <1>19, <1>20, <1>21,
       <1>22, <1>23, <1>24, <1>25, <1>26, <1>27, <1>28, <1>29, <1>30, <1>31,
       <1>32, <1>33, <1>34, <1>35, <1>36
     DEF Next, MainStep, HandlerStep

-----------------------------------------------------------------------------
(* The inductive invariant.                                                *)
THEOREM InductiveInvariant == Spec => []IInv
<1>1. IInv /\ [Next]_vars => IInv'
  BY BeatTypeStep, HopTypeStep, WorkerTypeStep, ThreadsStep, RunStep
     DEF IInv, TypeOK
<1> QED
  BY InitIInv, <1>1, PTL DEF Spec

(* Every variable keeps its type, however many runs.                       *)
THEOREM TypeCorrect == Spec => []TypeOK
  BY InductiveInvariant, PTL DEF IInv

(* No sample taken before the end of a session overtakes the final record. *)
THEOREM FinalRecordLast == Spec => []LastRecordFinal
<1>1. IInv => LastRecordFinal
  BY DEF IInv, FinalKept, LastRecordFinal
<1> QED
  BY <1>1, InductiveInvariant, PTL

(* A run whose joins succeed leaves no thread behind.                      *)
THEOREM RunJoinsThreads == Spec => []ThreadsEnd
<1>1. IInv => ThreadsEnd
  BY DEF IInv, OwnThreads, ThreadsEnd, BeforeHop, BeforeBeat
<1> QED
  BY <1>1, InductiveInvariant, PTL

(* A session that the hopper's failure stopped makes run() raise.          *)
THEOREM HopperFailureReported == Spec => []HopperStopReported
<1>1. IInv => HopperStopReported
  BY DEF IInv, ErrorKept, HopperStopReported
<1> QED
  BY <1>1, InductiveInvariant, PTL
=============================================================================
