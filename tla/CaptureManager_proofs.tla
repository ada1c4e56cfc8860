------------------------ MODULE CaptureManager_proofs ------------------------
(***************************************************************************)
(* Proofs about CaptureManager, for any number of run() and stop() callers,*)
(* signal deliveries, sources and packets.                                 *)
(***************************************************************************)
EXTENDS CaptureManager, TLAPS

(* run() works on the source it was given, and records a skip for a reason.*)
LocalsKnown ==
    \A r \in Runners :
        /\ pc[r] # "idle" => argument[r] \in Sources
        /\ pc[r] = "skip" => reason[r] \in Reasons

IInv ==
    /\ TypeOK
    /\ LocalsKnown
    /\ OneSession
    /\ StateTracksSession
    /\ Accounting

-----------------------------------------------------------------------------
(* Initially no run() has been called and nothing has been counted.        *)
LEMMA InitIInv == Init => IInv
<1> SUFFICES ASSUME Init PROVE IInv
  OBVIOUS
<1> USE DEF Init, SourceInit
<1>1. TypeOK
  <2>1. SourceTypeOK
    BY SourceAssumption DEF SourceTypeOK, GeneratorPoints, CloserPoints
  <2>2. SessionTypeOK
    BY DEF SessionTypeOK, States
  <2>3. CountTypeOK
    BY DEF CountTypeOK
  <2>4. RunnerTypeOK
    BY DEF RunnerTypeOK, RunnerPoints
  <2>5. CallerTypeOK
    BY DEF CallerTypeOK
  <2>6. HistoryTypeOK
    BY SourceAssumption DEF HistoryTypeOK, NoLimit
  <2> QED
    BY <2>1, <2>2, <2>3, <2>4, <2>5, <2>6 DEF TypeOK
<1>2. LocalsKnown
  BY DEF LocalsKnown
<1>3. OneSession /\ StateTracksSession
  BY DEF OneSession, StateTracksSession, InSession, SessionPoints, RunnerPoints,
         ActiveStates
<1>4. Accounting
  BY DEF Accounting, InFlight, Held, ErrorSkips, Reasons
<1> QED
  BY <1>1, <1>2, <1>3, <1>4 DEF IInv

-----------------------------------------------------------------------------
(* Type correctness, first of the source's own steps.                      *)

(* A step of close() keeps the source's types.                             *)
LEMMA CloseStepType ==
    ASSUME SourceTypeOK, NEW a \in Agents, CloseStep(a)
    PROVE  SourceTypeOK'
<1> USE DEF SourceTypeOK, CloserPoints, CloserGoto, ExitClose, readerVars
<1>1. CASE Grab(a)
  BY <1>1 DEF Grab, GrabCapture
<1>2. CASE Shut(a)
  BY <1>2 DEF Shut
<1>3. CASE EnterForget(a)
  BY <1>3 DEF EnterForget, Acquire
<1>4. CASE Forget(a)
  BY <1>4 DEF Forget, Detach, Unlock
<1> QED
  BY <1>1, <1>2, <1>3, <1>4 DEF CloseStep

(* So does leaving the generator, with or without a close() of its own.    *)
LEMMA LeaveType ==
    ASSUME SourceTypeOK, NEW a \in Agents, NEW s \in Sources, NEW from,
           NEW raises \in BOOLEAN, Leave(a, s, from, raises)
    PROVE  SourceTypeOK'
  BY DEF SourceTypeOK, CloserPoints, GeneratorPoints, Leave, GeneratorGoto,
         EnterClose, CloserGoto

(* And every step of the reader.                                           *)
LEMMA ReaderType ==
    ASSUME SourceTypeOK, NEW a \in Agents, NEW s \in Sources,
           NEW stopped \in BOOLEAN,
           \/ Open(s) \/ OpenFails(s, stopped) \/ EnterStore(a, s) \/ Store(s)
           \/ ReadPacket(s) \/ Exhausted(a, s) \/ ReadFails(a, s, stopped)
           \/ CheckStop(a, s, stopped) \/ Resume(s)
    PROVE  SourceTypeOK'
<1> USE DEF SourceTypeOK, GeneratorPoints, GeneratorGoto, closerVars
<1>1. CASE Open(s)
  BY <1>1 DEF Open
<1>2. CASE OpenFails(s, stopped)
  BY <1>2 DEF OpenFails, Swallowed
<1>3. CASE EnterStore(a, s)
  BY <1>3 DEF EnterStore, Acquire
<1>4. CASE Store(s)
  BY <1>4 DEF Store, Unlock
<1>5. CASE ReadPacket(s)
  BY <1>5, SourceAssumption DEF ReadPacket, PacketNumbers
<1>6. CASE Exhausted(a, s)
  BY <1>6, LeaveType DEF Exhausted
<1>7. CASE ReadFails(a, s, stopped)
  BY <1>7, LeaveType DEF ReadFails, Swallowed
<1>8. CASE CheckStop(a, s, stopped)
  BY <1>8, LeaveType DEF CheckStop
<1>9. CASE Resume(s)
  BY <1>9 DEF Resume
<1> QED
  BY <1>1, <1>2, <1>3, <1>4, <1>5, <1>6, <1>7, <1>8, <1>9

-----------------------------------------------------------------------------
(* Every step of the manager keeps the types.                              *)
LEMMA TypeOKStep ==
    ASSUME TypeOK, LocalsKnown, [Next]_vars
    PROVE  TypeOK'
<1> USE SourceAssumption, ManagerAssumption
<1> USE DEF TypeOK, SessionTypeOK, CountTypeOK, RunnerTypeOK, CallerTypeOK,
            HistoryTypeOK, vars, managerVars, sessionVars, countVars,
            runnerVars, historyVars
<1>1. ASSUME NEW r \in Runners, FinishBegin(r) PROVE TypeOK'
  BY <1>1 DEF FinishBegin, ResetCounts, Goto, LocalsKnown, States,
     RunnerPoints, Reasons, NoReason, sourceVars, SourceTypeOK
<1>2. ASSUME NEW r \in Runners, SetRunning(r) PROVE TypeOK'
  BY <1>2 DEF SetRunning, Goto, LocalsKnown, States, RunnerPoints, Reasons,
     NoReason, sourceVars, SourceTypeOK
<1>3. ASSUME NEW r \in Runners, GeneratorStep(r) PROVE TypeOK'
  BY <1>3, ReaderType DEF GeneratorStep, InGenerator, LocalsKnown
<1>4. ASSUME NEW r \in Runners, RunnerClose(r) PROVE TypeOK'
  BY <1>4, CloseStepType DEF RunnerClose
<1>5. ASSUME NEW r \in Runners, TakePacket(r) PROVE TypeOK'
  <2>1. SourceTypeOK'
    <3>1. argument[r] \in Sources
      BY <1>5 DEF TakePacket, MustBreak, LocalsKnown
    <3>2. CASE Abandon(r, argument[r], FALSE)
      BY <3>1, <3>2, LeaveType DEF Abandon
    <3>3. CASE UNCHANGED sourceVars
      BY <3>3 DEF sourceVars, SourceTypeOK
    <3> QED
      BY <1>5, <3>2, <3>3 DEF TakePacket, MustBreak
  <2>2. (SessionTypeOK /\ CountTypeOK /\ RunnerTypeOK /\ CallerTypeOK /\ HistoryTypeOK)'
    BY <1>5, ZenonT(30) DEF TakePacket, MustBreak, Goto, KeepSession, RunnerPoints
  <2> QED
    BY <2>1, <2>2
<1>6. ASSUME NEW r \in Runners, Count(r) PROVE TypeOK'
  BY <1>6 DEF Count, KeepSession, Goto, LocalsKnown, States, RunnerPoints,
     Reasons, NoReason, sourceVars, SourceTypeOK
<1>7. ASSUME NEW r \in Runners, Dedup(r) PROVE TypeOK'
  BY <1>7 DEF Dedup, Remember, KeepSession, Skip, PacketKey, Goto,
     LocalsKnown, States, RunnerPoints, Reasons, NoReason, sourceVars,
     SourceTypeOK
<1>8. ASSUME NEW r \in Runners, Parse(r) PROVE TypeOK'
  BY <1>8, ZenonT(30) DEF Parse, KeepSession, Skip, Goto, LocalsKnown, States,
     RunnerPoints, Reasons, NoReason, sourceVars, SourceTypeOK
<1>9. ASSUME NEW r \in Runners, Deliver(r) PROVE TypeOK'
  <2>1. SourceTypeOK'
    BY <1>9 DEF Deliver, sourceVars, SourceTypeOK
  <2>2. delivered' \in [Sources \X PacketNumbers -> Nat]
    BY <1>9 DEF Deliver
  <2>3. RunnerTypeOK'
    BY <1>9 DEF Deliver, KeepSession, Goto, Skip, RunnerPoints, Reasons
  <2>4. (SessionTypeOK /\ CountTypeOK /\ CallerTypeOK)' /\ allowance' \in Nat
    BY <1>9 DEF Deliver, KeepSession
  <2> QED
    BY <2>1, <2>2, <2>3, <2>4
<1>10. ASSUME NEW r \in Runners, RecordSkip(r) PROVE TypeOK'
  <2>1. SourceTypeOK'
    <3>1. argument[r] \in Sources
      BY <1>10 DEF RecordSkip, Goto, LocalsKnown
    <3>2. CASE Resume(argument[r])
      BY <3>1, <3>2, ReaderType
    <3>3. CASE UNCHANGED sourceVars
      BY <3>3 DEF sourceVars, SourceTypeOK
    <3> QED
      BY <1>10, <3>2, <3>3 DEF RecordSkip
  <2>2. (SessionTypeOK /\ CountTypeOK /\ RunnerTypeOK /\ CallerTypeOK /\ HistoryTypeOK)'
    BY <1>10 DEF RecordSkip, Goto, KeepSession, RunnerPoints, LocalsKnown,
       ErrorReasons, NoReason, Reasons
  <2> QED
    BY <2>1, <2>2
<1>11. ASSUME NEW r \in Runners, NoteError(r) PROVE TypeOK'
  BY <1>11, ReaderType, LeaveType DEF NoteError, KeepSession, Abandon, Goto,
     LocalsKnown, States, RunnerPoints, Reasons, NoReason, sourceVars,
     SourceTypeOK
<1>12. ASSUME NEW r \in Runners, CountParsed(r) PROVE TypeOK'
  <2>1. SourceTypeOK'
    <3>1. argument[r] \in Sources
      BY <1>12 DEF CountParsed, Goto, LocalsKnown
    <3>2. CASE Resume(argument[r])
      BY <3>1, <3>2, ReaderType
    <3>3. CASE UNCHANGED sourceVars
      BY <3>3 DEF sourceVars, SourceTypeOK
    <3> QED
      BY <1>12, <3>2, <3>3 DEF CountParsed
  <2>2. (SessionTypeOK /\ CountTypeOK /\ RunnerTypeOK /\ CallerTypeOK /\ HistoryTypeOK)'
    BY <1>12 DEF CountParsed, Goto, KeepSession, RunnerPoints, LocalsKnown
  <2> QED
    BY <2>1, <2>2
<1>13. ASSUME NEW r \in Runners, LoopEnds(r) PROVE TypeOK'
  BY <1>13 DEF LoopEnds, KeepSession, Goto, LocalsKnown, States, RunnerPoints,
     Reasons, NoReason, sourceVars, SourceTypeOK
<1>14. ASSUME NEW r \in Runners, SetStopped(r) PROVE TypeOK'
  BY <1>14 DEF SetStopped, SetFinalState, EnterClose, CloserGoto, readerVars,
     GeneratorPoints, CloserPoints, Goto, LocalsKnown, States, RunnerPoints,
     Reasons, NoReason, sourceVars, SourceTypeOK
<1>15. ASSUME NEW r \in Runners, CheckFailure(r) PROVE TypeOK'
  BY <1>15 DEF CheckFailure, KeepSession, Goto, LocalsKnown, States,
     RunnerPoints, Reasons, NoReason, sourceVars, SourceTypeOK
<1>16. ASSUME NEW r \in Runners, SetFailed(r) PROVE TypeOK'
  BY <1>16 DEF SetFailed, SetFinalState, EnterClose, CloserGoto, readerVars,
     GeneratorPoints, CloserPoints, Goto, LocalsKnown, States, RunnerPoints,
     Reasons, NoReason, sourceVars, SourceTypeOK
<1>17. ASSUME NEW r \in Runners, Finalize(r) PROVE TypeOK'
  BY <1>17 DEF Finalize, Goto, LocalsKnown, States, RunnerPoints, Reasons,
     NoReason, sourceVars, SourceTypeOK
<1>18. ASSUME NEW r \in Runners, Return(r) PROVE TypeOK'
  BY <1>18 DEF Return, Goto, LocalsKnown, States, RunnerPoints, Reasons,
     NoReason, sourceVars, SourceTypeOK
<1>19. ASSUME NEW r \in Runners, Begin(r) PROVE TypeOK'
  BY <1>19 DEF Begin, Goto, LocalsKnown, States, RunnerPoints, Reasons,
     NoReason, NoLimit, sourceVars, SourceTypeOK
<1>20. ASSUME NEW r \in Runners, BeginRefused(r) PROVE TypeOK'
  BY <1>20 DEF BeginRefused, Goto, LocalsKnown, States, RunnerPoints, Reasons,
     NoReason, sourceVars, SourceTypeOK
<1>21. ASSUME NEW r \in Runners, Arrival(r) PROVE TypeOK'
  BY <1>21, ReaderType DEF Arrival, InGenerator, LocalsKnown
<1>22. ASSUME NEW r \in Runners, SourceFault(r) PROVE TypeOK'
  BY <1>22, ReaderType DEF SourceFault, InGenerator, LocalsKnown
<1>23. ASSUME NEW r \in Runners, SourceEnd(r) PROVE TypeOK'
  BY <1>23, ReaderType DEF SourceEnd, InGenerator, LocalsKnown
<1>24. ASSUME NEW c \in Stoppers \cup Handlers, RequestStop(c) PROVE TypeOK'
  BY <1>24, SMTT(30) DEF RequestStop, RaiseEvent, StoppableStates, States, Held,
     EnterClose, CloserGoto, closerVars, readerVars, CloserPoints, sourceVars,
     SourceTypeOK
<1>25. ASSUME NEW c \in Stoppers \cup Handlers, IgnoreStop(c) PROVE TypeOK'
  BY <1>25 DEF IgnoreStop, sourceVars, SourceTypeOK
<1>26. ASSUME NEW c \in Stoppers \cup Handlers, CallerClose(c) PROVE TypeOK'
  BY <1>26, CloseStepType DEF CallerClose
<1>27. ASSUME NEW c \in Stoppers \cup Handlers, StopReturns(c) PROVE TypeOK'
  BY <1>27 DEF StopReturns, sourceVars, SourceTypeOK
<1>28. ASSUME UNCHANGED vars PROVE TypeOK'
  BY <1>28 DEF sourceVars, SourceTypeOK
<1> QED
  BY <1>1, <1>2, <1>3, <1>4, <1>5, <1>6, <1>7, <1>8, <1>9, <1>10, <1>11,
     <1>12, <1>13, <1>14, <1>15, <1>16, <1>17, <1>18, <1>19, <1>20, <1>21,
     <1>22, <1>23, <1>24, <1>25, <1>26, <1>27, <1>28
     DEF Next, RunnerStep, LoopStep, Environment, CallerStep, Finished

(* run() keeps its locals.                                                 *)
LEMMA LocalsStep ==
    ASSUME TypeOK, LocalsKnown, [Next]_vars
    PROVE  LocalsKnown'
<1> USE DEF LocalsKnown, TypeOK, RunnerTypeOK, RunnerPoints, Reasons,
   managerVars,
            sessionVars, countVars, runnerVars, historyVars
<1>1. ASSUME NEW r \in Runners, FinishBegin(r) PROVE LocalsKnown'
  BY <1>1 DEF FinishBegin, ResetCounts, Goto
<1>2. ASSUME NEW r \in Runners, SetRunning(r) PROVE LocalsKnown'
  BY <1>2 DEF SetRunning, Goto
<1>3. ASSUME NEW r \in Runners, TakePacket(r) PROVE LocalsKnown'
  BY <1>3 DEF TakePacket, MustBreak, Goto, KeepSession
<1>4. ASSUME NEW r \in Runners, Count(r) PROVE LocalsKnown'
  BY <1>4 DEF Count, Goto, KeepSession
<1>5. ASSUME NEW r \in Runners, Dedup(r) PROVE LocalsKnown'
  BY <1>5 DEF Dedup, Remember, Goto, KeepSession, Skip
<1>6. ASSUME NEW r \in Runners, Parse(r) PROVE LocalsKnown'
  BY <1>6 DEF Parse, Goto, KeepSession, Skip
<1>7. ASSUME NEW r \in Runners, Deliver(r) PROVE LocalsKnown'
  BY <1>7 DEF Deliver, Goto, KeepSession, Skip
<1>8. ASSUME NEW r \in Runners, RecordSkip(r) PROVE LocalsKnown'
  BY <1>8 DEF RecordSkip, Goto, KeepSession
<1>9. ASSUME NEW r \in Runners, NoteError(r) PROVE LocalsKnown'
  BY <1>9 DEF NoteError, Goto, KeepSession
<1>10. ASSUME NEW r \in Runners, CountParsed(r) PROVE LocalsKnown'
  BY <1>10 DEF CountParsed, Goto, KeepSession
<1>11. ASSUME NEW r \in Runners, LoopEnds(r) PROVE LocalsKnown'
  BY <1>11 DEF LoopEnds, Goto, KeepSession
<1>12. ASSUME NEW r \in Runners, SetStopped(r) PROVE LocalsKnown'
  BY <1>12 DEF SetStopped, Goto, SetFinalState
<1>13. ASSUME NEW r \in Runners, CheckFailure(r) PROVE LocalsKnown'
  BY <1>13 DEF CheckFailure, Goto, KeepSession
<1>14. ASSUME NEW r \in Runners, SetFailed(r) PROVE LocalsKnown'
  BY <1>14 DEF SetFailed, Goto, SetFinalState
<1>15. ASSUME NEW r \in Runners, Finalize(r) PROVE LocalsKnown'
  BY <1>15 DEF Finalize, Goto
<1>16. ASSUME NEW r \in Runners, Return(r) PROVE LocalsKnown'
  BY <1>16 DEF Return, Goto
<1>17. ASSUME NEW r \in Runners, Begin(r) PROVE LocalsKnown'
  BY <1>17 DEF Begin, Goto
<1>18. ASSUME NEW r \in Runners, BeginRefused(r) PROVE LocalsKnown'
  BY <1>18 DEF BeginRefused, Goto
<1>19. ASSUME NEW c \in Stoppers \cup Handlers, RequestStop(c) PROVE LocalsKnown'
  BY <1>19 DEF RequestStop, RaiseEvent
<1>20. ASSUME NEW c \in Stoppers \cup Handlers, IgnoreStop(c) PROVE LocalsKnown'
  BY <1>20 DEF IgnoreStop
<1>21. ASSUME NEW c \in Stoppers \cup Handlers, StopReturns(c) PROVE LocalsKnown'
  BY <1>21 DEF StopReturns
<1>22. ASSUME UNCHANGED managerVars PROVE LocalsKnown'
  BY <1>22
<1> QED
  BY <1>1, <1>2, <1>3, <1>4, <1>5, <1>6, <1>7, <1>8, <1>9, <1>10, <1>11,
     <1>12, <1>13, <1>14, <1>15, <1>16, <1>17, <1>18, <1>19, <1>20, <1>21,
     <1>22
     DEF vars, Next, RunnerStep, LoopStep, GeneratorStep, RunnerClose,
        Environment,
         Arrival, SourceFault, SourceEnd, CallerStep, CallerClose, Finished

(* The session passes from one run() to the next only through a state that *)
(* is not active.                                                          *)
LEMMA SessionStep ==
    ASSUME TypeOK, OneSession, StateTracksSession, [Next]_vars
    PROVE  (OneSession /\ StateTracksSession)'
<1> USE DEF OneSession, StateTracksSession, InSession, SessionPoints,
   RunnerPoints,
            ActiveStates, TypeOK, RunnerTypeOK, managerVars, sessionVars,
            countVars, runnerVars, historyVars
<1>1. ASSUME NEW r \in Runners, FinishBegin(r) PROVE (OneSession /\ StateTracksSession)'
  BY <1>1 DEF FinishBegin, ResetCounts, Goto
<1>2. ASSUME NEW r \in Runners, SetRunning(r) PROVE (OneSession /\ StateTracksSession)'
  BY <1>2 DEF SetRunning, Goto
<1>3. ASSUME NEW r \in Runners, TakePacket(r) PROVE (OneSession /\ StateTracksSession)'
  <2>1. CASE stopEvent
    BY <1>3, <2>1 DEF TakePacket, MustBreak
  <2>2. CASE ~stopEvent
    BY <1>3, <2>2 DEF TakePacket, MustBreak, Goto, KeepSession
  <2> QED
    BY <2>1, <2>2
<1>4. ASSUME NEW r \in Runners, Count(r) PROVE (OneSession /\ StateTracksSession)'
  BY <1>4 DEF Count, Goto, KeepSession
<1>5. ASSUME NEW r \in Runners, Dedup(r) PROVE (OneSession /\ StateTracksSession)'
  BY <1>5 DEF Dedup, Remember, Goto, KeepSession, Skip
<1>6. ASSUME NEW r \in Runners, Parse(r) PROVE (OneSession /\ StateTracksSession)'
  BY <1>6 DEF Parse, Goto, KeepSession, Skip
<1>7. ASSUME NEW r \in Runners, Deliver(r) PROVE (OneSession /\ StateTracksSession)'
  BY <1>7 DEF Deliver, Goto, KeepSession, Skip
<1>8. ASSUME NEW r \in Runners, RecordSkip(r) PROVE (OneSession /\ StateTracksSession)'
  BY <1>8 DEF RecordSkip, Goto, KeepSession
<1>9. ASSUME NEW r \in Runners, NoteError(r) PROVE (OneSession /\ StateTracksSession)'
  BY <1>9 DEF NoteError, Goto, KeepSession
<1>10. ASSUME NEW r \in Runners, CountParsed(r) PROVE (OneSession /\ StateTracksSession)'
  BY <1>10 DEF CountParsed, Goto, KeepSession
<1>11. ASSUME NEW r \in Runners, LoopEnds(r) PROVE (OneSession /\ StateTracksSession)'
  BY <1>11 DEF LoopEnds, Goto, KeepSession
<1>12. ASSUME NEW r \in Runners, SetStopped(r) PROVE (OneSession /\ StateTracksSession)'
  BY <1>12 DEF SetStopped, Goto, SetFinalState
<1>13. ASSUME NEW r \in Runners, CheckFailure(r) PROVE (OneSession /\ StateTracksSession)'
  BY <1>13 DEF CheckFailure, Goto, KeepSession
<1>14. ASSUME NEW r \in Runners, SetFailed(r) PROVE (OneSession /\ StateTracksSession)'
  BY <1>14 DEF SetFailed, Goto, SetFinalState
<1>15. ASSUME NEW r \in Runners, Finalize(r) PROVE (OneSession /\ StateTracksSession)'
  BY <1>15 DEF Finalize, Goto
<1>16. ASSUME NEW r \in Runners, Return(r) PROVE (OneSession /\ StateTracksSession)'
  BY <1>16 DEF Return, Goto
<1>17. ASSUME NEW r \in Runners, Begin(r) PROVE (OneSession /\ StateTracksSession)'
  BY <1>17 DEF Begin, Goto
<1>18. ASSUME NEW r \in Runners, BeginRefused(r) PROVE (OneSession /\ StateTracksSession)'
  BY <1>18 DEF BeginRefused, Goto
<1>19. ASSUME NEW c \in Stoppers \cup Handlers,
             RequestStop(c) PROVE (OneSession /\ StateTracksSession)'
  BY <1>19 DEF RequestStop, RaiseEvent, StoppableStates
<1>20. ASSUME NEW c \in Stoppers \cup Handlers,
             IgnoreStop(c) PROVE (OneSession /\ StateTracksSession)'
  BY <1>20 DEF IgnoreStop
<1>21. ASSUME NEW c \in Stoppers \cup Handlers,
             StopReturns(c) PROVE (OneSession /\ StateTracksSession)'
  BY <1>21 DEF StopReturns
<1>22. ASSUME UNCHANGED managerVars PROVE (OneSession /\ StateTracksSession)'
  BY <1>22
<1> QED
  BY <1>1, <1>2, <1>3, <1>4, <1>5, <1>6, <1>7, <1>8, <1>9, <1>10, <1>11,
     <1>12, <1>13, <1>14, <1>15, <1>16, <1>17, <1>18, <1>19, <1>20, <1>21,
     <1>22
     DEF vars, Next, RunnerStep, LoopStep, GeneratorStep, RunnerClose,
        Environment,
         Arrival, SourceFault, SourceEnd, CallerStep, CallerClose, Finished

(* Each packet counted is the one in hand until it is settled.             *)
LEMMA AccountingStep ==
    ASSUME TypeOK, LocalsKnown, OneSession, Accounting, [Next]_vars
    PROVE  Accounting'
<1> USE DEF Accounting, InFlight, Held, ErrorSkips, TypeOK, CountTypeOK,
            RunnerTypeOK, OneSession, InSession, SessionPoints, RunnerPoints,
            Reasons, managerVars, sessionVars, countVars, runnerVars, historyVars
<1>1. ASSUME NEW r \in Runners, FinishBegin(r) PROVE Accounting'
  BY <1>1 DEF FinishBegin, ResetCounts, Goto
<1>2. ASSUME NEW r \in Runners, SetRunning(r) PROVE Accounting'
  BY <1>2 DEF SetRunning, Goto
<1>3. ASSUME NEW r \in Runners, TakePacket(r) PROVE Accounting'
  BY <1>3, ZenonT(30) DEF TakePacket, MustBreak, Goto, KeepSession
<1>4. ASSUME NEW r \in Runners, Count(r) PROVE Accounting'
  BY <1>4 DEF Count, Goto, KeepSession
<1>5. ASSUME NEW r \in Runners, Dedup(r) PROVE Accounting'
  BY <1>5 DEF Dedup, Remember, Goto, KeepSession, Skip
<1>6. ASSUME NEW r \in Runners, Parse(r) PROVE Accounting'
  BY <1>6 DEF Parse, Goto, KeepSession, Skip
<1>7. ASSUME NEW r \in Runners, Deliver(r) PROVE Accounting'
  BY <1>7 DEF Deliver, Goto, KeepSession, Skip
<1>8. ASSUME NEW r \in Runners, RecordSkip(r) PROVE Accounting'
  BY <1>8 DEF RecordSkip, Goto, KeepSession, ErrorReasons, LocalsKnown
<1>9. ASSUME NEW r \in Runners, NoteError(r) PROVE Accounting'
  BY <1>9 DEF NoteError, Goto, KeepSession
<1>10. ASSUME NEW r \in Runners, CountParsed(r) PROVE Accounting'
  BY <1>10 DEF CountParsed, Goto, KeepSession
<1>11. ASSUME NEW r \in Runners, LoopEnds(r) PROVE Accounting'
  BY <1>11 DEF LoopEnds, Goto, KeepSession
<1>12. ASSUME NEW r \in Runners, SetStopped(r) PROVE Accounting'
  BY <1>12 DEF SetStopped, Goto, SetFinalState
<1>13. ASSUME NEW r \in Runners, CheckFailure(r) PROVE Accounting'
  BY <1>13 DEF CheckFailure, Goto, KeepSession
<1>14. ASSUME NEW r \in Runners, SetFailed(r) PROVE Accounting'
  BY <1>14 DEF SetFailed, Goto, SetFinalState
<1>15. ASSUME NEW r \in Runners, Finalize(r) PROVE Accounting'
  BY <1>15 DEF Finalize, Goto
<1>16. ASSUME NEW r \in Runners, Return(r) PROVE Accounting'
  BY <1>16 DEF Return, Goto
<1>17. ASSUME NEW r \in Runners, Begin(r) PROVE Accounting'
  BY <1>17 DEF Begin, Goto
<1>18. ASSUME NEW r \in Runners, BeginRefused(r) PROVE Accounting'
  BY <1>18 DEF BeginRefused, Goto
<1>19. ASSUME NEW c \in Stoppers \cup Handlers, RequestStop(c) PROVE Accounting'
  BY <1>19 DEF RequestStop, RaiseEvent
<1>20. ASSUME NEW c \in Stoppers \cup Handlers, IgnoreStop(c) PROVE Accounting'
  BY <1>20 DEF IgnoreStop
<1>21. ASSUME NEW c \in Stoppers \cup Handlers, StopReturns(c) PROVE Accounting'
  BY <1>21 DEF StopReturns
<1>22. ASSUME UNCHANGED managerVars PROVE Accounting'
  BY <1>22
<1> QED
  BY <1>1, <1>2, <1>3, <1>4, <1>5, <1>6, <1>7, <1>8, <1>9, <1>10, <1>11,
     <1>12, <1>13, <1>14, <1>15, <1>16, <1>17, <1>18, <1>19, <1>20, <1>21,
     <1>22
     DEF vars, Next, RunnerStep, LoopStep, GeneratorStep, RunnerClose,
        Environment,
         Arrival, SourceFault, SourceEnd, CallerStep, CallerClose, Finished

-----------------------------------------------------------------------------
(* The inductive invariant.                                                *)
THEOREM InductiveInvariant == Spec => []IInv
<1>1. Init => IInv
  BY InitIInv
<1>2. IInv /\ [Next]_vars => IInv'
  BY TypeOKStep, LocalsStep, SessionStep, AccountingStep DEF IInv
<1> QED
  BY <1>1, <1>2, PTL DEF Spec

(* Every variable keeps its type, however many callers and sources.        *)
THEOREM TypeCorrect == Spec => []TypeOK
  BY InductiveInvariant, PTL DEF IInv

(* _begin's guard keeps two run() calls from owning the session together.  *)
THEOREM SessionsExclude == Spec => []OneSession
  BY InductiveInvariant, PTL DEF IInv

(* The state is an active one exactly while a run() owns the session.      *)
THEOREM StateIsHonest == Spec => []StateTracksSession
  BY InductiveInvariant, PTL DEF IInv

(* status() counters add up, under stop() calls and signals of any number. *)
THEOREM CountersAddUp == Spec => []Accounting
  BY InductiveInvariant, PTL DEF IInv

-----------------------------------------------------------------------------
(* Without signal handlers, nobody can call stop() inside _begin: the lock *)
(* is another thread's.  Then an accepted stop is never cleared.           *)
BeginLocked ==
    \A r \in Runners : pc[r] = "begin" => lock = r /\ allowance = NoLimit

StickInv == IInv /\ BeginLocked /\ AcceptedStopSticks

(* No step loses an accepted stop: _begin alone clears the event, in the   *)
(* step that makes the session stoppable.                                  *)
LEMMA StickStep ==
    ASSUME Handlers = {}, StickInv, [Next]_vars
    PROVE  (BeginLocked /\ AcceptedStopSticks)'
<1> USE ManagerAssumption, SourceAssumption
<1> USE DEF BeginLocked, AcceptedStopSticks, StickInv, IInv, TypeOK,
   RunnerTypeOK,
            RunnerPoints, SessionTypeOK, OneSession, StateTracksSession, InSession,
            SessionPoints, ActiveStates, managerVars, sessionVars, countVars,
            runnerVars, historyVars
<1>1. ASSUME NEW r \in Runners, FinishBegin(r)
      PROVE  (BeginLocked /\ AcceptedStopSticks)'
  BY <1>1 DEF FinishBegin, ResetCounts, Goto
<1>2. ASSUME NEW r \in Runners, SetRunning(r)
      PROVE  (BeginLocked /\ AcceptedStopSticks)'
  BY <1>2 DEF SetRunning, Goto
<1>3. ASSUME NEW r \in Runners, TakePacket(r)
      PROVE  (BeginLocked /\ AcceptedStopSticks)'
  BY <1>3, ZenonT(30) DEF TakePacket, MustBreak, Goto, KeepSession
<1>4. ASSUME NEW r \in Runners, Count(r)
      PROVE  (BeginLocked /\ AcceptedStopSticks)'
  BY <1>4 DEF Count, Goto, KeepSession
<1>5. ASSUME NEW r \in Runners, Dedup(r)
      PROVE  (BeginLocked /\ AcceptedStopSticks)'
  BY <1>5 DEF Dedup, Remember, Goto, KeepSession, Skip
<1>6. ASSUME NEW r \in Runners, Parse(r)
      PROVE  (BeginLocked /\ AcceptedStopSticks)'
  BY <1>6 DEF Parse, Goto, KeepSession, Skip
<1>7. ASSUME NEW r \in Runners, Deliver(r)
      PROVE  (BeginLocked /\ AcceptedStopSticks)'
  BY <1>7 DEF Deliver, Goto, KeepSession, Skip
<1>8. ASSUME NEW r \in Runners, RecordSkip(r)
      PROVE  (BeginLocked /\ AcceptedStopSticks)'
  BY <1>8 DEF RecordSkip, Goto, KeepSession
<1>9. ASSUME NEW r \in Runners, NoteError(r)
      PROVE  (BeginLocked /\ AcceptedStopSticks)'
  BY <1>9 DEF NoteError, Goto, KeepSession
<1>10. ASSUME NEW r \in Runners, CountParsed(r)
      PROVE  (BeginLocked /\ AcceptedStopSticks)'
  BY <1>10 DEF CountParsed, Goto, KeepSession
<1>11. ASSUME NEW r \in Runners, LoopEnds(r)
      PROVE  (BeginLocked /\ AcceptedStopSticks)'
  BY <1>11 DEF LoopEnds, Goto, KeepSession
<1>12. ASSUME NEW r \in Runners, SetStopped(r)
      PROVE  (BeginLocked /\ AcceptedStopSticks)'
  BY <1>12 DEF SetStopped, Goto, SetFinalState
<1>13. ASSUME NEW r \in Runners, CheckFailure(r)
      PROVE  (BeginLocked /\ AcceptedStopSticks)'
  BY <1>13 DEF CheckFailure, Goto, KeepSession
<1>14. ASSUME NEW r \in Runners, SetFailed(r)
      PROVE  (BeginLocked /\ AcceptedStopSticks)'
  BY <1>14 DEF SetFailed, Goto, SetFinalState
<1>15. ASSUME NEW r \in Runners, Finalize(r)
      PROVE  (BeginLocked /\ AcceptedStopSticks)'
  BY <1>15 DEF Finalize, Goto
<1>16. ASSUME NEW r \in Runners, Return(r)
      PROVE  (BeginLocked /\ AcceptedStopSticks)'
  BY <1>16 DEF Return, Goto
<1>17. ASSUME NEW r \in Runners, Begin(r)
      PROVE  (BeginLocked /\ AcceptedStopSticks)'
  BY <1>17 DEF Begin, Goto
<1>18. ASSUME NEW r \in Runners, BeginRefused(r)
      PROVE  (BeginLocked /\ AcceptedStopSticks)'
  BY <1>18 DEF BeginRefused, Goto
<1>19. ASSUME NEW c \in Stoppers \cup Handlers, RequestStop(c)
      PROVE  (BeginLocked /\ AcceptedStopSticks)'
  BY <1>19 DEF RequestStop, RaiseEvent, StoppableStates, LockFree, ThreadOf
<1>20. ASSUME NEW c \in Stoppers \cup Handlers, IgnoreStop(c)
      PROVE  (BeginLocked /\ AcceptedStopSticks)'
  BY <1>20 DEF IgnoreStop
<1>21. ASSUME NEW c \in Stoppers \cup Handlers, StopReturns(c)
      PROVE  (BeginLocked /\ AcceptedStopSticks)'
  BY <1>21 DEF StopReturns
<1>22. ASSUME UNCHANGED managerVars
      PROVE  (BeginLocked /\ AcceptedStopSticks)'
  BY <1>22
<1> QED
  BY <1>1, <1>2, <1>3, <1>4, <1>5, <1>6, <1>7, <1>8, <1>9, <1>10, <1>11,
     <1>12, <1>13, <1>14, <1>15, <1>16, <1>17, <1>18, <1>19, <1>20, <1>21,
     <1>22
     DEF vars, Next, RunnerStep, LoopStep, GeneratorStep, RunnerClose,
        Environment,
         Arrival, SourceFault, SourceEnd, CallerStep, CallerClose, Finished

(* If stop() is only called by other threads, an accepted stop stays in    *)
(* force until its session ends.                                           *)
THEOREM StopSticks ==
    ASSUME Handlers = {}
    PROVE  Spec => []AcceptedStopSticks
<1>1. Init => StickInv
  <2> SUFFICES ASSUME Init PROVE StickInv
    OBVIOUS
  <2>1. IInv
    BY InitIInv
  <2>2. BeginLocked /\ AcceptedStopSticks
    BY DEF Init, BeginLocked, AcceptedStopSticks
  <2> QED
    BY <2>1, <2>2 DEF StickInv
<1>2. StickInv /\ [Next]_vars => StickInv'
  BY StickStep, TypeOKStep, LocalsStep, SessionStep, AccountingStep
     DEF StickInv, IInv
<1> QED
  BY <1>1, <1>2, PTL DEF Spec, StickInv

-----------------------------------------------------------------------------
(* Refinement of CaptureContract.                                          *)

(* What the contract calls the phase changes with the state's class and    *)
(* with a runner's entering or leaving _begin, and with nothing else.      *)
LEMMA PhaseStays ==
    ASSUME \A r \in Runners : (pc[r] = "begin") <=> (pc[r] = "begin")',
           state' = state \/ {state, state'} \subseteq ActiveStates
    PROVE  Phase' = Phase
  BY DEF Phase, ActiveStates

(* A step that changes neither the counters nor the phase is a stutter.    *)
LEMMA Stutter ==
    ASSUME \A r \in Runners : (pc[r] = "begin") <=> (pc[r] = "begin")',
           state' = state \/ {state, state'} \subseteq ActiveStates,
           UNCHANGED <<seen, parsed, skipped>>
    PROVE  UNCHANGED Contract!contractVars
  BY PhaseStays DEF Contract!contractVars

(* Every step of the manager is a step of the contract or a stutter.       *)
LEMMA ContractStep ==
    ASSUME IInv, [Next]_vars
    PROVE  Contract!Next \/ UNCHANGED Contract!contractVars
<1> DEFINE Implements == Contract!Next \/ UNCHANGED Contract!contractVars
<1> USE DEF IInv, TypeOK, RunnerTypeOK, RunnerPoints, OneSession, InSession,
            SessionPoints, StateTracksSession
<1>1. ASSUME NEW r \in Runners, FinishBegin(r)
      PROVE  Implements
  BY <1>1 DEF FinishBegin, ResetCounts, Goto, Phase, ActiveStates,
     Contract!Next, Contract!Ready
<1>2. ASSUME NEW r \in Runners, SetRunning(r)
      PROVE  Implements
  BY <1>2, Stutter DEF SetRunning, Goto, ActiveStates,
     sessionVars, countVars, runnerVars, historyVars, managerVars
<1>3. ASSUME NEW r \in Runners, TakePacket(r)
      PROVE  Implements
  BY <1>3, Stutter DEF TakePacket, MustBreak, Goto, KeepSession,
     sessionVars, countVars, runnerVars, historyVars, managerVars
<1>4. ASSUME NEW r \in Runners, Count(r)
      PROVE  Implements
  <2>1. seen = parsed + skipped /\ seen' = seen + 1 /\ UNCHANGED <<parsed, skipped>>
    BY <1>4 DEF Count, Goto, Accounting, InFlight, Held, CountTypeOK
  <2>2. Phase = "active" /\ Phase' = Phase
    BY <1>4 DEF Count, Goto, KeepSession, sessionVars, Phase
  <2> QED
    BY <2>1, <2>2 DEF Contract!Next, Contract!See
<1>5. ASSUME NEW r \in Runners, Dedup(r)
      PROVE  Implements
  BY <1>5, Stutter DEF Dedup, Remember, Goto, KeepSession, Skip,
     sessionVars, countVars, runnerVars, historyVars, managerVars
<1>6. ASSUME NEW r \in Runners, Parse(r)
      PROVE  Implements
  BY <1>6, Stutter DEF Parse, Goto, KeepSession, Skip,
     sessionVars, countVars, runnerVars, historyVars, managerVars
<1>7. ASSUME NEW r \in Runners, Deliver(r)
      PROVE  Implements
  BY <1>7, Stutter DEF Deliver, Goto, KeepSession, Skip,
     sessionVars, countVars, runnerVars, historyVars, managerVars
<1>8. ASSUME NEW r \in Runners, RecordSkip(r)
      PROVE  Implements
  <2>1. parsed + skipped < seen
    BY <1>8 DEF RecordSkip, Goto, Accounting, InFlight, Held, CountTypeOK
  <2>2. (parsed + skipped)' = parsed + skipped + 1 /\ seen' = seen
    BY <1>8 DEF RecordSkip, CountTypeOK
  <2>3. Phase = "active" /\ Phase' = Phase
    BY <1>8 DEF RecordSkip, Goto, KeepSession, sessionVars, Phase
  <2> QED
    BY <2>1, <2>2, <2>3 DEF Contract!Next, Contract!Settle
<1>9. ASSUME NEW r \in Runners, NoteError(r)
      PROVE  Implements
  BY <1>9, Stutter DEF NoteError, Goto, KeepSession,
     sessionVars, countVars, runnerVars, historyVars, managerVars
<1>10. ASSUME NEW r \in Runners, CountParsed(r)
      PROVE  Implements
  <2>1. parsed + skipped < seen
    BY <1>10 DEF CountParsed, Goto, Accounting, InFlight, Held, CountTypeOK
  <2>2. (parsed + skipped)' = parsed + skipped + 1 /\ seen' = seen
    BY <1>10 DEF CountParsed, CountTypeOK
  <2>3. Phase = "active" /\ Phase' = Phase
    BY <1>10 DEF CountParsed, Goto, KeepSession, sessionVars, Phase
  <2> QED
    BY <2>1, <2>2, <2>3 DEF Contract!Next, Contract!Settle
<1>11. ASSUME NEW r \in Runners, LoopEnds(r)
      PROVE  Implements
  BY <1>11, Stutter DEF LoopEnds, Goto, KeepSession,
     sessionVars, countVars, runnerVars, historyVars, managerVars
<1>12. ASSUME NEW r \in Runners, SetStopped(r)
      PROVE  Implements
  <2>1. seen = parsed + skipped
    BY <1>12 DEF SetStopped, SetFinalState, Goto, Accounting, InFlight, Held,
       CountTypeOK
  <2>2. UNCHANGED <<seen, parsed, skipped>>
    BY <1>12 DEF SetStopped, SetFinalState
  <2>3. Phase = "active"
    BY <1>12 DEF SetStopped, SetFinalState, Goto, Phase
  <2>4. Phase' = "stopped"
    BY <1>12 DEF SetStopped, SetFinalState, Phase, ActiveStates
  <2> QED
    BY <2>1, <2>2, <2>3, <2>4 DEF Contract!Next, Contract!Finish
<1>13. ASSUME NEW r \in Runners, CheckFailure(r)
      PROVE  Implements
  BY <1>13, Stutter DEF CheckFailure, Goto, KeepSession,
     sessionVars, countVars, runnerVars, historyVars, managerVars
<1>14. ASSUME NEW r \in Runners, SetFailed(r)
      PROVE  Implements
  <2>1. seen = parsed + skipped
    BY <1>14 DEF SetFailed, SetFinalState, Goto, Accounting, InFlight, Held,
       CountTypeOK
  <2>2. UNCHANGED <<seen, parsed, skipped>>
    BY <1>14 DEF SetFailed, SetFinalState
  <2>3. Phase = "active"
    BY <1>14 DEF SetFailed, SetFinalState, Goto, Phase
  <2>4. Phase' = "failed"
    BY <1>14 DEF SetFailed, SetFinalState, Phase, ActiveStates
  <2> QED
    BY <2>1, <2>2, <2>3, <2>4 DEF Contract!Next, Contract!Finish
<1>15. ASSUME NEW r \in Runners, Finalize(r)
      PROVE  Implements
  BY <1>15, Stutter DEF Finalize, Goto,
     sessionVars, countVars, runnerVars, historyVars, managerVars
<1>16. ASSUME NEW r \in Runners, Return(r)
      PROVE  Implements
  BY <1>16, Stutter DEF Return, Goto,
     sessionVars, countVars, runnerVars, historyVars, managerVars
<1>17. ASSUME NEW r \in Runners, Begin(r)
      PROVE  Implements
  BY <1>17 DEF Begin, Goto, Phase, ActiveStates, countVars, Contract!Next,
     Contract!Begin, Contract!Running
<1>18. ASSUME NEW r \in Runners, BeginRefused(r)
      PROVE  Implements
  BY <1>18, Stutter DEF BeginRefused, Goto,
     sessionVars, countVars, runnerVars, historyVars, managerVars
<1>19. ASSUME NEW c \in Stoppers \cup Handlers, RequestStop(c)
      PROVE  Implements
  BY <1>19, Stutter DEF RequestStop, RaiseEvent, StoppableStates, ActiveStates,
     sessionVars, countVars, runnerVars, historyVars, managerVars
<1>20. ASSUME NEW c \in Stoppers \cup Handlers, IgnoreStop(c)
      PROVE  Implements
  BY <1>20, Stutter DEF IgnoreStop,
     sessionVars, countVars, runnerVars, historyVars, managerVars
<1>21. ASSUME NEW c \in Stoppers \cup Handlers, StopReturns(c)
      PROVE  Implements
  BY <1>21, Stutter DEF StopReturns,
     sessionVars, countVars, runnerVars, historyVars, managerVars
<1>22. ASSUME UNCHANGED managerVars
      PROVE  Implements
  BY <1>22, Stutter DEF sessionVars, countVars, runnerVars, historyVars,
     managerVars
<1> QED
  BY <1>1, <1>2, <1>3, <1>4, <1>5, <1>6, <1>7, <1>8, <1>9, <1>10, <1>11,
     <1>12, <1>13, <1>14, <1>15, <1>16, <1>17, <1>18, <1>19, <1>20, <1>21,
     <1>22
     DEF vars, Next, RunnerStep, LoopStep, GeneratorStep, RunnerClose,
        Environment,
         Arrival, SourceFault, SourceEnd, CallerStep, CallerClose, Finished

(* CaptureManager implements the contract: one session at a time, counters *)
(* that start from zero, and every packet settled before the next one and  *)
(* before the end.                                                         *)
THEOREM ManagerImplementsContract == Spec => ImplementsContract
<1>1. Init => Contract!Init
  BY DEF Init, Contract!Init, Phase, ActiveStates
<1>2. IInv /\ [Next]_vars => [Contract!Next]_(Contract!contractVars)
  BY ContractStep
<1> QED
  BY <1>1, <1>2, InductiveInvariant, PTL
     DEF Spec, ImplementsContract, Contract!Spec
=============================================================================
