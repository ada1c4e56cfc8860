------------------------- MODULE CaptureSession_proofs -------------------------
(***************************************************************************)
(* More proofs about CaptureManager: what a session does with its source   *)
(* and its packets, for any number of callers, sources and packets.        *)
(***************************************************************************)
EXTENDS CaptureManager_proofs

(* A runner works on a source that nobody else has and that is not given   *)
(* to anybody any more.                                                    *)
SourceOwned ==
    /\ \A r \in Runners : pc[r] # "idle" => argument[r] \notin unused
    /\ \A r, q \in Runners :
          pc[r] # "idle" /\ pc[q] # "idle" /\ argument[r] = argument[q] => r = q

Holding == {"count", "dedup", "parse", "deliver", "skip", "note", "parsed"}
Leaving == {"ended", "raised", "failing", "final", "report"}

(* How far the generator of a source is follows from how far its session   *)
(* is, except at "next", where the generator runs.                         *)
GeneratorFollows ==
    /\ \A s \in unused : generator[s] = "new"
    /\ \A r \in Runners :
          /\ pc[r] \in {"begin", "starting"} => generator[argument[r]] = "new"
          /\ pc[r] \in Holding => generator[argument[r]] = "yielded"
          /\ pc[r] \in Leaving => generator[argument[r]] = "over"

OwnInv == IInv /\ SourceOwned /\ GeneratorFollows

(* Steps of close() leave the generators alone.                            *)
LEMMA CloseKeepsReader ==
    ASSUME NEW a, CloseStep(a)
    PROVE  UNCHANGED readerVars
  BY DEF CloseStep, Grab, Shut, EnterForget, Forget

(* A runner moves only the generator of its own source.                    *)
LEMMA OwnStep ==
    ASSUME OwnInv, [Next]_vars
    PROVE  (SourceOwned /\ GeneratorFollows)'
<1> USE DEF OwnInv, IInv, TypeOK, RunnerTypeOK, RunnerPoints, SourceTypeOK,
            GeneratorPoints, LocalsKnown, SourceOwned, GeneratorFollows,
            Holding, Leaving, vars, managerVars, sessionVars, countVars,
            runnerVars, historyVars
<1>1. ASSUME NEW r \in Runners, FinishBegin(r)
      PROVE  (SourceOwned /\ GeneratorFollows)'
  BY <1>1 DEF FinishBegin, ResetCounts, Goto, sourceVars
<1>2. ASSUME NEW r \in Runners, SetRunning(r)
      PROVE  (SourceOwned /\ GeneratorFollows)'
  BY <1>2 DEF SetRunning, Goto, sourceVars
<1>3. ASSUME NEW r \in Runners, GeneratorStep(r)
      PROVE  (SourceOwned /\ GeneratorFollows)'
  BY <1>3 DEF GeneratorStep, InGenerator, Open, EnterStore, Store,
              CheckStop, Leave, GeneratorGoto
<1>4. ASSUME NEW r \in Runners, RunnerClose(r)
      PROVE  (SourceOwned /\ GeneratorFollows)'
  BY <1>4, CloseKeepsReader DEF RunnerClose, readerVars
<1>5. ASSUME NEW r \in Runners, TakePacket(r)
      PROVE  (SourceOwned /\ GeneratorFollows)'
  BY <1>5 DEF TakePacket, MustBreak, Goto, KeepSession, InGenerator,
              Abandon, Leave, GeneratorGoto, sourceVars
<1>6. ASSUME NEW r \in Runners, Count(r)
      PROVE  (SourceOwned /\ GeneratorFollows)'
  BY <1>6 DEF Count, Goto, KeepSession, sourceVars
<1>7. ASSUME NEW r \in Runners, Dedup(r)
      PROVE  (SourceOwned /\ GeneratorFollows)'
  BY <1>7 DEF Dedup, Remember, Goto, Skip, KeepSession, sourceVars
<1>8. ASSUME NEW r \in Runners, Parse(r)
      PROVE  (SourceOwned /\ GeneratorFollows)'
  BY <1>8 DEF Parse, Goto, Skip, KeepSession, sourceVars
<1>9. ASSUME NEW r \in Runners, Deliver(r)
      PROVE  (SourceOwned /\ GeneratorFollows)'
  BY <1>9 DEF Deliver, Goto, Skip, KeepSession, sourceVars
<1>10. ASSUME NEW r \in Runners, RecordSkip(r)
      PROVE  (SourceOwned /\ GeneratorFollows)'
  BY <1>10 DEF RecordSkip, Goto, KeepSession, Resume, GeneratorGoto,
               sourceVars
<1>11. ASSUME NEW r \in Runners, NoteError(r)
      PROVE  (SourceOwned /\ GeneratorFollows)'
  BY <1>11 DEF NoteError, Goto, KeepSession, Resume, Abandon, Leave,
               GeneratorGoto, sourceVars
<1>12. ASSUME NEW r \in Runners, CountParsed(r)
      PROVE  (SourceOwned /\ GeneratorFollows)'
  BY <1>12 DEF CountParsed, Goto, KeepSession, Resume, GeneratorGoto,
               sourceVars
<1>13. ASSUME NEW r \in Runners, LoopEnds(r)
      PROVE  (SourceOwned /\ GeneratorFollows)'
  BY <1>13 DEF LoopEnds, Goto, KeepSession, GeneratorDone, sourceVars
<1>14. ASSUME NEW r \in Runners, SetStopped(r)
      PROVE  (SourceOwned /\ GeneratorFollows)'
  BY <1>14 DEF SetStopped, SetFinalState, Goto, readerVars
<1>15. ASSUME NEW r \in Runners, CheckFailure(r)
      PROVE  (SourceOwned /\ GeneratorFollows)'
  BY <1>15 DEF CheckFailure, Goto, KeepSession, sourceVars
<1>16. ASSUME NEW r \in Runners, SetFailed(r)
      PROVE  (SourceOwned /\ GeneratorFollows)'
  BY <1>16 DEF SetFailed, SetFinalState, Goto, readerVars
<1>17. ASSUME NEW r \in Runners, Finalize(r)
      PROVE  (SourceOwned /\ GeneratorFollows)'
  BY <1>17 DEF Finalize, Goto, sourceVars
<1>18. ASSUME NEW r \in Runners, Return(r)
      PROVE  (SourceOwned /\ GeneratorFollows)'
  BY <1>18 DEF Return, Goto, sourceVars
<1>19. ASSUME NEW r \in Runners, Begin(r)
      PROVE  (SourceOwned /\ GeneratorFollows)'
  BY <1>19 DEF Begin, Goto, sourceVars
<1>20. ASSUME NEW r \in Runners, BeginRefused(r)
      PROVE  (SourceOwned /\ GeneratorFollows)'
  BY <1>20 DEF BeginRefused, Goto, sourceVars
<1>21. ASSUME NEW r \in Runners, Arrival(r)
      PROVE  (SourceOwned /\ GeneratorFollows)'
  BY <1>21 DEF Arrival, InGenerator, ReadPacket, GeneratorGoto
<1>22. ASSUME NEW r \in Runners, SourceFault(r)
      PROVE  (SourceOwned /\ GeneratorFollows)'
  BY <1>22 DEF SourceFault, InGenerator, OpenFails, ReadFails, Leave,
               GeneratorGoto
<1>23. ASSUME NEW r \in Runners, SourceEnd(r)
      PROVE  (SourceOwned /\ GeneratorFollows)'
  BY <1>23 DEF SourceEnd, InGenerator, Exhausted, Leave, GeneratorGoto
<1>24. ASSUME NEW c \in Stoppers \cup Handlers, RequestStop(c)
      PROVE  (SourceOwned /\ GeneratorFollows)'
  BY <1>24 DEF RequestStop, RaiseEvent, readerVars, StoppableStates
<1>25. ASSUME NEW c \in Stoppers \cup Handlers, IgnoreStop(c)
      PROVE  (SourceOwned /\ GeneratorFollows)'
  BY <1>25 DEF IgnoreStop, sourceVars
<1>26. ASSUME NEW c \in Stoppers \cup Handlers, CallerClose(c)
      PROVE  (SourceOwned /\ GeneratorFollows)'
  BY <1>26, CloseKeepsReader DEF CallerClose, readerVars
<1>27. ASSUME NEW c \in Stoppers \cup Handlers, StopReturns(c)
      PROVE  (SourceOwned /\ GeneratorFollows)'
  BY <1>27 DEF StopReturns, sourceVars
<1>28. ASSUME UNCHANGED vars PROVE (SourceOwned /\ GeneratorFollows)'
  BY <1>28 DEF sourceVars
<1> QED
  BY <1>1, <1>2, <1>3, <1>4, <1>5, <1>6, <1>7, <1>8, <1>9, <1>10, <1>11,
     <1>12, <1>13, <1>14, <1>15, <1>16, <1>17, <1>18, <1>19, <1>20, <1>21,
     <1>22, <1>23, <1>24, <1>25, <1>26, <1>27, <1>28
     DEF Next, RunnerStep, LoopStep, Environment, CallerStep, Finished

(* At the start no session owns a source.                                  *)
LEMMA InitOwnInv == Init => OwnInv
<1> SUFFICES ASSUME Init PROVE OwnInv
  OBVIOUS
<1>1. IInv
  BY InitIInv
<1>2. SourceOwned /\ GeneratorFollows
  BY DEF Init, SourceInit, SourceOwned, GeneratorFollows, Holding, Leaving
<1> QED
  BY <1>1, <1>2 DEF OwnInv

(* OwnInv is inductive.                                                    *)
LEMMA OwnInvStep == OwnInv /\ [Next]_vars => OwnInv'
  BY OwnStep, TypeOKStep, LocalsStep, SessionStep, AccountingStep
     DEF OwnInv, IInv

-----------------------------------------------------------------------------
(* A stop request bounds the session.                                      *)

(* The packets in the pipeline between the source and the counter: reading *)
(* stopped at MaxPackets before a request, so there is room for each.      *)
Uncounted(r) ==
    \/ pc[r] \in {"starting", "count"}
    \/ pc[r] = "next" /\ generator[argument[r]] \in {"fetched", "yielded"}

RoomLeft ==
    allowance = NoLimit =>
        \A r \in Runners :
            /\ Uncounted(r) => seen < MaxPackets
            /\ InSession(r) /\ pc[r] # "begin" => ~stopEvent

WithinAllowance ==
    /\ seen <= MaxPackets
    /\ allowance # NoLimit =>
          allowance <= MaxPackets /\ seen + Held({"count"}) <= allowance

StopInv == OwnInv /\ BeginLocked /\ AcceptedStopSticks /\ RoomLeft /\ WithinAllowance

(* What remains of a session after an accepted stop never grows: each step *)
(* either spends the allowance or leaves it.                               *)
LEMMA StopBoundStep ==
    ASSUME Handlers = {}, StopInv, [Next]_vars
    PROVE  (RoomLeft /\ WithinAllowance)'
<1> USE ManagerAssumption, SourceAssumption
<1> USE DEF StopInv, OwnInv, IInv, TypeOK, RunnerTypeOK, RunnerPoints,
            SessionTypeOK, CountTypeOK, HistoryTypeOK, SourceTypeOK,
            GeneratorPoints, LocalsKnown, OneSession, StateTracksSession,
            InSession, SessionPoints, ActiveStates, BeginLocked,
            AcceptedStopSticks, SourceOwned, GeneratorFollows, Holding, RoomLeft,
            WithinAllowance, Uncounted, Held, NoLimit, vars, managerVars,
            sessionVars, countVars, runnerVars, historyVars
<1>1. ASSUME NEW r \in Runners, FinishBegin(r)
      PROVE  (RoomLeft /\ WithinAllowance)'
  BY <1>1 DEF FinishBegin, ResetCounts, Goto, sourceVars
<1>2. ASSUME NEW r \in Runners, SetRunning(r)
      PROVE  (RoomLeft /\ WithinAllowance)'
  BY <1>2 DEF SetRunning, Goto, sourceVars
<1>3. ASSUME NEW r \in Runners, GeneratorStep(r)
      PROVE  (RoomLeft /\ WithinAllowance)'
  BY <1>3 DEF GeneratorStep, InGenerator, Open, EnterStore, Store,
              CheckStop, Leave, GeneratorGoto
<1>4. ASSUME NEW r \in Runners, RunnerClose(r)
      PROVE  (RoomLeft /\ WithinAllowance)'
  BY <1>4, CloseKeepsReader DEF RunnerClose, readerVars
<1>5. ASSUME NEW r \in Runners, TakePacket(r)
      PROVE  (RoomLeft /\ WithinAllowance)'
  BY <1>5 DEF TakePacket, MustBreak, Goto, KeepSession, InGenerator,
              Abandon, Leave, GeneratorGoto, sourceVars
<1>6. ASSUME NEW r \in Runners, Count(r) PROVE (RoomLeft /\ WithinAllowance)'
  BY <1>6 DEF Count, Goto, KeepSession, sourceVars
<1>7. ASSUME NEW r \in Runners, Dedup(r) PROVE (RoomLeft /\ WithinAllowance)'
  BY <1>7 DEF Dedup, Remember, Goto, Skip, KeepSession, sourceVars
<1>8. ASSUME NEW r \in Runners, Parse(r) PROVE (RoomLeft /\ WithinAllowance)'
  BY <1>8 DEF Parse, Goto, Skip, KeepSession, sourceVars
<1>9. ASSUME NEW r \in Runners, Deliver(r) PROVE (RoomLeft /\ WithinAllowance)'
  BY <1>9 DEF Deliver, Goto, Skip, KeepSession, sourceVars
<1>10. ASSUME NEW r \in Runners, RecordSkip(r)
      PROVE  (RoomLeft /\ WithinAllowance)'
  BY <1>10 DEF RecordSkip, Goto, KeepSession, Resume, GeneratorGoto,
               sourceVars
<1>11. ASSUME NEW r \in Runners, NoteError(r)
      PROVE  (RoomLeft /\ WithinAllowance)'
  BY <1>11 DEF NoteError, Goto, KeepSession, Resume, Abandon, Leave,
               GeneratorGoto, sourceVars
<1>12. ASSUME NEW r \in Runners, CountParsed(r)
      PROVE  (RoomLeft /\ WithinAllowance)'
  BY <1>12 DEF CountParsed, Goto, KeepSession, Resume, GeneratorGoto,
               sourceVars
<1>13. ASSUME NEW r \in Runners, LoopEnds(r)
      PROVE  (RoomLeft /\ WithinAllowance)'
  BY <1>13 DEF LoopEnds, Goto, KeepSession, GeneratorDone, sourceVars
<1>14. ASSUME NEW r \in Runners, SetStopped(r)
      PROVE  (RoomLeft /\ WithinAllowance)'
  BY <1>14 DEF SetStopped, SetFinalState, Goto, readerVars
<1>15. ASSUME NEW r \in Runners, CheckFailure(r)
      PROVE  (RoomLeft /\ WithinAllowance)'
  BY <1>15 DEF CheckFailure, Goto, KeepSession, sourceVars
<1>16. ASSUME NEW r \in Runners, SetFailed(r)
      PROVE  (RoomLeft /\ WithinAllowance)'
  BY <1>16 DEF SetFailed, SetFinalState, Goto, readerVars
<1>17. ASSUME NEW r \in Runners, Finalize(r)
      PROVE  (RoomLeft /\ WithinAllowance)'
  BY <1>17 DEF Finalize, Goto, sourceVars
<1>18. ASSUME NEW r \in Runners, Return(r) PROVE (RoomLeft /\ WithinAllowance)'
  BY <1>18 DEF Return, Goto, sourceVars
<1>19. ASSUME NEW r \in Runners, Begin(r) PROVE (RoomLeft /\ WithinAllowance)'
  BY <1>19 DEF Begin, Goto, sourceVars
<1>20. ASSUME NEW r \in Runners, BeginRefused(r)
      PROVE  (RoomLeft /\ WithinAllowance)'
  BY <1>20 DEF BeginRefused, Goto, sourceVars
<1>21. ASSUME NEW r \in Runners, Arrival(r)
      PROVE  (RoomLeft /\ WithinAllowance)'
  BY <1>21 DEF Arrival, InGenerator, ReadPacket, GeneratorGoto
<1>22. ASSUME NEW r \in Runners, SourceFault(r)
      PROVE  (RoomLeft /\ WithinAllowance)'
  BY <1>22 DEF SourceFault, InGenerator, OpenFails, ReadFails, Leave,
               GeneratorGoto
<1>23. ASSUME NEW r \in Runners, SourceEnd(r)
      PROVE  (RoomLeft /\ WithinAllowance)'
  BY <1>23 DEF SourceEnd, InGenerator, Exhausted, Leave, GeneratorGoto
<1>24. ASSUME NEW c \in Stoppers \cup Handlers, RequestStop(c)
      PROVE  (RoomLeft /\ WithinAllowance)'
  BY <1>24 DEF RequestStop, RaiseEvent, readerVars, StoppableStates,
               LockFree, ThreadOf
<1>25. ASSUME NEW c \in Stoppers \cup Handlers, IgnoreStop(c)
      PROVE  (RoomLeft /\ WithinAllowance)'
  BY <1>25 DEF IgnoreStop, sourceVars
<1>26. ASSUME NEW c \in Stoppers \cup Handlers, CallerClose(c)
      PROVE  (RoomLeft /\ WithinAllowance)'
  BY <1>26, CloseKeepsReader DEF CallerClose, readerVars
<1>27. ASSUME NEW c \in Stoppers \cup Handlers, StopReturns(c)
      PROVE  (RoomLeft /\ WithinAllowance)'
  BY <1>27 DEF StopReturns, sourceVars
<1>28. ASSUME UNCHANGED vars PROVE (RoomLeft /\ WithinAllowance)'
  BY <1>28 DEF sourceVars
<1> QED
  BY <1>1, <1>2, <1>3, <1>4, <1>5, <1>6, <1>7, <1>8, <1>9, <1>10, <1>11,
     <1>12, <1>13, <1>14, <1>15, <1>16, <1>17, <1>18, <1>19, <1>20, <1>21,
     <1>22, <1>23, <1>24, <1>25, <1>26, <1>27, <1>28
     DEF Next, RunnerStep, LoopStep, Environment, CallerStep, Finished

(* Without signal handlers a session counts, after it has accepted a stop, *)
(* at most the packet the loop had already taken.                          *)
THEOREM StopBoundsSession ==
    ASSUME Handlers = {}
    PROVE  Spec => []StopBounded
<1>1. Init => StopInv
  <2> SUFFICES ASSUME Init PROVE StopInv
    OBVIOUS
  <2>1. OwnInv
    BY InitOwnInv
  <2>2. BeginLocked /\ AcceptedStopSticks /\ RoomLeft /\ WithinAllowance
    BY SourceAssumption
       DEF Init, BeginLocked, AcceptedStopSticks, RoomLeft, Uncounted,
           InSession, SessionPoints, WithinAllowance, NoLimit
  <2> QED
    BY <2>1, <2>2 DEF StopInv
<1>2. StopInv /\ [Next]_vars => StopInv'
  BY OwnInvStep, StickStep, StopBoundStep DEF StopInv, OwnInv, StickInv
<1>3. StopInv => StopBounded
  <2> SUFFICES ASSUME StopInv PROVE StopBounded
    OBVIOUS
  <2> QED
    BY SourceAssumption
       DEF StopInv, OwnInv, IInv, TypeOK, CountTypeOK, HistoryTypeOK,
           WithinAllowance, StopBounded, NoLimit, Held
<1> QED
  BY <1>1, <1>2, <1>3, PTL DEF Spec

-----------------------------------------------------------------------------
(* The duplicate check: what has reached the frame sink is remembered.     *)

Unsent(s, n) == delivered[<<s, n>>] = 0

Remembered ==
    /\ \A s \in unused, n \in PacketNumbers : Unsent(s, n)
    /\ \A r \in Runners, n \in PacketNumbers :
          /\ pc[r] \in {"begin", "starting"} => Unsent(argument[r], n)
          /\ pc[r] \in {"next"} \cup Holding =>
                Unsent(argument[r], n) \/ <<argument[r], n>> \in seenPackets
    /\ \A r \in Runners :
          pc[r] \in {"parse", "deliver"} =>
              Unsent(argument[r], number[argument[r]]) /\ PacketKey(r) \in seenPackets

(* What the loop has in hand has a number that a packet can have.          *)
Numbered ==
    /\ \A s \in Sources :
          generator[s] \in {"fetched", "yielded"} => number[s] \in PacketNumbers

OnceInv == OwnInv /\ Remembered /\ Numbered /\ NoRedelivery

(* Packets are numbered in the order they are read.                        *)
LEMMA NumberedStep ==
    ASSUME OwnInv, Numbered, [Next]_vars
    PROVE  Numbered'
<1> USE DEF OwnInv, IInv, TypeOK, RunnerTypeOK, RunnerPoints, SourceTypeOK,
            GeneratorPoints, LocalsKnown, Numbered, vars, managerVars,
            sessionVars, countVars, runnerVars, historyVars
<1>1. ASSUME NEW r \in Runners, FinishBegin(r) PROVE Numbered'
  BY <1>1 DEF FinishBegin, ResetCounts, Goto, sourceVars
<1>2. ASSUME NEW r \in Runners, SetRunning(r) PROVE Numbered'
  BY <1>2 DEF SetRunning, Goto, sourceVars
<1>3. ASSUME NEW r \in Runners, GeneratorStep(r) PROVE Numbered'
  BY <1>3 DEF GeneratorStep, InGenerator, Open, EnterStore, Store,
              CheckStop, Leave, GeneratorGoto
<1>4. ASSUME NEW r \in Runners, RunnerClose(r) PROVE Numbered'
  BY <1>4, CloseKeepsReader DEF RunnerClose, readerVars
<1>5. ASSUME NEW r \in Runners, TakePacket(r) PROVE Numbered'
  BY <1>5 DEF TakePacket, MustBreak, Goto, KeepSession, InGenerator,
              Abandon, Leave, GeneratorGoto, sourceVars
<1>6. ASSUME NEW r \in Runners, Count(r) PROVE Numbered'
  BY <1>6 DEF Count, Goto, KeepSession, sourceVars
<1>7. ASSUME NEW r \in Runners, Dedup(r) PROVE Numbered'
  BY <1>7 DEF Dedup, Remember, Goto, Skip, KeepSession, sourceVars
<1>8. ASSUME NEW r \in Runners, Parse(r) PROVE Numbered'
  BY <1>8 DEF Parse, Goto, Skip, KeepSession, sourceVars
<1>9. ASSUME NEW r \in Runners, Deliver(r) PROVE Numbered'
  BY <1>9 DEF Deliver, Goto, Skip, KeepSession, sourceVars
<1>10. ASSUME NEW r \in Runners, RecordSkip(r) PROVE Numbered'
  BY <1>10 DEF RecordSkip, Goto, KeepSession, Resume, GeneratorGoto,
               sourceVars
<1>11. ASSUME NEW r \in Runners, NoteError(r) PROVE Numbered'
  BY <1>11 DEF NoteError, Goto, KeepSession, Resume, Abandon, Leave,
               GeneratorGoto, sourceVars
<1>12. ASSUME NEW r \in Runners, CountParsed(r) PROVE Numbered'
  BY <1>12 DEF CountParsed, Goto, KeepSession, Resume, GeneratorGoto,
               sourceVars
<1>13. ASSUME NEW r \in Runners, LoopEnds(r) PROVE Numbered'
  BY <1>13 DEF LoopEnds, Goto, KeepSession, GeneratorDone, sourceVars
<1>14. ASSUME NEW r \in Runners, SetStopped(r) PROVE Numbered'
  BY <1>14 DEF SetStopped, SetFinalState, Goto, readerVars
<1>15. ASSUME NEW r \in Runners, CheckFailure(r) PROVE Numbered'
  BY <1>15 DEF CheckFailure, Goto, KeepSession, sourceVars
<1>16. ASSUME NEW r \in Runners, SetFailed(r) PROVE Numbered'
  BY <1>16 DEF SetFailed, SetFinalState, Goto, readerVars
<1>17. ASSUME NEW r \in Runners, Finalize(r) PROVE Numbered'
  BY <1>17 DEF Finalize, Goto, sourceVars
<1>18. ASSUME NEW r \in Runners, Return(r) PROVE Numbered'
  BY <1>18 DEF Return, Goto, sourceVars
<1>19. ASSUME NEW r \in Runners, Begin(r) PROVE Numbered'
  BY <1>19 DEF Begin, Goto, sourceVars
<1>20. ASSUME NEW r \in Runners, BeginRefused(r) PROVE Numbered'
  BY <1>20 DEF BeginRefused, Goto, sourceVars
<1>21. ASSUME NEW r \in Runners, Arrival(r) PROVE Numbered'
  BY <1>21 DEF Arrival, InGenerator, ReadPacket, GeneratorGoto
<1>22. ASSUME NEW r \in Runners, SourceFault(r) PROVE Numbered'
  BY <1>22 DEF SourceFault, InGenerator, OpenFails, ReadFails, Leave,
               GeneratorGoto
<1>23. ASSUME NEW r \in Runners, SourceEnd(r) PROVE Numbered'
  BY <1>23 DEF SourceEnd, InGenerator, Exhausted, Leave, GeneratorGoto
<1>24. ASSUME NEW c \in Stoppers \cup Handlers, RequestStop(c) PROVE Numbered'
  BY <1>24 DEF RequestStop, RaiseEvent, readerVars, StoppableStates
<1>25. ASSUME NEW c \in Stoppers \cup Handlers, IgnoreStop(c) PROVE Numbered'
  BY <1>25 DEF IgnoreStop, sourceVars
<1>26. ASSUME NEW c \in Stoppers \cup Handlers, CallerClose(c) PROVE Numbered'
  BY <1>26, CloseKeepsReader DEF CallerClose, readerVars
<1>27. ASSUME NEW c \in Stoppers \cup Handlers, StopReturns(c) PROVE Numbered'
  BY <1>27 DEF StopReturns, sourceVars
<1>28. ASSUME UNCHANGED vars PROVE Numbered'
  BY <1>28 DEF sourceVars
<1> QED
  BY <1>1, <1>2, <1>3, <1>4, <1>5, <1>6, <1>7, <1>8, <1>9, <1>10, <1>11,
     <1>12, <1>13, <1>14, <1>15, <1>16, <1>17, <1>18, <1>19, <1>20, <1>21,
     <1>22, <1>23, <1>24, <1>25, <1>26, <1>27, <1>28
     DEF Next, RunnerStep, LoopStep, Environment, CallerStep, Finished

(* A packet once remembered is never delivered again.                      *)
LEMMA OnceStep ==
    ASSUME OnceInv, [Next]_vars
    PROVE  (Remembered /\ NoRedelivery)'
<1> USE DEF OnceInv, OwnInv, IInv, TypeOK, RunnerTypeOK, RunnerPoints,
            CountTypeOK, HistoryTypeOK, SourceTypeOK, GeneratorPoints,
            LocalsKnown, OneSession, InSession, SessionPoints, SourceOwned,
            GeneratorFollows, Holding, Remembered, Unsent, Numbered,
            NoRedelivery, PacketKey, vars, managerVars, sessionVars, countVars,
            runnerVars, historyVars
<1>1. ASSUME NEW r \in Runners, FinishBegin(r)
      PROVE  (Remembered /\ NoRedelivery)'
  BY <1>1, SMTT(30) DEF FinishBegin, ResetCounts, Goto, sourceVars
<1>2. ASSUME NEW r \in Runners, SetRunning(r)
      PROVE  (Remembered /\ NoRedelivery)'
  BY <1>2 DEF SetRunning, Goto, sourceVars
<1>3. ASSUME NEW r \in Runners, GeneratorStep(r)
      PROVE  (Remembered /\ NoRedelivery)'
  BY <1>3 DEF GeneratorStep, InGenerator, Open, EnterStore, Store,
              CheckStop, Leave, GeneratorGoto
<1>4. ASSUME NEW r \in Runners, RunnerClose(r)
      PROVE  (Remembered /\ NoRedelivery)'
  BY <1>4, CloseKeepsReader DEF RunnerClose, readerVars
<1>5. ASSUME NEW r \in Runners, TakePacket(r)
      PROVE  (Remembered /\ NoRedelivery)'
  BY <1>5 DEF TakePacket, MustBreak, Goto, KeepSession, InGenerator,
              Abandon, Leave, GeneratorGoto, sourceVars
<1>6. ASSUME NEW r \in Runners, Count(r) PROVE (Remembered /\ NoRedelivery)'
  BY <1>6 DEF Count, Goto, KeepSession, sourceVars
<1>7. ASSUME NEW r \in Runners, Dedup(r) PROVE (Remembered /\ NoRedelivery)'
  <2>1. argument[r] \in Sources /\ number[argument[r]] \in PacketNumbers
    BY <1>7 DEF Dedup
  <2>2. /\ seenPackets' = seenPackets \cup {PacketKey(r)}
        /\ UNCHANGED <<delivered, argument, unused, number>>
        /\ \A q \in Runners : q # r => pc'[q] = pc[q]
        /\ pc'[r] = IF PacketKey(r) \in seenPackets THEN "skip" ELSE "parse"
    BY <1>7 DEF Dedup, Remember, Goto, Skip, KeepSession, sourceVars
  <2>3. PacketKey(r) \notin seenPackets => Unsent(argument[r], number[argument[r]])
    BY <1>7, <2>1 DEF Dedup
  <2>4. pc[r] = "dedup"
    BY <1>7 DEF Dedup
  <2> QED
    BY <2>1, <2>2, <2>3, <2>4
<1>8. ASSUME NEW r \in Runners, Parse(r) PROVE (Remembered /\ NoRedelivery)'
  BY <1>8 DEF Parse, Goto, Skip, KeepSession, sourceVars
<1>9. ASSUME NEW r \in Runners, Deliver(r) PROVE (Remembered /\ NoRedelivery)'
  <2>1. /\ argument[r] \in Sources /\ number[argument[r]] \in PacketNumbers
        /\ PacketKey(r) \in Sources \X PacketNumbers
    BY <1>9 DEF Deliver
  <2>2. delivered[PacketKey(r)] = 0
    BY <1>9, <2>1 DEF Deliver
  <2>3. /\ UNCHANGED <<seenPackets, argument, unused, number>>
        /\ \A q \in Runners : q # r => pc'[q] = pc[q]
        /\ pc[r] = "deliver" /\ pc'[r] \in {"parsed", "skip"}
    BY <1>9 DEF Deliver, Goto, Skip, KeepSession, sourceVars
  <2>4. \A k \in Sources \X PacketNumbers :
           delivered'[k] = IF k = PacketKey(r) THEN delivered'[k] ELSE delivered[k]
    BY <1>9 DEF Deliver
  <2>5. delivered'[PacketKey(r)] \in {0, 1}
    BY <1>9, <2>1, <2>2 DEF Deliver
  <2>6. ASSUME NEW k \in Sources \X PacketNumbers PROVE delivered'[k] <= 1
    <3>1. CASE k = PacketKey(r)
      BY <2>5, <3>1
    <3>2. CASE k # PacketKey(r)
      BY <2>4, <3>2
    <3> QED
      BY <3>1, <3>2
  <2>7. Remembered'
    <3>1. \A q \in Runners : InSession(q) => q = r
      BY <2>3
    <3>2. \A s \in unused, n \in PacketNumbers :
             <<s, n>> \in Sources \X PacketNumbers /\ <<s, n>> # PacketKey(r)
      BY <2>3
    <3>3. PacketKey(r) \in seenPackets
      BY <2>3
    <3>4. \A n \in PacketNumbers :
             (Unsent(argument[r], n) \/ <<argument[r], n>> \in seenPackets)'
      BY <2>1, <2>3, <2>4, <3>3
    <3>5. \A q \in Runners : q # r => pc'[q] \in {"idle", "final", "report"}
      BY <2>3, <3>1
    <3>6. ASSUME NEW s \in unused', NEW n \in PacketNumbers
          PROVE  delivered'[<<s, n>>] = 0
      <4>1. s \in unused /\ delivered[<<s, n>>] = 0
        BY <2>3
      <4>2. <<s, n>> \in Sources \X PacketNumbers /\ <<s, n>> # PacketKey(r)
        BY <3>2, <4>1
      <4> QED
        BY <2>4, <4>1, <4>2
    <3>7. \A q \in Runners : pc'[q] \notin {"begin", "starting", "parse", "deliver"}
      BY <2>3, <3>5
    <3>8. \A q \in Runners : pc'[q] \in {"next"} \cup Holding => q = r
      BY <3>5, SMTT(30)
    <3> HIDE DEF OnceInv, PacketNumbers, PacketKey
    <3> QED
      BY <3>4, <3>6, <3>7, <3>8
  <2> QED
    BY <2>6, <2>7
<1>10. ASSUME NEW r \in Runners, RecordSkip(r)
      PROVE  (Remembered /\ NoRedelivery)'
  BY <1>10 DEF RecordSkip, Goto, KeepSession, Resume, GeneratorGoto,
               sourceVars
<1>11. ASSUME NEW r \in Runners, NoteError(r)
      PROVE  (Remembered /\ NoRedelivery)'
  BY <1>11 DEF NoteError, Goto, KeepSession, Resume, Abandon, Leave,
               GeneratorGoto, sourceVars
<1>12. ASSUME NEW r \in Runners, CountParsed(r)
      PROVE  (Remembered /\ NoRedelivery)'
  BY <1>12 DEF CountParsed, Goto, KeepSession, Resume, GeneratorGoto,
               sourceVars
<1>13. ASSUME NEW r \in Runners, LoopEnds(r)
      PROVE  (Remembered /\ NoRedelivery)'
  BY <1>13 DEF LoopEnds, Goto, KeepSession, GeneratorDone, sourceVars
<1>14. ASSUME NEW r \in Runners, SetStopped(r)
      PROVE  (Remembered /\ NoRedelivery)'
  BY <1>14 DEF SetStopped, SetFinalState, Goto, readerVars
<1>15. ASSUME NEW r \in Runners, CheckFailure(r)
      PROVE  (Remembered /\ NoRedelivery)'
  BY <1>15 DEF CheckFailure, Goto, KeepSession, sourceVars
<1>16. ASSUME NEW r \in Runners, SetFailed(r)
      PROVE  (Remembered /\ NoRedelivery)'
  BY <1>16 DEF SetFailed, SetFinalState, Goto, readerVars
<1>17. ASSUME NEW r \in Runners, Finalize(r)
      PROVE  (Remembered /\ NoRedelivery)'
  BY <1>17 DEF Finalize, Goto, sourceVars
<1>18. ASSUME NEW r \in Runners, Return(r) PROVE (Remembered /\ NoRedelivery)'
  BY <1>18 DEF Return, Goto, sourceVars
<1>19. ASSUME NEW r \in Runners, Begin(r) PROVE (Remembered /\ NoRedelivery)'
  BY <1>19 DEF Begin, Goto, sourceVars
<1>20. ASSUME NEW r \in Runners, BeginRefused(r)
      PROVE  (Remembered /\ NoRedelivery)'
  BY <1>20 DEF BeginRefused, Goto, sourceVars
<1>21. ASSUME NEW r \in Runners, Arrival(r) PROVE (Remembered /\ NoRedelivery)'
  BY <1>21 DEF Arrival, InGenerator, ReadPacket, GeneratorGoto
<1>22. ASSUME NEW r \in Runners, SourceFault(r)
      PROVE  (Remembered /\ NoRedelivery)'
  BY <1>22 DEF SourceFault, InGenerator, OpenFails, ReadFails, Leave,
               GeneratorGoto
<1>23. ASSUME NEW r \in Runners, SourceEnd(r)
      PROVE  (Remembered /\ NoRedelivery)'
  BY <1>23 DEF SourceEnd, InGenerator, Exhausted, Leave, GeneratorGoto
<1>24. ASSUME NEW c \in Stoppers \cup Handlers, RequestStop(c)
      PROVE  (Remembered /\ NoRedelivery)'
  BY <1>24 DEF RequestStop, RaiseEvent, readerVars, StoppableStates
<1>25. ASSUME NEW c \in Stoppers \cup Handlers, IgnoreStop(c)
      PROVE  (Remembered /\ NoRedelivery)'
  BY <1>25 DEF IgnoreStop, sourceVars
<1>26. ASSUME NEW c \in Stoppers \cup Handlers, CallerClose(c)
      PROVE  (Remembered /\ NoRedelivery)'
  BY <1>26, CloseKeepsReader DEF CallerClose, readerVars
<1>27. ASSUME NEW c \in Stoppers \cup Handlers, StopReturns(c)
      PROVE  (Remembered /\ NoRedelivery)'
  BY <1>27 DEF StopReturns, sourceVars
<1>28. ASSUME UNCHANGED vars PROVE (Remembered /\ NoRedelivery)'
  BY <1>28 DEF sourceVars
<1> QED
  BY <1>1, <1>2, <1>3, <1>4, <1>5, <1>6, <1>7, <1>8, <1>9, <1>10, <1>11,
     <1>12, <1>13, <1>14, <1>15, <1>16, <1>17, <1>18, <1>19, <1>20, <1>21,
     <1>22, <1>23, <1>24, <1>25, <1>26, <1>27, <1>28
     DEF Next, RunnerStep, LoopStep, Environment, CallerStep, Finished

(* A packet number reaches the frame sink once in a session, also from a   *)
(* source that repeats numbers, and under signals.                         *)
THEOREM DuplicatesDropped == Spec => []NoRedelivery
<1>1. Init => OnceInv
  <2> SUFFICES ASSUME Init PROVE OnceInv
    OBVIOUS
  <2>1. Remembered /\ Numbered /\ NoRedelivery
    BY DEF Init, SourceInit, Remembered, Unsent, Numbered, NoRedelivery, Holding
  <2> QED
    BY <2>1, InitOwnInv DEF OnceInv
<1>2. OnceInv /\ [Next]_vars => OnceInv'
  BY OwnInvStep, NumberedStep, OnceStep DEF OnceInv
<1> QED
  BY <1>1, <1>2, PTL DEF Spec, OnceInv

-----------------------------------------------------------------------------
(* The capture of a session is closed before its run() returns.            *)

(* A runner inside _close_capture closes its own source: in the finally    *)
(* block of the generator, or in its own.                                  *)
CloserOwned ==
    \A r \in Runners : closer[r] # "outside" =>
        /\ pc[r] \in {"next", "final"}
        /\ closing[r] = argument[r]
        /\ generator[argument[r]] = "over"

Unopened ==
    \A s \in Sources : generator[s] = "new" => ~opened[s] /\ ~attached[s]

(* Once its generator is over, a capture still referred to or running is   *)
(* about to be forgotten, or closed, by the generator's finally block.     *)
OverOf(r) == pc[r] # "idle" /\ generator[argument[r]] = "over"
ForgottenInTime ==
    \A r \in Runners : OverOf(r) /\ attached[argument[r]] =>
        pc[r] = "next" /\ closer[r] \in {"shut", "enter", "forget"}
ClosedInTime ==
    ~CloseMayRaise => \A r \in Runners : OverOf(r) /\ opened[argument[r]] =>
        pc[r] = "next" /\ closer[r] = "shut"

LeakParts == CloserOwned /\ Unopened /\ ForgottenInTime /\ ClosedInTime
LeakInv == OwnInv /\ LeakParts

(* What a step of close() by agent a does to anybody's capture.            *)
LEMMA CloseEffect ==
    ASSUME SourceTypeOK, NEW a \in Agents, CloseStep(a)
    PROVE  /\ closer[a] # "outside"
           /\ \A b \in Agents \ {a} : closer'[b] = closer[b] /\ closing'[b] = closing[b]
           /\ closer'[a] # "outside" => closing'[a] = closing[a]
           /\ \A s \in Sources : /\ attached'[s] => attached[s]
                                 /\ opened'[s] => opened[s]
           /\ closing[a] \in Sources => 
                 /\ closer[a] = "shut" => /\ closer'[a] = "enter"
                                          /\ CloseMayRaise \/ ~opened'[closing[a]]
                 /\ closer[a] = "enter" => closer'[a] = "forget"
                 /\ closer[a] = "forget" => ~attached'[closing[a]]
<1> USE DEF SourceTypeOK, CloserPoints, CloserGoto, ExitClose, readerVars
<1>1. CASE Grab(a)
  BY <1>1 DEF Grab, GrabCapture
<1>2. CASE Shut(a)
  BY <1>2 DEF Shut
<1>3. CASE EnterForget(a)
  BY <1>3 DEF EnterForget, Acquire
<1>4. CASE Forget(a)
  BY <1>4 DEF Forget, Detach, Unlock
<1> QED
  BY <1>1, <1>2, <1>3, <1>4 DEF CloseStep

(* Every step keeps account of the captures that are open.                 *)
LEMMA LeakStep ==
    ASSUME LeakInv, [Next]_vars
    PROVE  LeakParts'
<1> USE ManagerAssumption, SourceAssumption
<1> USE DEF LeakInv, LeakParts, OwnInv, IInv, TypeOK, RunnerTypeOK,
            RunnerPoints, SourceTypeOK, GeneratorPoints, CloserPoints, LocalsKnown,
            SourceOwned, GeneratorFollows, Holding, Leaving, CloserOwned,
            Unopened, OverOf, ForgottenInTime, ClosedInTime, vars, managerVars,
            sessionVars, countVars, runnerVars, historyVars
<1>1. ASSUME NEW r \in Runners, FinishBegin(r) PROVE LeakParts'
  BY <1>1 DEF FinishBegin, ResetCounts, Goto, sourceVars
<1>2. ASSUME NEW r \in Runners, SetRunning(r) PROVE LeakParts'
  BY <1>2 DEF SetRunning, Goto, sourceVars
<1>3. ASSUME NEW r \in Runners, GeneratorStep(r) PROVE LeakParts'
  BY <1>3 DEF GeneratorStep, InGenerator, Open, EnterStore, Store,
              CheckStop, Leave, EnterClose, GeneratorGoto, CloserGoto,
              closerVars, Acquire, Unlock
<1>4. ASSUME NEW r \in Runners, RunnerClose(r) PROVE LeakParts'
  BY <1>4, CloseEffect, CloseKeepsReader DEF RunnerClose, readerVars
<1>5. ASSUME NEW r \in Runners, TakePacket(r) PROVE LeakParts'
  <2>1. CASE stopEvent
    BY <1>5, <2>1 DEF TakePacket, MustBreak, InGenerator, Abandon, Leave,
       EnterClose, GeneratorGoto, CloserGoto
  <2>2. CASE ~stopEvent
    <3>1. /\ UNCHANGED sourceVars /\ UNCHANGED argument
          /\ pc[r] = "next" /\ pc' = [pc EXCEPT ![r] = "count"]
          /\ generator[argument[r]] = "yielded"
      BY <1>5, <2>2 DEF TakePacket, MustBreak, Goto, KeepSession
    <3>2. closer[r] = "outside"
      BY <1>5, <2>2, <3>1
    <3> QED
      BY <3>1, <3>2 DEF sourceVars
  <2> QED
    BY <2>1, <2>2
<1>6. ASSUME NEW r \in Runners, Count(r) PROVE LeakParts'
  BY <1>6 DEF Count, Goto, KeepSession, sourceVars
<1>7. ASSUME NEW r \in Runners, Dedup(r) PROVE LeakParts'
  BY <1>7 DEF Dedup, Remember, Goto, Skip, KeepSession, sourceVars
<1>8. ASSUME NEW r \in Runners, Parse(r) PROVE LeakParts'
  BY <1>8 DEF Parse, Goto, Skip, KeepSession, sourceVars
<1>9. ASSUME NEW r \in Runners, Deliver(r) PROVE LeakParts'
  BY <1>9 DEF Deliver, Goto, Skip, KeepSession, sourceVars
<1>10. ASSUME NEW r \in Runners, RecordSkip(r) PROVE LeakParts'
  BY <1>10 DEF RecordSkip, Goto, KeepSession, Resume, GeneratorGoto,
               closerVars, sourceVars
<1>11. ASSUME NEW r \in Runners, NoteError(r) PROVE LeakParts'
  BY <1>11 DEF NoteError, Goto, KeepSession, Resume, Abandon, Leave,
               GeneratorGoto, EnterClose, CloserGoto, closerVars, sourceVars
<1>12. ASSUME NEW r \in Runners, CountParsed(r) PROVE LeakParts'
  BY <1>12 DEF CountParsed, Goto, KeepSession, Resume, GeneratorGoto,
               closerVars, sourceVars
<1>13. ASSUME NEW r \in Runners, LoopEnds(r) PROVE LeakParts'
  BY <1>13 DEF LoopEnds, Goto, KeepSession, GeneratorDone, sourceVars
<1>14. ASSUME NEW r \in Runners, SetStopped(r) PROVE LeakParts'
  BY <1>14 DEF SetStopped, SetFinalState, Goto, EnterClose, CloserGoto,
               readerVars
<1>15. ASSUME NEW r \in Runners, CheckFailure(r) PROVE LeakParts'
  BY <1>15 DEF CheckFailure, Goto, KeepSession, sourceVars
<1>16. ASSUME NEW r \in Runners, SetFailed(r) PROVE LeakParts'
  BY <1>16 DEF SetFailed, SetFinalState, Goto, EnterClose, CloserGoto,
               readerVars
<1>17. ASSUME NEW r \in Runners, Finalize(r) PROVE LeakParts'
  BY <1>17 DEF Finalize, Goto, sourceVars
<1>18. ASSUME NEW r \in Runners, Return(r) PROVE LeakParts'
  BY <1>18 DEF Return, Goto, sourceVars
<1>19. ASSUME NEW r \in Runners, Begin(r) PROVE LeakParts'
  BY <1>19 DEF Begin, Goto, sourceVars
<1>20. ASSUME NEW r \in Runners, BeginRefused(r) PROVE LeakParts'
  BY <1>20 DEF BeginRefused, Goto, sourceVars
<1>21. ASSUME NEW r \in Runners, Arrival(r) PROVE LeakParts'
  BY <1>21 DEF Arrival, InGenerator, ReadPacket, GeneratorGoto, closerVars
<1>22. ASSUME NEW r \in Runners, SourceFault(r) PROVE LeakParts'
  BY <1>22 DEF SourceFault, InGenerator, OpenFails, ReadFails, Leave,
               GeneratorGoto, EnterClose, CloserGoto, closerVars
<1>23. ASSUME NEW r \in Runners, SourceEnd(r) PROVE LeakParts'
  BY <1>23 DEF SourceEnd, InGenerator, Exhausted, Leave, GeneratorGoto,
               EnterClose, CloserGoto, closerVars
<1>24. ASSUME NEW c \in Stoppers \cup Handlers, RequestStop(c) PROVE LeakParts'
  BY <1>24 DEF RequestStop, RaiseEvent, EnterClose, CloserGoto, closerVars,
               readerVars, StoppableStates
<1>25. ASSUME NEW c \in Stoppers \cup Handlers, IgnoreStop(c) PROVE LeakParts'
  BY <1>25 DEF IgnoreStop, sourceVars
<1>26. ASSUME NEW c \in Stoppers \cup Handlers, CallerClose(c) PROVE LeakParts'
  BY <1>26, CloseEffect, CloseKeepsReader DEF CallerClose, readerVars
<1>27. ASSUME NEW c \in Stoppers \cup Handlers, StopReturns(c) PROVE LeakParts'
  BY <1>27 DEF StopReturns, sourceVars
<1>28. ASSUME UNCHANGED vars PROVE LeakParts'
  BY <1>28 DEF sourceVars
<1> QED
  BY <1>1, <1>2, <1>3, <1>4, <1>5, <1>6, <1>7, <1>8, <1>9, <1>10, <1>11,
     <1>12, <1>13, <1>14, <1>15, <1>16, <1>17, <1>18, <1>19, <1>20, <1>21,
     <1>22, <1>23, <1>24, <1>25, <1>26, <1>27, <1>28
     DEF Next, RunnerStep, LoopStep, Environment, CallerStep, Finished

CaptureReleased ==
    \A r \in Runners : pc[r] = "report" =>
        ~attached[argument[r]] /\ (CloseMayRaise \/ ~opened[argument[r]])

(* Whatever happens, a run() that is about to return has forgotten its     *)
(* capture; and has closed it, unless closing a capture can fail.          *)
THEOREM RunReleasesCapture == Spec => []CaptureReleased
<1>1. Init => LeakInv
  <2> SUFFICES ASSUME Init PROVE LeakInv
    OBVIOUS
  <2>1. LeakParts
    BY ManagerAssumption
       DEF Init, SourceInit, LeakParts, CloserOwned, Unopened, OverOf,
           ForgottenInTime, ClosedInTime
  <2> QED
    BY <2>1, InitOwnInv DEF LeakInv
<1>2. LeakInv /\ [Next]_vars => LeakInv'
  BY OwnInvStep, LeakStep DEF LeakInv
<1>3. LeakInv => CaptureReleased
  BY SourceAssumption
     DEF CaptureReleased, LeakInv, LeakParts, OwnInv, GeneratorFollows, Leaving, OverOf,
         ForgottenInTime, ClosedInTime
<1> QED
  BY <1>1, <1>2, <1>3, PTL DEF Spec

(* NoCaptureLeak, for captures whose close() does what it is asked to.     *)
THEOREM NothingLeaks ==
    ASSUME ~CloseMayRaise
    PROVE  Spec => []NoCaptureLeak
<1>1. CaptureReleased => NoCaptureLeak
  BY DEF CaptureReleased, NoCaptureLeak
<1> QED
  BY <1>1, RunReleasesCapture, PTL
=============================================================================
