---------------------------- MODULE PacketSource ----------------------------
(***************************************************************************)
(* PcapPacketSource and LivePacketSource of wids/capture/packet_source.py. *)
(*                                                                         *)
(* A source owns one PyShark capture.  Its packets() generator opens the   *)
(* capture, publishes it in self._capture under the source's plain         *)
(* (non-reentrant) Lock, yields packets and closes the capture in its      *)
(* finally block.  close() may be called by any thread, or by a signal     *)
(* handler, while the generator runs.                                      *)
(*                                                                         *)
(* This module holds the state and the steps; CaptureManager says which    *)
(* agent takes them and when.  An agent is a thread or the activation of a *)
(* signal handler.  A Source is used for one session: CaptureWorker.run    *)
(* builds a new one each time.  Packets carry their number and nothing     *)
(* else.                                                                   *)
(***************************************************************************)
EXTENDS Naturals

CONSTANTS
    Agents,             \* threads and signal-handler activations
    NoAgent,            \* "the lock is free"
    Sources,            \* source objects, each good for one packets() call
    NoSource,           \* Python's None where a source is expected
    LiveSources,        \* the sources that are LivePacketSource objects
    RenumberingSources, \* injected sources whose envelopes may repeat a number
    MaxPackets,         \* bound: packets a session counts
    CloseMayRaise       \* may capture.close() raise an error that is swallowed?

ASSUME SourceAssumption ==
    /\ NoAgent \notin Agents
    /\ NoSource \notin Sources
    /\ LiveSources \subseteq Sources
    /\ RenumberingSources \subseteq Sources
    /\ MaxPackets \in Nat \ {0}
    /\ CloseMayRaise \in BOOLEAN

VARIABLES
    generator,  \* control point of each source's packets() generator
    number,     \* packet_number of the last envelope
    failure,    \* is an exception on its way out of the loop over packets()?
    attached,   \* self._capture is not None
    opened,     \* the PyShark capture (a TShark process) is running
    sourceLock, \* owner of self._lock
    closer,     \* control point of each agent inside _close_capture
    closing     \* the source that agent is closing

readerVars == <<generator, number, failure>>
closerVars == <<closer, closing>>
sourceVars == <<generator, number, failure, attached, opened, sourceLock,
                closer, closing>>

-----------------------------------------------------------------------------
GeneratorPoints == {"new", "opened", "storing", "reading", "fetched",
                    "yielded", "over"}
CloserPoints == {"outside", "grab", "shut", "enter", "forget"}
PacketNumbers == 1 .. MaxPackets + 1

SourceTypeOK ==
    /\ generator \in [Sources -> GeneratorPoints]
    /\ number \in [Sources -> 0 .. MaxPackets + 1]
    /\ failure \in [Sources -> BOOLEAN]
    /\ attached \in [Sources -> BOOLEAN]
    /\ opened \in [Sources -> BOOLEAN]
    /\ sourceLock \in [Sources -> Agents \cup {NoAgent}]
    /\ closer \in [Agents -> CloserPoints]
    /\ closing \in [Agents -> Sources \cup {NoSource}]

SourceInit ==
    /\ generator = [s \in Sources |-> "new"]
    /\ number = [s \in Sources |-> 0]
    /\ failure = [s \in Sources |-> FALSE]
    /\ attached = [s \in Sources |-> FALSE]
    /\ opened = [s \in Sources |-> FALSE]
    /\ sourceLock = [s \in Sources |-> NoAgent]
    /\ closer = [a \in Agents |-> "outside"]
    /\ closing = [a \in Agents |-> NoSource]

GeneratorGoto(s, from, to) ==
    /\ generator[s] = from
    /\ generator' = [generator EXCEPT ![s] = to]

CloserGoto(a, from, to) ==
    /\ closer[a] = from
    /\ closer' = [closer EXCEPT ![a] = to]

Acquire(a, s) ==
    /\ sourceLock[s] = NoAgent
    /\ sourceLock' = [sourceLock EXCEPT ![s] = a]

DetachForgotten(s) == UNCHANGED attached
Detach(s) == attached' = [attached EXCEPT ![s] = FALSE]

Unlock(s) == sourceLock' = [sourceLock EXCEPT ![s] = NoAgent]

(* A live source keeps quiet about an error raised after a stop request.   *)
Swallowed(s, stopped) == s \in LiveSources /\ stopped

-----------------------------------------------------------------------------
(* Closing.  close() reads self._capture under the lock, then, outside of  *)
(* the lock, _close_capture closes it and takes the lock again to forget   *)
(* it.  The generator's finally block enters at "shut" with its own        *)
(* reference.                                                              *)

EnterClose(a, s, point) ==
    /\ CloserGoto(a, "outside", point)
    /\ closing' = [closing EXCEPT ![a] = s]

ExitClose(a, point) ==
    /\ CloserGoto(a, point, "outside")
    /\ closing' = [closing EXCEPT ![a] = NoSource]

GrabInverted(a) ==
    IF attached[closing[a]] THEN ExitClose(a, "grab")
    ELSE CloserGoto(a, "grab", "shut") /\ UNCHANGED closing
GrabWaiting(a) ==
    IF attached[closing[a]] THEN CloserGoto(a, "grab", "shut") /\ UNCHANGED closing
    ELSE UNCHANGED closerVars
GrabCapture(a) ==
    IF attached[closing[a]] THEN CloserGoto(a, "grab", "shut") /\ UNCHANGED closing
    ELSE ExitClose(a, "grab")

Grab(a) ==
    /\ closer[a] = "grab"
    /\ sourceLock[closing[a]] = NoAgent
    /\ GrabCapture(a)
    /\ UNCHANGED <<readerVars, attached, opened, sourceLock>>

(* capture.close(): of what it may raise, only the errors that             *)
(* _close_capture swallows; another one would leave close() at once.       *)
Shut(a) ==
    /\ CloserGoto(a, "shut", "enter")
    /\ \/ opened' = [opened EXCEPT ![closing[a]] = FALSE]
       \/ CloseMayRaise /\ UNCHANGED opened
    /\ UNCHANGED <<readerVars, attached, sourceLock, closing>>

EnterForget(a) ==
    /\ CloserGoto(a, "enter", "forget")
    /\ Acquire(a, closing[a])
    /\ UNCHANGED <<readerVars, attached, opened, closing>>

Forget(a) ==
    /\ ExitClose(a, "forget")
    /\ Detach(closing[a])
    /\ Unlock(closing[a])
    /\ UNCHANGED <<readerVars, opened>>

CloseStep(a) == Grab(a) \/ Shut(a) \/ EnterForget(a) \/ Forget(a)

-----------------------------------------------------------------------------
(* The generator, driven by agent a.  "stopped" is stop_event.is_set().    *)

Open(s) ==
    /\ GeneratorGoto(s, "new", "opened")
    /\ opened' = [opened EXCEPT ![s] = TRUE]
    /\ UNCHANGED <<number, failure, attached, sourceLock, closerVars>>

OpenFails(s, stopped) ==
    /\ GeneratorGoto(s, "new", "over")
    /\ failure' = [failure EXCEPT ![s] = ~Swallowed(s, stopped)]
    /\ UNCHANGED <<number, attached, opened, sourceLock, closerVars>>

EnterStore(a, s) ==
    /\ GeneratorGoto(s, "opened", "storing")
    /\ Acquire(a, s)
    /\ UNCHANGED <<number, failure, attached, opened, closerVars>>

Store(s) ==
    /\ GeneratorGoto(s, "storing", "reading")
    /\ attached' = [attached EXCEPT ![s] = TRUE]
    /\ Unlock(s)
    /\ UNCHANGED <<number, failure, opened, closerVars>>

(* The next packet arrives.  enumerate(..., start=1) numbers the packets   *)
(* of the shipped sources; an injected one may give any number again.      *)
ReadPacket(s) ==
    /\ opened[s]
    /\ GeneratorGoto(s, "reading", "fetched")
    /\ \E n \in PacketNumbers :
          /\ n = number[s] + 1 \/ (s \in RenumberingSources /\ n <= number[s])
          /\ number' = [number EXCEPT ![s] = n]
    /\ UNCHANGED <<failure, attached, opened, sourceLock, closerVars>>

(* Leaving the generator, normally or with an exception, closes its        *)
(* capture in the finally block.                                           *)
Leave(a, s, from, raises) ==
    /\ GeneratorGoto(s, from, "over")
    /\ failure' = [failure EXCEPT ![s] = raises]
    /\ EnterClose(a, s, "shut")
    /\ UNCHANGED <<number, attached, opened, sourceLock>>

Exhausted(a, s) == Leave(a, s, "reading", FALSE)

ReadFails(a, s, stopped) == Leave(a, s, "reading", ~Swallowed(s, stopped))

CheckStop(a, s, stopped) ==
    \/ stopped /\ Leave(a, s, "fetched", FALSE)
    \/ /\ ~stopped
       /\ GeneratorGoto(s, "fetched", "yielded")
       /\ UNCHANGED <<number, failure, attached, opened, sourceLock, closerVars>>

Resume(s) ==
    /\ GeneratorGoto(s, "yielded", "reading")
    /\ UNCHANGED <<number, failure, attached, opened, sourceLock, closerVars>>

(* The loop body breaks or raises: the suspended generator is closed.      *)
Abandon(a, s, raises) == Leave(a, s, "yielded", raises)

GeneratorDone(a, s) == generator[s] = "over" /\ closer[a] = "outside"
=============================================================================
