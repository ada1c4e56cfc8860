-------------------------- MODULE MCCaptureManager --------------------------
(* Values of CaptureManager's constants for TLC.                           *)
EXTENDS CaptureManager, TLC

CONSTANTS
    main, second, thread, signal, \* agents
    file, air                     \* a PCAP source and a live one

(* Two run() callers, one stop() caller; a file and a live capture.        *)
TwoRunners == {main, second}
TwoRunnersAgents == {main, second, thread}

(* One run() caller, one signal handler on its thread.                     *)
SignalAgents == {main, signal}

(* One run() caller, one stop() caller on another thread.                  *)
ThreadAgents == {main, thread}

Mixed == {file, air}
=============================================================================
