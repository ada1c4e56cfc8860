--------------------------- MODULE EvidenceWriter ---------------------------
(***************************************************************************)
(* EvidenceWriter of wids/capture/evidence_writer.py and the captures that *)
(* use it: several writers on one root directory (a writer per run of a    *)
(* worker, each with a lock of its own), live captures that TShark writes  *)
(* to the target, and replay copies made through a ".part" file.           *)
(*                                                                         *)
(* A file is the sequence of its blocks, a block the capture it comes      *)
(* from.  A process may crash between any two steps, and an operation of   *)
(* the file system may fail.                                               *)
(***************************************************************************)
EXTENDS Naturals, Sequences, Functions

CONSTANTS
    Writers,     \* EvidenceWriter instances, each in a process of its own
    Captures,    \* uses of a writer: one target each
    Copies,      \* those that copy a replay; the others are live
    WriterOf,    \* the writer of a capture
    SessionOf,   \* its capture session id
    Times,       \* readings of the wall clock, to the microsecond
    Nobody,
    None,
    Size,        \* bound: blocks of a capture
    MaxFaults    \* bound: operations that fail

Live == Captures \ Copies
Sessions == Range(SessionOf)

(* <session>_<timestamp>[_<counter>]<extension>[.part]                     *)
Names == [session : Sessions, at : Times, counter : Nat, part : BOOLEAN]
Targets == [session : Sessions, at : Times, counter : Nat, part : {FALSE}]

(* EvidenceMetadata: what the digest was computed of, and the size.        *)
Metadata == [digest : Seq(Captures), size : Nat]

ASSUME EvidenceAssumption ==
    /\ Copies \subseteq Captures
    /\ WriterOf \in [Captures -> Writers]
    /\ DOMAIN SessionOf = Captures
    /\ Nobody \notin Captures
    /\ None \notin Names /\ None \notin Metadata
    /\ Size \in Nat \ {0} /\ MaxFaults \in Nat

VARIABLES
    files,     \* below the root directory: name -> blocks
    lock,      \* _lock of each writer
    pc,        \* where a capture stands
    stamp,     \* created_at
    counter,   \* suffix of the name looked at next
    name,      \* storage_path of the target
    tshark,    \* does the TShark of a live capture run?
    progress,  \* blocks copied, or digested so far
    metadata,  \* EvidenceMetadata of the last finalize
    faults,
    born,      \* history: captures whose target has come into being
    sharing,   \* history: captures given a name that another one still held
    unclosed   \* history: live captures whose close failed

prepareVars == <<lock, stamp, counter, name, sharing>>
captureVars == <<tshark, unclosed>>
finalizeVars == <<progress, metadata>>
vars == <<files, lock, pc, stamp, counter, name, tshark, progress, metadata,
          faults, born, sharing, unclosed>>

-----------------------------------------------------------------------------
NameOf(c, at, n) ==
    [session |-> SessionOf[c], at |-> at, counter |-> n, part |-> FALSE]

Part(f) == [f EXCEPT !.part = TRUE]

Points == {"idle", "waiting", "probing", "prepared", "copying", "cleanup",
           "capturing", "closed", "hashing", "measuring",
           "done", "failed", "littered", "crashed"}

Ended == {"done", "failed", "littered", "crashed"}

TypeOK ==
    /\ DOMAIN files \subseteq Names
    /\ \A f \in DOMAIN files : files[f] \in Seq(Captures)
    /\ lock \in [Writers -> Captures \cup {Nobody}]
    /\ pc \in [Captures -> Points]
    /\ stamp \in [Captures -> Times \cup {None}]
    /\ counter \in [Captures -> Nat]
    /\ name \in [Captures -> Targets \cup {None}]
    /\ metadata \in [Captures -> Metadata \cup {None}]
    /\ \A c \in Captures :
          /\ pc[c] \in {"idle", "waiting", "probing"} => name[c] = None
          /\ name[c] = None =>
                pc[c] \in {"idle", "waiting", "probing", "crashed"}
          /\ lock[WriterOf[c]] = c <=> pc[c] = "probing"
    /\ tshark \in [Captures -> BOOLEAN]
    /\ progress \in [Captures -> Seq(Captures)]
    /\ faults \in 0 .. MaxFaults
    /\ born \subseteq Captures /\ sharing \subseteq Captures
    /\ unclosed \subseteq Live

Init ==
    /\ files = <<>>
    /\ lock = [w \in Writers |-> Nobody]
    /\ pc = [c \in Captures |-> "idle"]
    /\ stamp = [c \in Captures |-> None]
    /\ counter = [c \in Captures |-> 0]
    /\ name = [c \in Captures |-> None]
    /\ tshark = [c \in Captures |-> FALSE]
    /\ progress = [c \in Captures |-> <<>>]
    /\ metadata = [c \in Captures |-> None]
    /\ faults = 0
    /\ born = {} /\ sharing = {} /\ unclosed = {}

-----------------------------------------------------------------------------
Goto(c, point) == pc' = [pc EXCEPT ![c] = point]

(* The local variables of a call end with it.                              *)
Forget(c) == progress' = [progress EXCEPT ![c] = <<>>]

Exists(f) == f \in DOMAIN files

With(f, blocks) ==
    [g \in DOMAIN files \cup {f} |-> IF g = f THEN blocks ELSE files[g]]
Without(f) == Restrict(files, DOMAIN files \ {f})

Fault == faults < MaxFaults /\ faults' = faults + 1

-----------------------------------------------------------------------------
(* prepare_live_capture: the clock is read before the lock is taken, and   *)
(* two readings may be equal.                                              *)
ReadClock(c) ==
    /\ pc[c] = "idle"
    /\ \E t \in Times : stamp' = [stamp EXCEPT ![c] = t]
    /\ Goto(c, "waiting")
    /\ UNCHANGED <<files, lock, counter, name, sharing, captureVars,
                   finalizeVars, faults, born>>

LockIgnored(w) == TRUE
LockFree(w) == lock[w] = Nobody

(* Making the root directory, which comes first, is taken to succeed.      *)
EnterLock(c) ==
    /\ pc[c] = "waiting"
    /\ LockFree(WriterOf[c])
    /\ lock' = [lock EXCEPT ![WriterOf[c]] = c]
    /\ Goto(c, "probing")
    /\ UNCHANGED <<files, stamp, counter, name, sharing, captureVars,
                   finalizeVars, faults, born>>

Candidate(c) == NameOf(c, stamp[c], counter[c])

(* Someone has this name and has not created its file yet.                 *)
Holders(f) ==
    {d \in Captures : name[d] = f /\ d \notin born
                        /\ pc[d] \in {"prepared", "copying", "cleanup"}}

NeverTaken(f) == FALSE
Taken(f) == Exists(f)

TryNext(c) ==
    /\ pc[c] = "probing"
    /\ Taken(Candidate(c))
    /\ counter' = [counter EXCEPT ![c] = @ + 1]
    /\ UNCHANGED <<files, lock, pc, stamp, name, sharing, captureVars,
                   finalizeVars, faults, born>>

(* A name is given out: nothing in the directory stands for it yet.        *)
Choose(c) ==
    /\ pc[c] = "probing"
    /\ ~Taken(Candidate(c))
    /\ name' = [name EXCEPT ![c] = Candidate(c)]
    /\ sharing' = IF Holders(Candidate(c)) = {} THEN sharing
                  ELSE sharing \cup Holders(Candidate(c)) \cup {c}
    /\ lock' = [lock EXCEPT ![WriterOf[c]] = Nobody]
    /\ stamp' = [stamp EXCEPT ![c] = None]
    /\ counter' = [counter EXCEPT ![c] = 0]
    /\ Goto(c, "prepared")
    /\ UNCHANGED <<files, captureVars, finalizeVars, faults, born>>

-----------------------------------------------------------------------------
(* copy_replay_evidence, after the source has been found and the target    *)
(* prepared.  A rival with the same name may have moved the .part file     *)
(* away, to the target: the open file follows it there.                    *)
TargetItself(c) == name[c]
PartOf(c) == Part(name[c])

OpenPart(c) ==
    /\ c \in Copies /\ pc[c] = "prepared"
    /\ files' = With(PartOf(c), <<>>)
    /\ progress' = [progress EXCEPT ![c] = <<>>]
    /\ Goto(c, "copying")
    /\ UNCHANGED <<prepareVars, captureVars, metadata, faults, born>>

Opened(c) == IF Exists(PartOf(c)) THEN PartOf(c) ELSE name[c]

(* If a rival of the same name has unlinked both, the copy stops here.  The*)
(* code writes on into a file without a name, and os.replace then raises.  *)
CopyBlock(c) ==
    /\ pc[c] = "copying"
    /\ Len(progress[c]) < Size
    /\ Exists(Opened(c))
    /\ files' = With(Opened(c), Append(files[Opened(c)], c))
    /\ progress' = [progress EXCEPT ![c] = Append(@, c)]
    /\ UNCHANGED <<pc, prepareVars, captureVars, metadata, faults, born>>

(* os.replace; it raises if the .part file is gone.                        *)
Replace(c) ==
    /\ pc[c] = "copying"
    /\ Len(progress[c]) = Size
    /\ IF Exists(PartOf(c))
       THEN /\ files' = [f \in (DOMAIN files \ {PartOf(c)}) \cup {name[c]} |->
                            IF f = name[c] THEN files[PartOf(c)] ELSE files[f]]
            /\ born' = born \cup {c}
            /\ Goto(c, "done")
       ELSE /\ Goto(c, "cleanup")
            /\ UNCHANGED <<files, born>>
    /\ Forget(c)
    /\ UNCHANGED <<prepareVars, captureVars, metadata, faults>>

NoCleanup == "failed"
AfterFailure == "cleanup"

(* An OSError of copyfile or of replace.                                   *)
CopyFails(c) ==
    /\ c \in Copies /\ pc[c] \in {"prepared", "copying"}
    /\ Fault
    /\ Goto(c, AfterFailure)
    /\ Forget(c)
    /\ UNCHANGED <<files, prepareVars, captureVars, metadata, born>>

(* unlink(missing_ok=True); an OSError of its own is swallowed, and the    *)
(* call raises in any case.                                                *)
Unlink(c) ==
    /\ pc[c] = "cleanup"
    /\ \/ files' = Without(PartOf(c)) /\ Goto(c, "failed") /\ UNCHANGED faults
       \/ Fault /\ Goto(c, "littered") /\ UNCHANGED files
    /\ UNCHANGED <<prepareVars, captureVars, finalizeVars, born>>

-----------------------------------------------------------------------------
(* A live session: TShark creates (or truncates) the output file ...       *)
StartCapture(c) ==
    /\ c \in Live /\ pc[c] = "prepared"
    /\ files' = With(name[c], <<>>)
    /\ tshark' = [tshark EXCEPT ![c] = TRUE]
    /\ born' = born \cup {c}
    /\ Goto(c, "capturing")
    /\ UNCHANGED <<prepareVars, unclosed, finalizeVars, faults>>

(* ... or the session ends before.                                         *)
NeverStarted(c) ==
    /\ c \in Live /\ pc[c] = "prepared"
    /\ Goto(c, "closed")
    /\ UNCHANGED <<files, prepareVars, captureVars, finalizeVars, faults, born>>

WriteBlock(c) ==
    /\ tshark[c]
    /\ Len(files[name[c]]) < Size
    /\ files' = With(name[c], Append(files[name[c]], c))
    /\ UNCHANGED <<pc, prepareVars, captureVars, finalizeVars, faults, born>>

(* The source closes the capture; a close that raises is swallowed and may *)
(* leave TShark running.                                                   *)
CloseCapture(c) ==
    /\ pc[c] = "capturing"
    /\ Goto(c, "closed")
    /\ \/ tshark' = [tshark EXCEPT ![c] = FALSE] /\ UNCHANGED <<unclosed, faults>>
       \/ Fault /\ unclosed' = unclosed \cup {c} /\ UNCHANGED tshark
    /\ UNCHANGED <<files, prepareVars, finalizeVars, born>>

(* During the session its exit only means that no more blocks come.        *)
TSharkExits(c) ==
    /\ tshark[c] /\ pc[c] # "capturing"
    /\ tshark' = [tshark EXCEPT ![c] = FALSE]
    /\ UNCHANGED <<files, pc, prepareVars, unclosed, finalizeVars, faults, born>>

-----------------------------------------------------------------------------
(* CaptureWorker._finalize_evidence and finalize: digest, then size.  The  *)
(* path of a target that the writer made is always below its root.         *)
SessionBegun(c) == pc[c] \in {"capturing", "closed"}
SessionOver(c) == pc[c] = "closed"

NothingToFinalize(c) ==
    /\ SessionOver(c)
    /\ ~Exists(name[c])
    /\ Goto(c, "done")
    /\ UNCHANGED <<files, prepareVars, captureVars, finalizeVars, faults, born>>

OpenEvidence(c) ==
    /\ SessionOver(c)
    /\ Exists(name[c])
    /\ progress' = [progress EXCEPT ![c] = <<>>]
    /\ Goto(c, "hashing")
    /\ UNCHANGED <<files, prepareVars, captureVars, metadata, faults, born>>

HashChunk(c) ==
    /\ pc[c] = "hashing"
    /\ LET read == Len(progress[c])
           file == files[name[c]]
       IN  IF read < Len(file)
           THEN /\ progress' = [progress EXCEPT ![c] = Append(@, file[read + 1])]
                /\ UNCHANGED pc
           ELSE /\ Goto(c, "measuring")
                /\ UNCHANGED progress
    /\ UNCHANGED <<files, prepareVars, captureVars, metadata, faults, born>>

Measure(c) ==
    /\ pc[c] = "measuring"
    /\ metadata' = [metadata EXCEPT
            ![c] = [digest |-> progress[c], size |-> Len(files[name[c]])]]
    /\ Goto(c, "done")
    /\ Forget(c)
    /\ UNCHANGED <<files, prepareVars, captureVars, faults, born>>

(* The error is stored as the background error of the worker.              *)
FinalizeFails(c) ==
    /\ pc[c] \in {"hashing", "measuring"}
    /\ Fault
    /\ Goto(c, "done")
    /\ Forget(c)
    /\ UNCHANGED <<files, prepareVars, captureVars, metadata, born>>

(* The worker keeps the target: the run_source() that follows a live run   *)
(* finalizes it once more.                                                 *)
FinalizeAgain(c) ==
    /\ c \in Live /\ pc[c] = "done"
    /\ Goto(c, "closed")
    /\ UNCHANGED <<files, prepareVars, captureVars, finalizeVars, faults, born>>

-----------------------------------------------------------------------------
(* The process of a writer dies, with its lock and its captures.  TShark   *)
(* is a process of its own.                                                *)
Crash(w) ==
    LET dying == {c \in Captures : WriterOf[c] = w /\ pc[c] \notin Ended \cup {"idle"}}
    IN  /\ dying # {}
        /\ pc' = [c \in Captures |-> IF c \in dying THEN "crashed" ELSE pc[c]]
        /\ lock' = [lock EXCEPT ![w] = Nobody]
        /\ progress' = [c \in Captures |-> IF c \in dying THEN <<>> ELSE progress[c]]
        /\ counter' = [c \in Captures |-> IF c \in dying THEN 0 ELSE counter[c]]
        /\ stamp' = [c \in Captures |-> IF c \in dying THEN None ELSE stamp[c]]
        /\ UNCHANGED <<files, name, sharing, captureVars, metadata,
                       faults, born>>

Prepare(c) == ReadClock(c) \/ EnterLock(c) \/ TryNext(c) \/ Choose(c)
Copy(c) == OpenPart(c) \/ CopyBlock(c) \/ Replace(c) \/ CopyFails(c) \/ Unlink(c)
Capture(c) ==
    \/ StartCapture(c) \/ NeverStarted(c) \/ WriteBlock(c) \/ CloseCapture(c)
    \/ TSharkExits(c)
Finalize(c) ==
    \/ NothingToFinalize(c) \/ OpenEvidence(c) \/ HashChunk(c) \/ Measure(c)
    \/ FinalizeFails(c) \/ FinalizeAgain(c)

Next ==
    \/ \E c \in Captures : Prepare(c) \/ Copy(c) \/ Capture(c) \/ Finalize(c)
    \/ \E w \in Writers : Crash(w)

Spec == Init /\ [][Next]_vars

-----------------------------------------------------------------------------
Complete(c) == [i \in 1 .. Size |-> c]

(* Once its file exists, nobody overwrites, truncates or removes the       *)
(* evidence of a capture: not another capture of the same session, not one *)
(* of another process, not a copy that fails; whatever crashes.  Excepted  *)
(* are captures that were given one name because neither had created it.   *)
EvidenceSurvives ==
    \A c \in born \ sharing :
        /\ Exists(name[c])
        /\ Range(files[name[c]]) \subseteq {c}

(* "Atomically copy a replay PCAP": whatever file has a block of a copy is  *)
(* its .part file or has all of them, at any time and after any crash.     *)
CopyIsAtomic ==
    \A c \in Copies \ sharing, f \in DOMAIN files :
        ~f.part /\ c \in Range(files[f]) => files[f] = Complete(c)

(* A .part file belongs to a copy that is still at it, has crashed, or has *)
(* failed to remove it: one that has returned or raised leaves none.       *)
NoLeftovers ==
    \A f \in DOMAIN files : f.part =>
        \E c \in Copies : /\ name[c] # None /\ PartOf(c) = f
                          /\ pc[c] \in {"copying", "cleanup", "littered", "crashed"}

(* The digest and the size of a finished capture are those of the file, as *)
(* long as its TShark was closed: also after other captures have been      *)
(* prepared and copied into the directory.                                 *)
MetadataDescribesFile ==
    \A c \in (Live \cap born) \ (sharing \cup unclosed) :
        metadata[c] # None =>
            metadata[c] = [digest |-> files[name[c]], size |-> Len(files[name[c]])]
=============================================================================
