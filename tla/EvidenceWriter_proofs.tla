------------------------ MODULE EvidenceWriter_proofs ------------------------
(***************************************************************************)
(* Proofs about EvidenceWriter, for any number of writers, captures,       *)
(* sessions, clock readings, blocks, faults and crashes.                   *)
(***************************************************************************)
EXTENDS EvidenceWriter, SequenceTheorems, TLAPS

(* A capture that owns its name: it may still create the file, or has.     *)
Pending(c) == pc[c] \in {"prepared", "copying", "cleanup"}
Active(c) == c \in born \/ Pending(c)

(* Which points belong to copies and which to live captures, and what has  *)
(* happened to a capture at them.                                          *)
Kinds ==
    \A c \in Captures :
        /\ c \in Copies =>
              /\ pc[c] \notin {"capturing", "closed", "hashing", "measuring"}
              /\ ~tshark[c] /\ metadata[c] = None
        /\ c \in Live => pc[c] \notin {"copying", "cleanup", "failed", "littered"}
        /\ pc[c] \in {"waiting", "probing"} => stamp[c] \in Times
        /\ tshark[c] \/ pc[c] = "capturing" => c \in born
        /\ name[c] = None => c \notin born /\ metadata[c] = None
        /\ Pending(c) \/ pc[c] = "capturing" => metadata[c] = None
        /\ c \in born => ~Pending(c)

(* A file that has been created stays; hence a second capture can be given *)
(* its name only before, and both are then known to share it.              *)
Made ==
    \A c \in Captures :
        c \in born \/ pc[c] \in {"hashing", "measuring"} => Exists(name[c])
Apart ==
    \A c, d \in Captures :
        /\ c # d /\ name[c] # None /\ name[c] = name[d]
        /\ Active(c) /\ Active(d)
        => c \in sharing /\ d \in sharing

-----------------------------------------------------------------------------
(* Names and files.                                                        *)

(* The .part names are apart from the targets, one for each target.        *)
LEMMA PartNames ==
    /\ Targets \subseteq Names
    /\ \A f \in Targets : ~f.part /\ Part(f) \in Names /\ Part(f).part
                          /\ Part(f) \notin Targets
    /\ \A f, g \in Targets : Part(f) = Part(g) => f = g
<1>1. ASSUME NEW f \in Targets
      PROVE  f \in Names /\ Part(f) \in Names /\ f.part = FALSE
  BY Zenon DEF Targets, Names, Part
<1>2. ASSUME NEW f \in Targets
      PROVE  /\ Part(f).part = TRUE
             /\ Part(f).session = f.session /\ Part(f).at = f.at
             /\ Part(f).counter = f.counter
  BY SMT DEF Targets, Part
<1>3. \A f \in Targets : Part(f) \notin Targets
  BY Zenon, <1>1, <1>2
<1>4. ASSUME NEW f \in Targets, NEW g \in Targets, Part(f) = Part(g) PROVE f = g
  <2>1. f.session = g.session /\ f.at = g.at /\ f.counter = g.counter
    BY <1>2, <1>4
  <2>2. f.part = g.part
    BY <1>1, Zenon
  <2>3. \A h \in Targets :
           h = [session |-> h.session, at |-> h.at, counter |-> h.counter,
                part |-> h.part]
    BY SMT DEF Targets
  <2>4. /\ f = [session |-> f.session, at |-> f.at, counter |-> f.counter, part |-> f.part]
        /\ g = [session |-> g.session, at |-> g.at, counter |-> g.counter, part |-> g.part]
    BY Zenon, <2>3
  <2> QED
    BY Zenon, <2>1, <2>2, <2>4
<1> QED
  BY Zenon, <1>1, <1>2, <1>3, <1>4

(* The name _prepare tries is a name of a target.                          *)
LEMMA CandidateName ==
    ASSUME NEW c \in Captures, stamp[c] \in Times, counter[c] \in Nat
    PROVE  Candidate(c) \in Targets /\ Candidate(c) # None
<1>1. SessionOf[c] \in Sessions
  BY EvidenceAssumption DEF Sessions, Range
<1>2. Candidate(c) \in Targets
  BY <1>1 DEF Candidate, NameOf, Targets
<1> QED
  BY <1>2, PartNames, EvidenceAssumption

(* Writing one block to a file.                                            *)
LEMMA AppendBlock ==
    ASSUME NEW s \in Seq(Captures), NEW c \in Captures
    PROVE  /\ Append(s, c) \in Seq(Captures)
           /\ Range(Append(s, c)) = Range(s) \cup {c}
           /\ Len(Append(s, c)) = Len(s) + 1
           /\ \A i \in 1 .. Len(s) : Append(s, c)[i] = s[i]
           /\ Append(s, c)[Len(s) + 1] = c
  BY DEF Range

(* A file just created.                                                    *)
LEMMA EmptyFile == <<>> \in Seq(Captures) /\ Range(<<>>) = {} /\ Len(<<>>) = 0
  BY DEF Range

-----------------------------------------------------------------------------
(* Type correctness.                                                       *)
FilesType ==
    /\ DOMAIN files \subseteq Names
    /\ \A f \in DOMAIN files : files[f] \in Seq(Captures)
Links ==
    \A c \in Captures :
        /\ pc[c] \in {"idle", "waiting", "probing"} => name[c] = None
        /\ name[c] = None => pc[c] \in {"idle", "waiting", "probing", "crashed"}
        /\ lock[WriterOf[c]] = c <=> pc[c] = "probing"
CallType ==
    /\ lock \in [Writers -> Captures \cup {Nobody}]
    /\ pc \in [Captures -> Points]
    /\ stamp \in [Captures -> Times \cup {None}]
    /\ counter \in [Captures -> Nat]
    /\ name \in [Captures -> Targets \cup {None}]
    /\ metadata \in [Captures -> Metadata \cup {None}]
    /\ progress \in [Captures -> Seq(Captures)]
HistoryType ==
    /\ faults \in 0 .. MaxFaults
    /\ born \subseteq Captures /\ sharing \subseteq Captures
    /\ unclosed \subseteq Live
SharkType == tshark \in [Captures -> BOOLEAN]

(* Every step keeps the types.                                             *)
LEMMA TypeStep ==
    ASSUME TypeOK, Kinds, Made, [Next]_vars
    PROVE  TypeOK'
<1> USE EvidenceAssumption, PartNames, EmptyFile, AppendBlock
<1> USE DEF TypeOK, Points, Kinds, Made, Exists, Live, PartOf, Fault, Pending, vars,
            prepareVars, captureVars, finalizeVars
<1>1. ASSUME NEW c \in Captures, ReadClock(c) PROVE TypeOK'
  BY <1>1 DEF ReadClock, Goto
<1>2. ASSUME NEW c \in Captures, EnterLock(c) PROVE TypeOK'
  BY <1>2 DEF EnterLock, Goto, LockFree
<1>3. ASSUME NEW c \in Captures, TryNext(c) PROVE TypeOK'
  BY <1>3 DEF TryNext, Taken, Candidate
<1>4. ASSUME NEW c \in Captures, Choose(c) PROVE TypeOK'
  <2>0. Candidate(c) \in Targets /\ Candidate(c) # None
    BY <1>4, CandidateName DEF Choose
  <2>1. FilesType'
    BY <1>4 DEF FilesType, Choose, Goto
  <2>2. Links'
    BY <1>4, <2>0 DEF Links, Choose, Goto
  <2>3. CallType'
    BY <1>4, <2>0 DEF CallType, Choose, Goto
  <2>4. HistoryType'
    BY <1>4 DEF HistoryType, Choose, Holders
  <2>5. SharkType'
    BY <1>4, <2>0 DEF SharkType, Choose, Goto
  <2> QED
    BY <2>1, <2>2, <2>3, <2>4, <2>5
       DEF FilesType, Links, CallType, HistoryType, SharkType
<1>5. ASSUME NEW c \in Captures, OpenPart(c) PROVE TypeOK'
  BY <1>5 DEF OpenPart, Goto, With
<1>6. ASSUME NEW c \in Captures, CopyBlock(c) PROVE TypeOK'
  BY <1>6 DEF CopyBlock, Opened, Exists, With
<1>7. ASSUME NEW c \in Captures, Replace(c) PROVE TypeOK'
  <2>1. FilesType'
    <3>1. name[c] \in Names /\ pc[c] = "copying"
      BY <1>7, PartNames DEF Replace
    <3>2. CASE Exists(PartOf(c))
      <4>1. files' = [f \in (DOMAIN files \ {PartOf(c)}) \cup {name[c]} |->
                        IF f = name[c] THEN files[PartOf(c)] ELSE files[f]]
        BY <1>7, <3>2 DEF Replace
      <4> QED
        BY <4>1, <3>1, <3>2 DEF FilesType
    <3>3. CASE ~Exists(PartOf(c))
      BY <1>7, <3>3 DEF FilesType, Replace
    <3> QED
      BY <3>2, <3>3
  <2>2. Links'
    BY <1>7 DEF Links, Replace, Goto, Exists, Forget
  <2>3. CallType'
    <3>1. \/ pc' = [pc EXCEPT ![c] = "done"]
          \/ pc' = [pc EXCEPT ![c] = "cleanup"]
      BY <1>7 DEF Replace, Goto
    <3>2. pc' \in [Captures -> Points]
      <4>1. pc \in [Captures -> Points]
        OBVIOUS
      <4> HIDE DEF TypeOK, Kinds, Made
      <4> QED
        BY <3>1, <4>1
    <3> QED
      BY <1>7, <3>2 DEF CallType, Replace, Forget
  <2>4. HistoryType'
    BY <1>7 DEF HistoryType, Replace, Goto, Exists, Forget
  <2>5. SharkType'
    BY <1>7 DEF SharkType, Replace, Goto, Exists, Forget
  <2> QED
    BY <2>1, <2>2, <2>3, <2>4, <2>5
       DEF FilesType, Links, CallType, HistoryType, SharkType
<1>8. ASSUME NEW c \in Captures, CopyFails(c) PROVE TypeOK'
  BY <1>8 DEF CopyFails, Goto, AfterFailure, Forget
<1>9. ASSUME NEW c \in Captures, Unlink(c) PROVE TypeOK'
  <2>1. FilesType'
    BY <1>9 DEF FilesType, Unlink, Goto, Without, Restrict
  <2>2. Links'
    BY <1>9 DEF Links, Unlink, Goto, Without, Restrict
  <2>3. CallType'
    <3>1. \/ pc' = [pc EXCEPT ![c] = "failed"]
          \/ pc' = [pc EXCEPT ![c] = "littered"]
      BY <1>9 DEF Unlink, Goto
    <3>2. pc' \in [Captures -> Points]
      <4>1. pc \in [Captures -> Points]
        OBVIOUS
      <4> HIDE DEF TypeOK, Kinds, Made
      <4> QED
        BY <3>1, <4>1
    <3> QED
      BY <1>9, <3>2 DEF CallType, Unlink
  <2>4. HistoryType'
    BY <1>9 DEF HistoryType, Unlink, Goto, Without, Restrict
  <2>5. SharkType'
    BY <1>9 DEF SharkType, Unlink, Goto, Without, Restrict
  <2> QED
    BY <2>1, <2>2, <2>3, <2>4, <2>5
       DEF FilesType, Links, CallType, HistoryType, SharkType
<1>10. ASSUME NEW c \in Captures, StartCapture(c) PROVE TypeOK'
  BY <1>10 DEF StartCapture, Goto, With
<1>11. ASSUME NEW c \in Captures, NeverStarted(c) PROVE TypeOK'
  BY <1>11 DEF NeverStarted, Goto
<1>12. ASSUME NEW c \in Captures, WriteBlock(c) PROVE TypeOK'
  <2>1. FilesType'
    BY <1>12 DEF FilesType, WriteBlock, With
  <2>2. Links'
    BY <1>12 DEF Links, WriteBlock, With
  <2>3. CallType'
    BY <1>12 DEF CallType, WriteBlock, With
  <2>4. HistoryType'
    BY <1>12 DEF HistoryType, WriteBlock, With
  <2>5. SharkType'
    BY <1>12 DEF SharkType, WriteBlock, With
  <2> QED
    BY <2>1, <2>2, <2>3, <2>4, <2>5
       DEF FilesType, Links, CallType, HistoryType, SharkType
<1>13. ASSUME NEW c \in Captures, CloseCapture(c) PROVE TypeOK'
  <2>1. FilesType'
    BY <1>13 DEF FilesType, CloseCapture, Goto
  <2>2. Links'
    BY <1>13 DEF Links, CloseCapture, Goto
  <2>3. CallType'
    BY <1>13 DEF CallType, CloseCapture, Goto
  <2>4. HistoryType'
    BY <1>13 DEF HistoryType, CloseCapture, Goto
  <2>5. SharkType'
    <3>1. tshark' = [tshark EXCEPT ![c] = FALSE] \/ tshark' = tshark
      BY <1>13 DEF CloseCapture
    <3>2. tshark \in [Captures -> BOOLEAN]
      BY Zenon DEF TypeOK
    <3>3. [tshark EXCEPT ![c] = FALSE] \in [Captures -> BOOLEAN]
      <4> HIDE DEF TypeOK, Kinds, Made
      <4> QED
        BY ONLY <3>2
    <3> QED
      BY Zenon, <3>1, <3>2, <3>3 DEF SharkType
  <2> QED
    BY <2>1, <2>2, <2>3, <2>4, <2>5
       DEF FilesType, Links, CallType, HistoryType, SharkType
<1>14. ASSUME NEW c \in Captures, TSharkExits(c) PROVE TypeOK'
  BY <1>14 DEF TSharkExits
<1>15. ASSUME NEW c \in Captures, NothingToFinalize(c) PROVE TypeOK'
  BY <1>15 DEF NothingToFinalize, Goto, SessionOver, Exists
<1>16. ASSUME NEW c \in Captures, OpenEvidence(c) PROVE TypeOK'
  BY <1>16 DEF OpenEvidence, Goto, SessionOver, Exists
<1>17. ASSUME NEW c \in Captures, HashChunk(c) PROVE TypeOK'
  <2>1. FilesType'
    BY <1>17 DEF FilesType, HashChunk, Goto
  <2>2. Links'
    BY <1>17 DEF Links, HashChunk, Goto
  <2>3. CallType'
    <3>1. files[name[c]] \in Seq(Captures)
      BY <1>17 DEF HashChunk
    <3>2. \/ pc' = [pc EXCEPT ![c] = "measuring"] /\ progress' = progress
          \/ /\ pc' = pc /\ Len(progress[c]) < Len(files[name[c]])
             /\ progress' = [progress EXCEPT ![c] =
                               Append(@, files[name[c]][Len(progress[c]) + 1])]
      BY <1>17 DEF HashChunk, Goto
    <3>3. pc \in [Captures -> Points] /\ progress \in [Captures -> Seq(Captures)]
      OBVIOUS
    <3> HIDE DEF TypeOK, Kinds, Made
    <3>4. pc' \in [Captures -> Points]
      BY <3>2, <3>3
    <3>5. progress' \in [Captures -> Seq(Captures)]
      <4>1. ASSUME Len(progress[c]) < Len(files[name[c]])
            PROVE  Append(progress[c], files[name[c]][Len(progress[c]) + 1])
                     \in Seq(Captures)
        BY <4>1, <3>1, <3>3
      <4> QED
        BY ONLY <3>2, <3>3, <4>1
    <3> USE DEF TypeOK
    <3> QED
      BY <1>17, <3>4, <3>5 DEF CallType, HashChunk
  <2>4. HistoryType'
    BY <1>17 DEF HistoryType, HashChunk, Goto
  <2>5. SharkType'
    BY <1>17 DEF SharkType, HashChunk, Goto
  <2> QED
    BY <2>1, <2>2, <2>3, <2>4, <2>5
       DEF FilesType, Links, CallType, HistoryType, SharkType
<1>18. ASSUME NEW c \in Captures, Measure(c) PROVE TypeOK'
  <2>0. [digest |-> progress[c], size |-> Len(files[name[c]])] \in Metadata
    BY <1>18 DEF Measure, Metadata, Made, Exists
  <2>1. FilesType'
    BY <1>18 DEF FilesType, Measure, Goto, Forget
  <2>2. Links'
    BY <1>18 DEF Links, Measure, Goto, Forget
  <2>3. CallType'
    BY <1>18, <2>0 DEF CallType, Measure, Goto, Forget
  <2>4. HistoryType'
    BY <1>18, <2>0 DEF HistoryType, Measure, Goto, Forget
  <2>5. SharkType'
    BY <1>18, <2>0 DEF SharkType, Measure, Goto, Forget
  <2> QED
    BY <2>1, <2>2, <2>3, <2>4, <2>5
       DEF FilesType, Links, CallType, HistoryType, SharkType
<1>19. ASSUME NEW c \in Captures, FinalizeFails(c) PROVE TypeOK'
  BY <1>19 DEF FinalizeFails, Goto, Forget
<1>20. ASSUME NEW c \in Captures, FinalizeAgain(c) PROVE TypeOK'
  BY <1>20 DEF FinalizeAgain, Goto
<1>21. ASSUME NEW w \in Writers, Crash(w) PROVE TypeOK'
  <2>1. FilesType'
    BY <1>21 DEF FilesType, Crash
  <2>2. Links'
    <3> SUFFICES ASSUME NEW d \in Captures
                 PROVE  /\ pc'[d] \in {"idle", "waiting", "probing"} => name'[d] = None
                        /\ name'[d] = None =>
                              pc'[d] \in {"idle", "waiting", "probing", "crashed"}
                        /\ lock'[WriterOf[d]] = d <=> pc'[d] = "probing"
      BY DEF Links
    <3>1. /\ pc'[d] \in {"crashed", pc[d]}
          /\ WriterOf[d] = w /\ pc[d] = "probing" => pc'[d] = "crashed"
          /\ WriterOf[d] # w => pc'[d] = pc[d]
          /\ name' = name
          /\ lock'[WriterOf[d]] = IF WriterOf[d] = w THEN Nobody ELSE lock[WriterOf[d]]
      BY <1>21 DEF Crash, Ended
    <3> QED
      BY <3>1
  <2>3. CallType'
    BY <1>21 DEF CallType, Crash
  <2>4. HistoryType'
    BY <1>21 DEF HistoryType, Crash
  <2>5. SharkType'
    BY <1>21 DEF SharkType, Crash
  <2> QED
    BY <2>1, <2>2, <2>3, <2>4, <2>5
       DEF FilesType, Links, CallType, HistoryType, SharkType
<1>22. CASE UNCHANGED vars
  BY <1>22
<1> QED
  BY <1>1, <1>2, <1>3, <1>4, <1>5, <1>6, <1>7, <1>8, <1>9, <1>10, <1>11,
     <1>12, <1>13, <1>14, <1>15, <1>16, <1>17, <1>18, <1>19, <1>20, <1>21,
     <1>22
     DEF Next, Prepare, Copy, Capture, Finalize

(* A capture keeps to the steps of its kind: copies never start tshark,    *)
(* live captures never copy.                                               *)
LEMMA KindsStep ==
    ASSUME TypeOK, Kinds, [Next]_vars
    PROVE  Kinds'
<1> USE EvidenceAssumption, PartNames
<1> USE DEF TypeOK, Points, Kinds, Live, Pending, Ended, Fault, vars, prepareVars,
            captureVars, finalizeVars
<1>1. ASSUME NEW c \in Captures, ReadClock(c) PROVE Kinds'
  BY <1>1 DEF ReadClock, Goto
<1>2. ASSUME NEW c \in Captures, EnterLock(c) PROVE Kinds'
  BY <1>2 DEF EnterLock, Goto, LockFree
<1>3. ASSUME NEW c \in Captures, TryNext(c) PROVE Kinds'
  BY <1>3 DEF TryNext, Taken, Candidate
<1>4. ASSUME NEW c \in Captures, Choose(c) PROVE Kinds'
  <2>1. Candidate(c) # None
    BY <1>4, CandidateName DEF Choose
  <2>2. \A d \in Captures :
           /\ pc'[d] = IF d = c THEN "prepared" ELSE pc[d]
           /\ name'[d] = IF d = c THEN Candidate(c) ELSE name[d]
           /\ stamp'[d] = IF d = c THEN None ELSE stamp[d]
    BY <1>4 DEF Choose, Goto
  <2>3. tshark' = tshark /\ born' = born /\ metadata' = metadata
    BY <1>4 DEF Choose
  <2>4. pc[c] = "probing"
    BY <1>4 DEF Choose
  <2> SUFFICES ASSUME NEW d \in Captures
               PROVE  (/\ d \in Copies =>
                           /\ pc[d] \notin {"capturing", "closed", "hashing", "measuring"}
                           /\ ~tshark[d] /\ metadata[d] = None
                       /\ d \in Live =>
                            pc[d] \notin {"copying", "cleanup", "failed", "littered"}
                       /\ pc[d] \in {"waiting", "probing"} => stamp[d] \in Times
                       /\ tshark[d] \/ pc[d] = "capturing" => d \in born
                       /\ name[d] = None => d \notin born /\ metadata[d] = None
                       /\ Pending(d) \/ pc[d] = "capturing" => metadata[d] = None
                       /\ d \in born => ~Pending(d))'
    BY DEF Kinds
  <2>5. CASE d # c
    BY <2>2, <2>3, <2>5
  <2>6. CASE d = c
    BY <2>1, <2>2, <2>3, <2>4, <2>6
  <2> QED
    BY <2>5, <2>6
<1>5. ASSUME NEW c \in Captures, OpenPart(c) PROVE Kinds'
  BY <1>5 DEF OpenPart, Goto
<1>6. ASSUME NEW c \in Captures, CopyBlock(c) PROVE Kinds'
  BY <1>6 DEF CopyBlock
<1>7. ASSUME NEW c \in Captures, Replace(c) PROVE Kinds'
  BY <1>7 DEF Replace, Goto, Forget
<1>8. ASSUME NEW c \in Captures, CopyFails(c) PROVE Kinds'
  BY <1>8 DEF CopyFails, Goto, AfterFailure, Forget
<1>9. ASSUME NEW c \in Captures, Unlink(c) PROVE Kinds'
  BY <1>9 DEF Unlink, Goto
<1>10. ASSUME NEW c \in Captures, StartCapture(c) PROVE Kinds'
  <2>1. \A d \in Captures :
           /\ pc'[d] = IF d = c THEN "capturing" ELSE pc[d]
           /\ d # c => tshark'[d] = tshark[d]
    BY <1>10 DEF StartCapture, Goto
  <2>2. /\ name' = name /\ born' = born \cup {c} /\ metadata' = metadata
        /\ stamp' = stamp /\ pc[c] = "prepared" /\ c \in Live
    BY <1>10 DEF StartCapture
  <2> QED
    BY <2>1, <2>2
<1>11. ASSUME NEW c \in Captures, NeverStarted(c) PROVE Kinds'
  BY <1>11 DEF NeverStarted, Goto
<1>12. ASSUME NEW c \in Captures, WriteBlock(c) PROVE Kinds'
  BY <1>12 DEF WriteBlock
<1>13. ASSUME NEW c \in Captures, CloseCapture(c) PROVE Kinds'
  BY <1>13 DEF CloseCapture, Goto
<1>14. ASSUME NEW c \in Captures, TSharkExits(c) PROVE Kinds'
  BY <1>14 DEF TSharkExits
<1>15. ASSUME NEW c \in Captures, NothingToFinalize(c) PROVE Kinds'
  BY <1>15 DEF NothingToFinalize, Goto, SessionOver
<1>16. ASSUME NEW c \in Captures, OpenEvidence(c) PROVE Kinds'
  BY <1>16 DEF OpenEvidence, Goto, SessionOver
<1>17. ASSUME NEW c \in Captures, HashChunk(c) PROVE Kinds'
  <2>1. /\ pc[c] = "hashing"
        /\ pc' \in {pc, [pc EXCEPT ![c] = "measuring"]}
        /\ <<name, stamp, tshark, metadata, born>>' = <<name, stamp, tshark, metadata, born>>
    BY <1>17 DEF HashChunk, Goto
  <2> QED
    BY <2>1
<1>18. ASSUME NEW c \in Captures, Measure(c) PROVE Kinds'
  BY <1>18 DEF Measure, Goto, Forget
<1>19. ASSUME NEW c \in Captures, FinalizeFails(c) PROVE Kinds'
  BY <1>19 DEF FinalizeFails, Goto, Forget
<1>20. ASSUME NEW c \in Captures, FinalizeAgain(c) PROVE Kinds'
  BY <1>20 DEF FinalizeAgain, Goto
<1>21. ASSUME NEW w \in Writers, Crash(w) PROVE Kinds'
  BY <1>21 DEF Crash
<1>22. CASE UNCHANGED vars
  BY <1>22
<1> QED
  BY <1>1, <1>2, <1>3, <1>4, <1>5, <1>6, <1>7, <1>8, <1>9, <1>10, <1>11,
     <1>12, <1>13, <1>14, <1>15, <1>16, <1>17, <1>18, <1>19, <1>20, <1>21,
     <1>22
     DEF Next, Prepare, Copy, Capture, Finalize

(* A name once taken stays with its capture, unless two captures took it   *)
(* at the same instant (sharing).                                          *)
LEMMA NamesStep ==
    ASSUME TypeOK, Kinds, Made, Apart, [Next]_vars
    PROVE  (Made /\ Apart)'
<1> USE EvidenceAssumption, PartNames
<1> USE DEF TypeOK, Kinds, Live, Pending, Active, Made, Apart, Exists, PartOf,
            Holders, vars, prepareVars, captureVars, finalizeVars
<1>1. ASSUME NEW c \in Captures, ReadClock(c) PROVE (Made /\ Apart)'
  BY <1>1 DEF ReadClock, Goto
<1>2. ASSUME NEW c \in Captures, EnterLock(c) PROVE (Made /\ Apart)'
  BY <1>2 DEF EnterLock, Goto, LockFree
<1>3. ASSUME NEW c \in Captures, TryNext(c) PROVE (Made /\ Apart)'
  BY <1>3 DEF TryNext, Taken, Candidate
<1>4. ASSUME NEW c \in Captures, Choose(c) PROVE (Made /\ Apart)'
  BY <1>4, CandidateName DEF Choose, Goto, Taken, Candidate, Exists
<1>5. ASSUME NEW c \in Captures, OpenPart(c) PROVE (Made /\ Apart)'
  BY <1>5 DEF OpenPart, Goto, With
<1>6. ASSUME NEW c \in Captures, CopyBlock(c) PROVE (Made /\ Apart)'
  BY <1>6 DEF CopyBlock, Opened, Exists, With
<1>7. ASSUME NEW c \in Captures, Replace(c) PROVE (Made /\ Apart)'
  <2>1. name' = name /\ sharing' = sharing /\ pc[c] = "copying"
        /\ \A d \in Captures : d # c => pc'[d] = pc[d]
    BY <1>7 DEF Replace, Goto
  <2>2. name[c] \in Targets
    BY <2>1
  <2>3. \/ /\ DOMAIN files' = (DOMAIN files \ {PartOf(c)}) \cup {name[c]}
           /\ born' = born \cup {c} /\ pc'[c] = "done"
        \/ files' = files /\ born' = born /\ pc'[c] = "cleanup"
    BY <1>7 DEF Replace, Goto
  <2>4. \A d \in Captures : name[d] \in Targets => name[d] # PartOf(c)
    BY <2>2
  <2>5. \A d \in Captures : d \in born \/ pc[d] \in {"hashing", "measuring"}
                             => name[d] \in Targets
    OBVIOUS
  <2>6. Made'
    BY <2>1, <2>3, <2>4, <2>5
  <2>7. \A d \in Captures : Active(d)' => Active(d)
    BY <2>1, <2>3
  <2> HIDE DEF TypeOK, Kinds, Made, Active, Pending
  <2>8. Apart'
    BY <2>1, <2>7 DEF Apart
  <2> QED
    BY <2>6, <2>8
<1>8. ASSUME NEW c \in Captures, CopyFails(c) PROVE (Made /\ Apart)'
  BY <1>8 DEF CopyFails, Goto, AfterFailure, Forget
<1>9. ASSUME NEW c \in Captures, Unlink(c) PROVE (Made /\ Apart)'
  BY <1>9, SMTT(30) DEF Unlink, Goto, Without, Restrict
<1>10. ASSUME NEW c \in Captures, StartCapture(c) PROVE (Made /\ Apart)'
  BY <1>10 DEF StartCapture, Goto, With
<1>11. ASSUME NEW c \in Captures, NeverStarted(c) PROVE (Made /\ Apart)'
  BY <1>11 DEF NeverStarted, Goto
<1>12. ASSUME NEW c \in Captures, WriteBlock(c) PROVE (Made /\ Apart)'
  BY <1>12 DEF WriteBlock, With
<1>13. ASSUME NEW c \in Captures, CloseCapture(c) PROVE (Made /\ Apart)'
  BY <1>13 DEF CloseCapture, Goto
<1>14. ASSUME NEW c \in Captures, TSharkExits(c) PROVE (Made /\ Apart)'
  BY <1>14 DEF TSharkExits
<1>15. ASSUME NEW c \in Captures, NothingToFinalize(c) PROVE (Made /\ Apart)'
  BY <1>15 DEF NothingToFinalize, Goto, SessionOver, Exists
<1>16. ASSUME NEW c \in Captures, OpenEvidence(c) PROVE (Made /\ Apart)'
  BY <1>16 DEF OpenEvidence, Goto, SessionOver, Exists
<1>17. ASSUME NEW c \in Captures, HashChunk(c) PROVE (Made /\ Apart)'
  BY <1>17, SMTT(30) DEF HashChunk, Goto
<1>18. ASSUME NEW c \in Captures, Measure(c) PROVE (Made /\ Apart)'
  BY <1>18 DEF Measure, Goto, Forget
<1>19. ASSUME NEW c \in Captures, FinalizeFails(c) PROVE (Made /\ Apart)'
  BY <1>19 DEF FinalizeFails, Goto, Forget
<1>20. ASSUME NEW c \in Captures, FinalizeAgain(c) PROVE (Made /\ Apart)'
  BY <1>20 DEF FinalizeAgain, Goto
<1>21. ASSUME NEW w \in Writers, Crash(w) PROVE (Made /\ Apart)'
  BY <1>21 DEF Crash
<1>22. CASE UNCHANGED vars
  BY <1>22
<1> QED
  BY <1>1, <1>2, <1>3, <1>4, <1>5, <1>6, <1>7, <1>8, <1>9, <1>10, <1>11,
     <1>12, <1>13, <1>14, <1>15, <1>16, <1>17, <1>18, <1>19, <1>20, <1>21,
     <1>22
     DEF Next, Prepare, Copy, Capture, Finalize

-----------------------------------------------------------------------------
(* The steps that leave every file alone.                                  *)
Littering(c) == pc[c] \in {"copying", "cleanup", "littered", "crashed"}

Quiet ==
    /\ files' = files /\ born' = born /\ sharing \subseteq sharing'
    /\ \A d \in Captures :
          /\ name[d] # None => name'[d] = name[d]
          /\ name'[d] # name[d] => ~Exists(name'[d])
          /\ Littering(d) => Littering(d)'
          /\ pc'[d] = "copying" =>
                pc[d] = "copying" /\ progress'[d] = progress[d]

(* Six operations write, create, move or remove a file.                    *)
Touches(c) ==
    \/ OpenPart(c) \/ CopyBlock(c) \/ StartCapture(c) \/ WriteBlock(c)
    \/ Replace(c) /\ Exists(PartOf(c))
    \/ Unlink(c) /\ files' = Without(PartOf(c)) /\ pc' = [pc EXCEPT ![c] = "failed"]

(* Every other step is quiet.                                              *)
LEMMA QuietOrTouches ==
    ASSUME TypeOK, Kinds, [Next]_vars
    PROVE  Quiet \/ \E c \in Captures : Touches(c)
<1> USE EvidenceAssumption
<1> USE DEF TypeOK, Quiet, Littering, vars, prepareVars, captureVars, finalizeVars
<1>1. ASSUME NEW c \in Captures, ReadClock(c) PROVE Quiet
  BY <1>1 DEF ReadClock, Goto
<1>2. ASSUME NEW c \in Captures, EnterLock(c) PROVE Quiet
  BY <1>2 DEF EnterLock, Goto
<1>3. ASSUME NEW c \in Captures, TryNext(c) PROVE Quiet
  BY <1>3 DEF TryNext
<1>4. ASSUME NEW c \in Captures, Choose(c) PROVE Quiet
  BY <1>4 DEF Choose, Goto, Taken
<1>5. ASSUME NEW c \in Captures, CopyFails(c) PROVE Quiet
  BY <1>5 DEF CopyFails, Goto, AfterFailure, Forget
<1>6. ASSUME NEW c \in Captures, NeverStarted(c) PROVE Quiet
  BY <1>6 DEF NeverStarted, Goto
<1>7. ASSUME NEW c \in Captures, CloseCapture(c) PROVE Quiet
  BY <1>7 DEF CloseCapture, Goto
<1>8. ASSUME NEW c \in Captures, TSharkExits(c) PROVE Quiet
  BY <1>8 DEF TSharkExits
<1>9. ASSUME NEW c \in Captures, NothingToFinalize(c) PROVE Quiet
  BY <1>9 DEF NothingToFinalize, Goto, SessionOver
<1>10. ASSUME NEW c \in Captures, OpenEvidence(c) PROVE Quiet
  BY <1>10 DEF OpenEvidence, Goto, SessionOver
<1>11. ASSUME NEW c \in Captures, HashChunk(c) PROVE Quiet
  BY <1>11 DEF HashChunk, Goto
<1>12. ASSUME NEW c \in Captures, Measure(c) PROVE Quiet
  BY <1>12 DEF Measure, Goto, Forget
<1>13. ASSUME NEW c \in Captures, FinalizeFails(c) PROVE Quiet
  BY <1>13 DEF FinalizeFails, Goto, Forget
<1>14. ASSUME NEW c \in Captures, FinalizeAgain(c) PROVE Quiet
  BY <1>14 DEF FinalizeAgain, Goto
<1>15. ASSUME NEW c \in Captures, Replace(c), ~Exists(PartOf(c)) PROVE Quiet
  BY <1>15 DEF Replace, Goto, Forget
<1>16. ASSUME NEW c \in Captures, Unlink(c), ~Touches(c) PROVE Quiet
  BY <1>16 DEF Unlink, Goto, Touches
<1>17. ASSUME NEW w \in Writers, Crash(w) PROVE Quiet
  BY <1>17 DEF Crash, Ended
<1>18. CASE UNCHANGED vars
  BY <1>18
<1> HIDE DEF TypeOK, Quiet, vars
<1> QED
  BY <1>1, <1>2, <1>3, <1>4, <1>5, <1>6, <1>7, <1>8, <1>9, <1>10, <1>11, <1>12, <1>13,
     <1>14, <1>15, <1>16, <1>17, <1>18
     DEF Next, Prepare, Copy, Capture, Finalize, Touches

(* Writing a file changes this one and no other.                           *)
LEMMA WithFile ==
    ASSUME NEW g, NEW blocks, files' = With(g, blocks)
    PROVE  /\ DOMAIN files' = DOMAIN files \cup {g} /\ files'[g] = blocks
           /\ \A f \in DOMAIN files : f # g => files'[f] = files[f]
  BY DEF With

(* What a write goes to: the target, or the .part file of a copy.          *)
LEMMA ChosenFile ==
    ASSUME TypeOK, Kinds, Made, NEW c \in Captures, CopyBlock(c) \/ WriteBlock(c)
    PROVE  \E g \in {name[c], Part(name[c])} :
              /\ name' = name /\ name[c] # None /\ g \in DOMAIN files
              /\ files' = With(g, Append(files[g], c))
<1>1. CASE CopyBlock(c)
  BY <1>1 DEF CopyBlock, Opened, PartOf, Exists, prepareVars, TypeOK
<1>2. CASE WriteBlock(c)
  BY <1>2 DEF WriteBlock, Made, Kinds, Exists, prepareVars, TypeOK
<1> QED
  BY <1>1, <1>2

-----------------------------------------------------------------------------
(* No step strands a .part file: the copy that opened it keeps it, removes *)
(* it, or is recorded as having failed to.                                 *)
LEMMA LeftoversStep ==
    ASSUME TypeOK, Kinds, NoLeftovers, [Next]_vars
    PROVE  NoLeftovers'
<1>1. SUFFICES ASSUME NEW f \in DOMAIN files', f.part
               PROVE  \E d \in Copies :
                         name'[d] # None /\ Part(name'[d]) = f /\ Littering(d)'
  BY DEF NoLeftovers, PartOf, Littering
<1>2. \A d \in Copies : d \in Captures
  BY EvidenceAssumption
<1>3. \A g \in DOMAIN files : g.part =>
         \E d \in Copies : name[d] # None /\ Part(name[d]) = g /\ Littering(d)
  BY DEF NoLeftovers, PartOf, Littering
<1>4. CASE Quiet
  BY <1>1, <1>2, <1>3, <1>4 DEF Quiet
<1>5. ASSUME NEW c \in Captures, OpenPart(c) PROVE \E d \in Copies :
                         name'[d] # None /\ Part(name'[d]) = f /\ Littering(d)'
  <2>1. /\ name' = name /\ c \in Copies /\ name[c] # None
        /\ pc[c] = "prepared" /\ pc' = [pc EXCEPT ![c] = "copying"]
        /\ f \in DOMAIN files \cup {Part(name[c])}
    BY <1>5 DEF OpenPart, Goto, With, PartOf, prepareVars, TypeOK
  <2>2. pc'[c] = "copying" /\ \A d \in Captures : d # c => pc'[d] = pc[d]
    BY <2>1 DEF TypeOK
  <2>3. CASE f = Part(name[c])
    BY <2>1, <2>2, <2>3 DEF Littering
  <2>4. CASE f \in DOMAIN files
    <3>1. PICK d \in Copies : name[d] # None /\ Part(name[d]) = f /\ Littering(d)
      BY <1>1, <1>3, <2>4
    <3>2. Littering(d)'
      BY <1>2, <3>1, <2>2 DEF Littering
    <3> QED
      BY <2>1, <3>1, <3>2
  <2> QED
    BY <2>1, <2>3, <2>4
<1>6. ASSUME NEW c \in Captures, CopyBlock(c) \/ WriteBlock(c) \/ StartCapture(c)
      PROVE \E d \in Copies :
                         name'[d] # None /\ Part(name'[d]) = f /\ Littering(d)'
  <2>1. /\ name' = name /\ name[c] \in Targets
        /\ \A d \in Captures : Littering(d) => Littering(d)'
        /\ f \in DOMAIN files \cup {name[c]}
    BY <1>6 DEF CopyBlock, WriteBlock, StartCapture, Opened, Exists, Goto, With,
                prepareVars, TypeOK, Kinds, Littering
  <2>2. f \in DOMAIN files
    BY <1>1, <2>1, PartNames
  <2> QED
    BY <1>1, <1>2, <1>3, <2>1, <2>2
<1>7. ASSUME NEW c \in Captures,
             \/ Replace(c) /\ Exists(PartOf(c))
             \/ /\ Unlink(c) /\ files' = Without(PartOf(c))
                /\ pc' = [pc EXCEPT ![c] = "failed"]
      PROVE \E d \in Copies :
                         name'[d] # None /\ Part(name'[d]) = f /\ Littering(d)'
  <2>1. /\ name' = name /\ name[c] \in Targets
        /\ \A d \in Captures : d # c => pc'[d] = pc[d]
        /\ f \in (DOMAIN files \ {Part(name[c])}) \cup {name[c]}
    <3>1. CASE Replace(c) /\ Exists(PartOf(c))
      <4>1. DOMAIN files' = (DOMAIN files \ {Part(name[c])}) \cup {name[c]}
        BY <3>1 DEF Replace, Exists, PartOf
      <4> QED
        BY <3>1, <4>1, ZenonT(30) DEF Replace, Exists, Goto, PartOf, prepareVars, TypeOK
    <3>2. CASE /\ Unlink(c) /\ files' = Without(PartOf(c))
               /\ pc' = [pc EXCEPT ![c] = "failed"]
      <4>1. DOMAIN files' = DOMAIN files \ {Part(name[c])}
        BY <3>2 DEF Without, Restrict, PartOf
      <4> QED
        BY <3>2, <4>1 DEF Unlink, prepareVars, TypeOK
    <3> QED
      BY <1>7, <3>1, <3>2
  <2>2. f \in DOMAIN files /\ f # Part(name[c])
    BY <1>1, <2>1, PartNames
  <2>3. PICK d \in Copies : name[d] # None /\ Part(name[d]) = f /\ Littering(d)
    BY <1>1, <1>3, <2>2
  <2>4. Littering(d)'
    BY <1>2, <2>1, <2>2, <2>3 DEF Littering
  <2> QED
    BY <2>1, <2>3, <2>4
<1> QED
  BY <1>4, <1>5, <1>6, <1>7, QuietOrTouches DEF Touches

(* Blocks of a capture are found in its target and its .part file only.    *)
OwnFiles ==
    \A f \in DOMAIN files : \A c \in Captures :
        c \in Range(files[f]) => name[c] # None /\ f \in {name[c], PartOf(c)}

(* Whatever a step writes, it writes into the writer's own target or part. *)
LEMMA OwnFilesStep ==
    ASSUME TypeOK, Kinds, Made, OwnFiles, [Next]_vars
    PROVE  OwnFiles'
<1>1. SUFFICES ASSUME NEW f \in DOMAIN files', NEW d \in Captures,
                      d \in Range(files'[f])
               PROVE  name'[d] # None /\ f \in {name'[d], Part(name'[d])}
  BY DEF OwnFiles, PartOf
<1>2. \A g \in DOMAIN files : d \in Range(files[g]) =>
         name[d] # None /\ g \in {name[d], Part(name[d])}
  BY DEF OwnFiles, PartOf
<1>3. \A g \in DOMAIN files : files[g] \in Seq(Captures)
  BY DEF TypeOK
<1>4. CASE Quiet
  BY <1>1, <1>2, <1>4 DEF Quiet
<1>5. ASSUME NEW c \in Captures, OpenPart(c) \/ StartCapture(c)
      PROVE  name'[d] # None /\ f \in {name'[d], Part(name'[d])}
  <2>1. /\ name' = name
        /\ \/ files'[f] = <<>>
           \/ f \in DOMAIN files /\ files'[f] = files[f]
    <3>1. name' = name
      BY <1>5 DEF OpenPart, StartCapture, prepareVars
    <3>2. PICK g : files' = With(g, <<>>)
      BY <1>5, Zenon DEF OpenPart, StartCapture
    <3>3. /\ DOMAIN files' = DOMAIN files \cup {g} /\ files'[g] = <<>>
          /\ \A h \in DOMAIN files : h # g => files'[h] = files[h]
      BY ONLY <3>2, WithFile
    <3> QED
      BY <3>1, <3>3
  <2> QED
    BY <1>1, <1>2, <2>1, EmptyFile
<1>6. ASSUME NEW c \in Captures, CopyBlock(c) \/ WriteBlock(c)
      PROVE  name'[d] # None /\ f \in {name'[d], Part(name'[d])}
  <2>1. PICK g \in {name[c], Part(name[c])} :
           /\ name' = name /\ name[c] # None /\ g \in DOMAIN files
           /\ files' = With(g, Append(files[g], c))
    BY <1>6, ChosenFile
  <2>2. CASE f = g
    <3>1. files'[f] = Append(files[g], c)
      BY <2>1, <2>2 DEF With
    <3>2. d = c \/ d \in Range(files[g])
      BY <1>1, <1>3, <2>1, <3>1, AppendBlock
    <3> QED
      BY <1>2, <2>1, <2>2, <3>2
  <2>3. CASE f # g
    BY <1>1, <1>2, <2>1, <2>3 DEF With
  <2> QED
    BY <2>2, <2>3
<1>7. ASSUME NEW c \in Captures, Replace(c), Exists(PartOf(c))
      PROVE  name'[d] # None /\ f \in {name'[d], Part(name'[d])}
  <2>1. /\ name' = name /\ name[c] \in Targets /\ Part(name[c]) \in DOMAIN files
        /\ \/ f = name[c] /\ files'[f] = files[Part(name[c])]
           \/ f \in DOMAIN files /\ files'[f] = files[f]
    <3>1. /\ name' = name /\ pc[c] = "copying"
          /\ files' = [g \in (DOMAIN files \ {PartOf(c)}) \cup {name[c]} |->
                         IF g = name[c] THEN files[PartOf(c)] ELSE files[g]]
      BY <1>7 DEF Replace, prepareVars
    <3>2. \/ f = name[c] /\ files'[f] = files[PartOf(c)]
          \/ f \in DOMAIN files /\ files'[f] = files[f]
      BY <3>1
    <3> QED
      BY <1>7, <3>1, <3>2 DEF Exists, PartOf, TypeOK
  <2>2. CASE f = name[c] /\ files'[f] = files[Part(name[c])]
    <3>1. name[d] # None /\ Part(name[c]) \in {name[d], Part(name[d])}
      BY <1>1, <1>2, <2>1, <2>2
    <3>2. name[d] \in Targets
      BY <3>1 DEF TypeOK
    <3>3. name[c] = name[d]
      BY <2>1, <3>1, <3>2, PartNames
    <3> QED
      BY <2>1, <2>2, <3>1, <3>3
  <2> QED
    BY <1>1, <1>2, <2>1, <2>2
<1>8. ASSUME NEW c \in Captures, Unlink(c), files' = Without(PartOf(c))
      PROVE  name'[d] # None /\ f \in {name'[d], Part(name'[d])}
  <2>1. name' = name /\ f \in DOMAIN files /\ files'[f] = files[f]
    BY <1>8 DEF Unlink, Without, Restrict, prepareVars
  <2> QED
    BY <1>1, <1>2, <2>1
<1> QED
  BY <1>4, <1>5, <1>6, <1>7, <1>8, QuietOrTouches DEF Touches

-----------------------------------------------------------------------------
(* What os.replace leaves behind.                                          *)
LEMMA MovedFile ==
    ASSUME TypeOK, NEW c \in Captures, Replace(c), Exists(PartOf(c))
    PROVE  /\ c \in Captures /\ pc[c] = "copying" /\ name[c] \in Targets
           /\ name' = name /\ sharing' = sharing /\ born' = born \cup {c}
           /\ Len(progress[c]) = Size
           /\ pc' = [pc EXCEPT ![c] = "done"]
           /\ DOMAIN files' = (DOMAIN files \ {Part(name[c])}) \cup {name[c]}
           /\ files'[name[c]] = files[Part(name[c])]
           /\ \A f \in DOMAIN files' : f # name[c] => files'[f] = files[f]
<1>1. /\ pc[c] = "copying" /\ name' = name /\ sharing' = sharing
      /\ born' = born \cup {c} /\ Len(progress[c]) = Size
      /\ pc' = [pc EXCEPT ![c] = "done"]
      /\ files' = [f \in (DOMAIN files \ {Part(name[c])}) \cup {name[c]} |->
                      IF f = name[c] THEN files[Part(name[c])] ELSE files[f]]
  BY DEF Replace, Goto, PartOf, prepareVars
<1>2. name[c] \in Targets
  BY <1>1, ZenonT(30) DEF TypeOK
<1> HIDE DEF TypeOK
<1> QED
  BY ONLY <1>1, <1>2, c \in Captures

(* What unlink leaves behind.                                              *)
LEMMA RemovedFile ==
    ASSUME NEW c \in Captures, Unlink(c), files' = Without(PartOf(c))
    PROVE  /\ pc[c] = "cleanup" /\ name' = name /\ sharing' = sharing
           /\ born' = born
           /\ DOMAIN files' = DOMAIN files \ {Part(name[c])}
           /\ \A f \in DOMAIN files' : files'[f] = files[f]
  BY DEF Unlink, Without, Restrict, PartOf, prepareVars

(* Captures that once shared a name, or whose evidence was once complete,  *)
(* stay so marked.                                                         *)
LEMMA SharingGrows ==
    ASSUME TypeOK, Kinds, [Next]_vars
    PROVE  sharing \subseteq sharing' /\ born \subseteq born'
<1>1. CASE Quiet
  BY <1>1 DEF Quiet
<1>2. ASSUME NEW c \in Captures, Touches(c)
      PROVE  sharing \subseteq sharing' /\ born \subseteq born'
  BY <1>2 DEF Touches, OpenPart, CopyBlock, StartCapture, WriteBlock, Replace,
              Unlink, prepareVars
<1> QED
  BY <1>1, <1>2, QuietOrTouches

(* A target comes into being when TShark starts or when a copy is moved.   *)
LEMMA Birth ==
    ASSUME TypeOK, Kinds, [Next]_vars, NEW c \in born', c \notin born
    PROVE  c \in Captures /\ (StartCapture(c) \/ (Replace(c) /\ Exists(PartOf(c))))
<1>1. ~Quiet
  BY DEF Quiet
<1>2. PICK d \in Captures : Touches(d)
  BY <1>1, QuietOrTouches
<1> QED
  BY <1>2 DEF Touches, OpenPart, CopyBlock, StartCapture, WriteBlock, Replace,
              Unlink, prepareVars

(* Unless two captures were given one name, a file that has come into      *)
(* being is written by no one but its own TShark.                          *)
LEMMA TargetKept ==
    ASSUME TypeOK, Kinds, Made, Apart, [Next]_vars,
           NEW c \in born, c \notin sharing'
    PROVE  /\ c \in Captures /\ c \notin sharing /\ name'[c] = name[c]
           /\ name[c] \in Targets
           /\ name[c] \in DOMAIN files /\ name[c] \in DOMAIN files'
           /\ \/ files'[name[c]] = files[name[c]]
              \/ WriteBlock(c) /\ files'[name[c]] = Append(files[name[c]], c)
<1>1. c \in Captures /\ name[c] \in Targets /\ name[c] \in DOMAIN files
  BY DEF TypeOK, Kinds, Made, Exists
<1>2. c \notin sharing
  BY SharingGrows
<1>3. ~Pending(c)
  BY <1>1 DEF Kinds
<1>4. \A d \in Captures : d # c /\ name[d] # None /\ Active(d) => name[d] # name[c]
  BY <1>1, <1>2, EvidenceAssumption, PartNames DEF Apart, Active
<1>5. CASE Quiet
  BY <1>1, <1>2, <1>5, EvidenceAssumption, PartNames DEF Quiet
<1>6. ASSUME NEW d \in Captures, OpenPart(d) PROVE
           /\ name' = name /\ name[c] \in DOMAIN files'
           /\ files'[name[c]] = files[name[c]]
  <2>1. /\ name' = name /\ files' = With(Part(name[d]), <<>>)
        /\ name[d] \in Targets
    BY <1>6, ZenonT(30) DEF OpenPart, PartOf, prepareVars, TypeOK
  <2>2. Part(name[d]) # name[c]
    BY <1>1, <2>1, PartNames
  <2> QED
    BY ONLY <1>1, <2>1, <2>2, WithFile
<1>7. ASSUME NEW d \in Captures, StartCapture(d) PROVE
           /\ name' = name /\ name[c] \in DOMAIN files'
           /\ files'[name[c]] = files[name[c]]
  <2>1. /\ name' = name /\ files' = With(name[d], <<>>)
        /\ name[d] # None /\ Pending(d)
    BY <1>7 DEF StartCapture, prepareVars, TypeOK, Pending
  <2>2. name[d] # name[c]
    BY <1>3, <1>4, <2>1 DEF Active
  <2> QED
    BY ONLY <1>1, <2>1, <2>2, WithFile
<1>8. ASSUME NEW d \in Captures, CopyBlock(d) \/ WriteBlock(d) PROVE
           /\ name' = name /\ name[c] \in DOMAIN files'
           /\ \/ files'[name[c]] = files[name[c]]
              \/ WriteBlock(c) /\ files'[name[c]] = Append(files[name[c]], c)
  <2>1. PICK g \in {name[d], Part(name[d])} :
           /\ name' = name /\ name[d] # None /\ g \in DOMAIN files
           /\ files' = With(g, Append(files[g], d))
    BY <1>8, ChosenFile
  <2>2. name[d] \in Targets
    BY <2>1 DEF TypeOK
  <2>3. Active(d) /\ (d = c => WriteBlock(c))
    BY <1>3, <1>8 DEF Active, Pending, CopyBlock, WriteBlock, Kinds
  <2>4. g = name[c] => d = c
    BY <1>1, <1>4, <2>1, <2>2, <2>3, PartNames
  <2>5. CASE g = name[c]
    <3>1. files'[g] = Append(files[g], d) /\ DOMAIN files' = DOMAIN files \cup {g}
      BY ONLY <2>1, WithFile
    <3> QED
      BY <2>1, <2>3, <2>4, <2>5, <3>1
  <2>6. CASE g # name[c]
    <3>1. name[c] \in DOMAIN files' /\ files'[name[c]] = files[name[c]]
      BY ONLY <1>1, <2>1, <2>6, WithFile
    <3> QED
      BY <2>1, <3>1
  <2> QED
    BY <2>5, <2>6
<1>9. ASSUME NEW d \in Captures, Replace(d), Exists(PartOf(d)) PROVE
           /\ name' = name /\ name[c] \in DOMAIN files'
           /\ files'[name[c]] = files[name[c]]
  <2>1. Active(d) /\ d # c
    BY <1>3, <1>9 DEF Active, Pending, Replace
  <2>2. /\ name[d] \in Targets /\ name' = name
        /\ DOMAIN files' = (DOMAIN files \ {Part(name[d])}) \cup {name[d]}
        /\ \A f \in DOMAIN files' : f # name[d] => files'[f] = files[f]
    BY <1>9, MovedFile
  <2>3. name[d] # None /\ name[c] # Part(name[d])
    BY <1>1, <2>2, PartNames, EvidenceAssumption
  <2>4. name[d] # name[c]
    BY <1>4, <2>1, <2>3
  <2> QED
    BY ONLY <1>1, <2>2, <2>3, <2>4
<1>10. ASSUME NEW d \in Captures, Unlink(d), files' = Without(PartOf(d)) PROVE
           /\ name' = name /\ name[c] \in DOMAIN files'
           /\ files'[name[c]] = files[name[c]]
  <2>1. name[d] \in Targets
    BY <1>10, ZenonT(30) DEF Unlink, TypeOK
  <2>2. name[c] # Part(name[d])
    BY <1>1, <2>1, PartNames
  <2> QED
    BY <1>1, <1>10, <2>2, RemovedFile
<1>11. QED
  BY <1>1, <1>2, <1>5, <1>6, <1>7, <1>8, <1>9, <1>10, QuietOrTouches DEF Touches

(* The same of the .part file of a copy, while the copy is at it.          *)
LEMMA PartKept ==
    ASSUME TypeOK, Kinds, Made, Apart, [Next]_vars,
           NEW c \in Copies, c \notin sharing', pc[c] = "copying",
           pc'[c] = "copying", Exists(PartOf(c))
    PROVE  /\ name'[c] = name[c] /\ Part(name[c]) \in DOMAIN files'
           /\ \/ /\ files'[Part(name[c])] = files[Part(name[c])]
                 /\ progress'[c] = progress[c]
              \/ /\ Len(progress[c]) < Size
                 /\ files'[Part(name[c])] = Append(files[Part(name[c])], c)
                 /\ progress'[c] = Append(progress[c], c)
<1>1. c \in Captures /\ name[c] \in Targets /\ Part(name[c]) \in DOMAIN files
  <2>1. c \in Captures
    BY EvidenceAssumption
  <2>2. name[c] \in Targets \cup {None}
    BY <2>1, Zenon DEF TypeOK
  <2>3. name[c] # None
    BY <2>1 DEF TypeOK
  <2>4. Part(name[c]) \in DOMAIN files
    BY Zenon DEF Exists, PartOf
  <2> QED
    BY ONLY <2>1, <2>2, <2>3, <2>4
<1>2. c \notin sharing /\ Active(c)
  BY SharingGrows DEF Active, Pending
<1>3. ASSUME NEW d \in Captures, d # c, name[d] \in Targets, Active(d)
      PROVE  Part(name[d]) # Part(name[c])
  <2>1. name[d] # None
    BY <1>3, EvidenceAssumption, PartNames
  <2>2. name[d] # name[c]
    BY <1>1, <1>2, <1>3, <2>1 DEF Apart
  <2> QED
    BY <1>1, <1>3, <2>2, PartNames
<1>4. CASE Quiet
  <2>1. name[c] # None
    BY <1>1, EvidenceAssumption, PartNames
  <2> QED
    BY <1>1, <1>4, <2>1 DEF Quiet
<1>5. ASSUME NEW d \in Captures, OpenPart(d) PROVE
           /\ name' = name /\ Part(name[c]) \in DOMAIN files'
           /\ files'[Part(name[c])] = files[Part(name[c])]
           /\ progress'[c] = progress[c]
  <2>1. /\ name' = name /\ files' = With(Part(name[d]), <<>>)
        /\ name[d] \in Targets /\ d # c /\ Active(d)
        /\ progress' = [progress EXCEPT ![d] = <<>>]
    BY <1>5 DEF OpenPart, PartOf, prepareVars, TypeOK, Active, Pending
  <2>2. Part(name[d]) # Part(name[c])
    BY <1>3, <2>1
  <2>3. progress'[c] = progress[c]
    BY <1>1, <2>1 DEF TypeOK
  <2>4. Part(name[c]) \in DOMAIN files' /\ files'[Part(name[c])] = files[Part(name[c])]
    <3>1. PICK g, b : g = Part(name[d]) /\ files' = With(g, b)
      BY <2>1
    <3>2. /\ DOMAIN files' = DOMAIN files \cup {g}
          /\ \A f \in DOMAIN files : f # g => files'[f] = files[f]
      BY ONLY <3>1, WithFile
    <3> QED
      BY ONLY <1>1, <2>2, <3>1, <3>2
  <2> QED
    BY <2>1, <2>3, <2>4
<1>6. ASSUME NEW d \in Captures, StartCapture(d) \/ WriteBlock(d) PROVE
           /\ name' = name /\ Part(name[c]) \in DOMAIN files'
           /\ files'[Part(name[c])] = files[Part(name[c])]
           /\ progress'[c] = progress[c]
  <2>1. PICK b : name' = name /\ files' = With(name[d], b)
    BY <1>6 DEF StartCapture, WriteBlock, prepareVars
  <2>2. progress' = progress /\ name[d] \in Targets
    BY <1>6 DEF StartCapture, WriteBlock, finalizeVars, TypeOK, Kinds
  <2>3. Part(name[c]) # name[d]
    BY <1>1, <2>2, PartNames
  <2>4. Part(name[c]) \in DOMAIN files' /\ files'[Part(name[c])] = files[Part(name[c])]
    BY ONLY <1>1, <2>1, <2>3, WithFile
  <2> QED
    BY <2>1, <2>2, <2>4
<1>7. ASSUME NEW d \in Captures, CopyBlock(d) PROVE
           /\ name' = name /\ Part(name[c]) \in DOMAIN files'
           /\ \/ /\ files'[Part(name[c])] = files[Part(name[c])]
                 /\ progress'[c] = progress[c]
              \/ /\ Len(progress[c]) < Size
                 /\ files'[Part(name[c])] = Append(files[Part(name[c])], c)
                 /\ progress'[c] = Append(progress[c], c)
  <2>1. PICK g \in {name[d], Part(name[d])} :
           /\ name' = name /\ name[d] # None /\ g \in DOMAIN files
           /\ files' = With(g, Append(files[g], d))
    BY <1>7, ChosenFile
  <2>2. /\ name[d] \in Targets /\ Active(d) /\ Len(progress[d]) < Size
        /\ progress' = [progress EXCEPT ![d] = Append(progress[d], d)]
    BY <1>7, <2>1 DEF CopyBlock, TypeOK, Active, Pending
  <2>3. CASE d = c
    <3>1. files' = With(Part(name[c]), Append(files[Part(name[c])], c))
      BY <1>1, <1>7, <2>3 DEF CopyBlock, Opened, Exists, PartOf
    <3>2. Part(name[c]) \in DOMAIN files'
          /\ files'[Part(name[c])] = Append(files[Part(name[c])], c)
      BY ONLY <1>1, <3>1, WithFile
    <3>3. progress'[c] = Append(progress[c], c)
      BY <1>1, <2>2, <2>3 DEF TypeOK
    <3> QED
      BY <2>1, <2>2, <2>3, <3>2, <3>3
  <2>4. CASE d # c
    <3>1. g # Part(name[c])
      BY <1>1, <1>3, <2>1, <2>2, <2>4, PartNames
    <3>2. Part(name[c]) \in DOMAIN files' /\ files'[Part(name[c])] = files[Part(name[c])]
      BY ONLY <1>1, <2>1, <3>1, WithFile
    <3>3. progress'[c] = progress[c]
      BY <1>1, <2>2, <2>4 DEF TypeOK
    <3> QED
      BY <2>1, <3>2, <3>3
  <2> QED
    BY <2>3, <2>4
<1>8. ASSUME NEW d \in Captures, Replace(d), Exists(PartOf(d)) PROVE
           /\ name' = name /\ Part(name[c]) \in DOMAIN files'
           /\ files'[Part(name[c])] = files[Part(name[c])]
           /\ progress'[c] = progress[c]
  <2>1. /\ name[d] \in Targets /\ name' = name /\ pc[d] = "copying"
        /\ pc' = [pc EXCEPT ![d] = "done"]
        /\ DOMAIN files' = (DOMAIN files \ {Part(name[d])}) \cup {name[d]}
        /\ \A f \in DOMAIN files' : f # name[d] => files'[f] = files[f]
    BY <1>8, MovedFile
  <2>2. d # c /\ Active(d)
    BY <1>1, <2>1 DEF TypeOK, Active, Pending
  <2>3. Part(name[c]) # Part(name[d]) /\ Part(name[c]) # name[d]
    BY <1>1, <1>3, <2>1, <2>2, PartNames
  <2>4. Part(name[c]) \in DOMAIN files' /\ files'[Part(name[c])] = files[Part(name[c])]
    BY ONLY <1>1, <2>1, <2>3
  <2>5. progress'[c] = progress[c]
    BY <1>1, <1>8, <2>2 DEF Replace, Forget, TypeOK
  <2> QED
    BY <2>1, <2>4, <2>5
<1>9. ASSUME NEW d \in Captures, Unlink(d), files' = Without(PartOf(d)) PROVE
           /\ name' = name /\ Part(name[c]) \in DOMAIN files'
           /\ files'[Part(name[c])] = files[Part(name[c])]
           /\ progress'[c] = progress[c]
  <2>1. /\ progress' = progress /\ name[d] \in Targets /\ d # c /\ Active(d)
    BY <1>9 DEF Unlink, finalizeVars, TypeOK, Active, Pending
  <2>2. /\ name' = name
        /\ DOMAIN files' = DOMAIN files \ {Part(name[d])}
        /\ \A f \in DOMAIN files' : files'[f] = files[f]
    BY <1>9, RemovedFile
  <2>3. Part(name[d]) # Part(name[c])
    BY <1>3, <2>1
  <2>4. Part(name[c]) \in DOMAIN files' /\ files'[Part(name[c])] = files[Part(name[c])]
    BY ONLY <1>1, <2>2, <2>3
  <2> QED
    BY <2>1, <2>2, <2>4
<1>10. QED
  BY <1>4, <1>5, <1>6, <1>7, <1>8, <1>9, QuietOrTouches DEF Touches

-----------------------------------------------------------------------------
(* The .part file of a copy at work holds what it has copied.              *)
CopySoFar ==
    \A c \in Copies \ sharing : pc[c] = "copying" =>
        /\ Exists(PartOf(c)) /\ files[PartOf(c)] = progress[c]
        /\ Range(progress[c]) \subseteq {c} /\ Len(progress[c]) <= Size

(* The part of a running copy holds what the copy has written, whatever    *)
(* the others do.                                                          *)
LEMMA CopySoFarStep ==
    ASSUME TypeOK, Kinds, Made, Apart, CopySoFar, [Next]_vars
    PROVE  CopySoFar'
<1> SUFFICES ASSUME NEW c \in Copies, c \notin sharing', pc'[c] = "copying"
             PROVE  /\ Part(name'[c]) \in DOMAIN files'
                    /\ files'[Part(name'[c])] = progress'[c]
                    /\ Range(progress'[c]) \subseteq {c} /\ Len(progress'[c]) <= Size
  BY DEF CopySoFar, Exists, PartOf
<1>1. c \in Captures /\ c \notin sharing
  BY SharingGrows, EvidenceAssumption
<1>2. CASE pc[c] = "copying"
  <2>1. /\ Exists(PartOf(c)) /\ files[Part(name[c])] = progress[c]
        /\ Range(progress[c]) \subseteq {c} /\ Len(progress[c]) <= Size
    BY <1>1, <1>2 DEF CopySoFar, PartOf
  <2>2. /\ name'[c] = name[c] /\ Part(name[c]) \in DOMAIN files'
        /\ \/ /\ files'[Part(name[c])] = files[Part(name[c])]
              /\ progress'[c] = progress[c]
           \/ /\ Len(progress[c]) < Size
              /\ files'[Part(name[c])] = Append(files[Part(name[c])], c)
              /\ progress'[c] = Append(progress[c], c)
    BY <1>2, <2>1, PartKept
  <2>3. progress[c] \in Seq(Captures)
    BY <1>1 DEF TypeOK
  <2>4. /\ Range(Append(progress[c], c)) = Range(progress[c]) \cup {c}
        /\ Len(Append(progress[c], c)) = Len(progress[c]) + 1
    BY <1>1, <2>3, AppendBlock
  <2>5. Len(progress[c]) \in Nat /\ Size \in Nat
    BY <2>3, EvidenceAssumption
  <2>6. CASE /\ files'[Part(name[c])] = files[Part(name[c])]
             /\ progress'[c] = progress[c]
    BY <2>1, <2>2, <2>6
  <2>7. CASE /\ Len(progress[c]) < Size
             /\ files'[Part(name[c])] = Append(files[Part(name[c])], c)
             /\ progress'[c] = Append(progress[c], c)
    BY <2>1, <2>2, <2>4, <2>5, <2>7
  <2> QED
    BY <2>2, <2>6, <2>7
<1>3. CASE pc[c] # "copying"
  <2>1. ~Quiet
    BY <1>1, <1>3 DEF Quiet
  <2>2. PICK d \in Captures : Touches(d)
    BY <2>1, QuietOrTouches
  <2>3. OpenPart(d) /\ d = c
    BY <1>1, <1>3, <2>2 DEF Touches, OpenPart, CopyBlock, StartCapture,
       WriteBlock, Replace, Unlink, Goto, TypeOK
  <2>4. /\ name' = name /\ progress'[c] = <<>>
        /\ files' = With(Part(name[c]), <<>>)
    BY <1>1, <2>3 DEF OpenPart, PartOf, prepareVars, TypeOK
  <2>5. Part(name[c]) \in DOMAIN files' /\ files'[Part(name[c])] = <<>>
    <3>1. PICK g : g = Part(name[c]) /\ files' = With(g, <<>>)
      BY <2>4
    <3>2. DOMAIN files' = DOMAIN files \cup {g} /\ files'[g] = <<>>
      BY ONLY <3>1, WithFile
    <3> QED
      BY ONLY <3>1, <3>2
  <2> QED
    BY <2>4, <2>5, EmptyFile, EvidenceAssumption
<1> QED
  BY <1>2, <1>3

(* The blocks of a copy are not found where another copy is at work, nor   *)
(* in its target before the move.                                          *)
Unmixed ==
    \A c \in Copies \ sharing :
        /\ \A d \in Copies : d # c /\ pc[d] = "copying" /\ Exists(PartOf(d)) =>
              c \notin Range(files[PartOf(d)])
        /\ c \notin born /\ name[c] # None /\ Exists(name[c]) =>
              c \notin Range(files[name[c]])

(* No block of a copy reaches the part of another.                         *)
LEMMA UnmixedPartStep ==
    ASSUME TypeOK, Kinds, Made, Apart, Unmixed, [Next]_vars,
           NEW c \in Copies, c \notin sharing', NEW d \in Copies, d # c,
           pc'[d] = "copying", Part(name'[d]) \in DOMAIN files'
    PROVE  c \notin Range(files'[Part(name'[d])])
<1>1. c \in Captures /\ d \in Captures /\ c \notin sharing
  BY SharingGrows, EvidenceAssumption
<1>2. pc[d] = "copying" /\ Part(name[d]) \in DOMAIN files =>
         c \notin Range(files[Part(name[d])])
  BY <1>1 DEF Unmixed, Exists, PartOf
<1>3. CASE Quiet
  <2>1. pc[d] = "copying" /\ name[d] # None
    BY <1>1, <1>3 DEF Quiet, TypeOK
  <2> QED
    BY <1>1, <1>2, <1>3, <2>1 DEF Quiet
<1>4. ASSUME NEW e \in Captures, OpenPart(e)
      PROVE  c \notin Range(files'[Part(name'[d])])
  <2>1. name' = name /\ (d = e \/ pc[d] = "copying")
    BY <1>1, <1>4 DEF OpenPart, Goto, prepareVars, TypeOK
  <2>2. PICK g : g = Part(name[e]) /\ files' = With(g, <<>>)
    BY <1>4 DEF OpenPart, PartOf
  <2>3. /\ DOMAIN files' = DOMAIN files \cup {g} /\ files'[g] = <<>>
        /\ \A f \in DOMAIN files : f # g => files'[f] = files[f]
    BY ONLY <2>2, WithFile
  <2>4. CASE Part(name[d]) = g
    BY <2>1, <2>3, <2>4, EmptyFile
  <2>5. CASE Part(name[d]) # g
    BY <1>2, <2>1, <2>2, <2>3, <2>5
  <2> QED
    BY <2>4, <2>5
<1>5. ASSUME NEW e \in Captures, StartCapture(e)
      PROVE  c \notin Range(files'[Part(name'[d])])
  <2>1. /\ name' = name /\ files' = With(name[e], <<>>) /\ name[e] \in Targets
        /\ pc[d] = "copying" /\ name[d] \in Targets
    BY <1>1, <1>5 DEF StartCapture, Goto, prepareVars, TypeOK
  <2>2. Part(name[d]) # name[e]
    BY <2>1, PartNames
  <2>3. /\ DOMAIN files' = DOMAIN files \cup {name[e]}
        /\ \A f \in DOMAIN files : f # name[e] => files'[f] = files[f]
    BY ONLY <2>1, WithFile
  <2> QED
    BY <1>2, <2>1, <2>2, <2>3
<1>6. ASSUME NEW e \in Captures, CopyBlock(e) \/ WriteBlock(e)
      PROVE  c \notin Range(files'[Part(name'[d])])
  <2>1. PICK g \in {name[e], Part(name[e])} :
           /\ name' = name /\ name[e] # None /\ g \in DOMAIN files
           /\ files' = With(g, Append(files[g], e))
    BY <1>6, ChosenFile
  <2>2. /\ DOMAIN files' = DOMAIN files \cup {g}
        /\ files'[g] = Append(files[g], e)
        /\ \A f \in DOMAIN files : f # g => files'[f] = files[f]
    BY ONLY <2>1, WithFile
  <2>3. pc[d] = "copying" /\ name[e] \in Targets /\ name[d] \in Targets
    BY <1>1, <1>6, <2>1, ZenonT(30) DEF CopyBlock, WriteBlock, TypeOK
  <2>4. CASE g # Part(name[d])
    BY <1>2, <2>1, <2>2, <2>3, <2>4
  <2>5. CASE g = Part(name[d])
    <3>1. e # c
      <4>1. SUFFICES ASSUME e = c PROVE FALSE
        OBVIOUS
      <4>2. pc[c] = "copying"
        BY <1>6, <4>1 DEF CopyBlock, WriteBlock, Kinds
      <4>3. name[c] = name[d]
        BY <2>1, <2>3, <2>5, <4>1, PartNames
      <4>4. Active(c) /\ Active(d) /\ name[c] # None
        BY <2>1, <2>3, <4>1, <4>2 DEF Active, Pending
      <4> QED
        BY <1>1, <4>3, <4>4 DEF Apart
    <3>2. files[g] \in Seq(Captures) /\ c \notin Range(files[g])
      BY <1>2, <2>1, <2>3, <2>5 DEF TypeOK
    <3>3. c \notin Range(Append(files[g], e))
      BY <3>1, <3>2, AppendBlock
    <3> QED
      BY <2>1, <2>2, <2>5, <3>3
  <2> QED
    BY <2>4, <2>5
<1>7. ASSUME NEW e \in Captures, Replace(e), Exists(PartOf(e))
      PROVE  c \notin Range(files'[Part(name'[d])])
  <2>1. /\ name[e] \in Targets /\ name' = name
        /\ pc' = [pc EXCEPT ![e] = "done"]
        /\ DOMAIN files' = (DOMAIN files \ {Part(name[e])}) \cup {name[e]}
        /\ \A f \in DOMAIN files' : f # name[e] => files'[f] = files[f]
    BY <1>7, MovedFile
  <2>2. pc[d] = "copying" /\ name[d] \in Targets
    BY <1>1, <2>1, ZenonT(30) DEF TypeOK
  <2>3. Part(name[d]) # name[e]
    BY <2>1, <2>2, PartNames
  <2> QED
    BY <1>2, <2>1, <2>2, <2>3
<1>8. ASSUME NEW e \in Captures, Unlink(e), files' = Without(PartOf(e)),
             pc' = [pc EXCEPT ![e] = "failed"]
      PROVE  c \notin Range(files'[Part(name'[d])])
  <2>1. pc[d] = "copying"
    BY <1>1, <1>8 DEF TypeOK
  <2> QED
    BY <1>2, <1>8, <2>1, RemovedFile
<1> QED
  BY <1>3, <1>4, <1>5, <1>6, <1>7, <1>8, QuietOrTouches DEF Touches

(* No block of a copy reaches its target before the replace.               *)
LEMMA UnmixedTargetStep ==
    ASSUME TypeOK, Kinds, Made, Apart, CopySoFar, Unmixed, [Next]_vars,
           NEW c \in Copies, c \notin sharing', c \notin born',
           name'[c] # None, name'[c] \in DOMAIN files'
    PROVE  c \notin Range(files'[name'[c]])
<1>1. c \in Captures /\ c \notin sharing /\ c \notin born
  BY SharingGrows, EvidenceAssumption
<1>2. name[c] # None /\ name[c] \in DOMAIN files => c \notin Range(files[name[c]])
  BY <1>1 DEF Unmixed, Exists
<1>3. CASE Quiet
  BY <1>1, <1>2, <1>3 DEF Quiet, Exists
<1>4. ASSUME NEW e \in Captures, OpenPart(e) \/ StartCapture(e)
      PROVE  c \notin Range(files'[name'[c]])
  <2>1. name' = name
    BY <1>4 DEF OpenPart, StartCapture, prepareVars
  <2>2. PICK g : files' = With(g, <<>>)
    BY <1>4, Zenon DEF OpenPart, StartCapture
  <2>3. /\ DOMAIN files' = DOMAIN files \cup {g} /\ files'[g] = <<>>
        /\ \A f \in DOMAIN files : f # g => files'[f] = files[f]
    BY ONLY <2>2, WithFile
  <2> QED
    BY <1>2, <2>1, <2>3, EmptyFile
<1>5. ASSUME NEW e \in Captures, CopyBlock(e) \/ WriteBlock(e)
      PROVE  c \notin Range(files'[name'[c]])
  <2>1. PICK g \in {name[e], Part(name[e])} :
           /\ name' = name /\ name[e] # None /\ g \in DOMAIN files
           /\ files' = With(g, Append(files[g], e))
    BY <1>5, ChosenFile
  <2>2. /\ DOMAIN files' = DOMAIN files \cup {g}
        /\ files'[g] = Append(files[g], e)
        /\ \A f \in DOMAIN files : f # g => files'[f] = files[f]
    BY ONLY <2>1, WithFile
  <2>3. name[c] \in Targets
    BY <1>1, <2>1 DEF TypeOK
  <2>4. CASE e = c
    <3>1. CopyBlock(c) /\ pc[c] = "copying"
      BY <1>5, <2>4 DEF CopyBlock, WriteBlock, Kinds
    <3>2. Exists(PartOf(c))
      BY <1>1, <3>1 DEF CopySoFar
    <3>3. files' = With(Part(name[c]), Append(files[Part(name[c])], c))
      BY <3>1, <3>2 DEF CopyBlock, Opened, PartOf
    <3>4. PICK h, b : h = Part(name[c]) /\ files' = With(h, b)
      BY <3>3
    <3>5. /\ DOMAIN files' = DOMAIN files \cup {h}
          /\ \A f \in DOMAIN files : f # h => files'[f] = files[f]
      BY ONLY <3>4, WithFile
    <3>6. h # name[c]
      BY <2>3, <3>4, PartNames
    <3> QED
      BY <1>2, <2>1, <3>5, <3>6
  <2>5. CASE e # c
    <3>1. CASE g = name[c]
      <4>1. files[g] \in Seq(Captures) /\ c \notin Range(files[g])
        BY <1>2, <2>1, <3>1 DEF TypeOK
      <4>2. c \notin Range(Append(files[g], e))
        BY <2>5, <4>1, AppendBlock
      <4> QED
        BY <2>1, <2>2, <3>1, <4>2
    <3>2. CASE g # name[c]
      BY <1>2, <2>1, <2>2, <3>2
    <3> QED
      BY <3>1, <3>2
  <2> QED
    BY <2>4, <2>5
<1>6. ASSUME NEW e \in Captures, Replace(e), Exists(PartOf(e))
      PROVE  c \notin Range(files'[name'[c]])
  <2>1. /\ name[e] \in Targets /\ name' = name /\ pc[e] = "copying"
        /\ born' = born \cup {e}
        /\ DOMAIN files' = (DOMAIN files \ {Part(name[e])}) \cup {name[e]}
        /\ files'[name[e]] = files[Part(name[e])]
        /\ \A f \in DOMAIN files' : f # name[e] => files'[f] = files[f]
    BY <1>6, MovedFile
  <2>2. e # c /\ e \in Copies
    BY <2>1 DEF Kinds, Live
  <2>3. c \notin Range(files[Part(name[e])])
    BY <1>1, <1>6, <2>1, <2>2 DEF Unmixed, PartOf
  <2>4. CASE name[e] = name[c]
    BY <2>1, <2>3, <2>4
  <2>5. CASE name[e] # name[c]
    BY <1>2, <2>1, <2>5
  <2> QED
    BY <2>4, <2>5
<1>7. ASSUME NEW e \in Captures, Unlink(e), files' = Without(PartOf(e))
      PROVE  c \notin Range(files'[name'[c]])
  BY <1>2, <1>7, RemovedFile
<1> QED
  BY <1>3, <1>4, <1>5, <1>6, <1>7, QuietOrTouches DEF Touches

(* Unmixed is preserved: its two halves.                                   *)
LEMMA UnmixedStep ==
    ASSUME TypeOK, Kinds, Made, Apart, CopySoFar, Unmixed, [Next]_vars
    PROVE  Unmixed'
<1>1. ASSUME NEW c \in Copies, c \notin sharing', NEW d \in Copies, d # c,
             pc'[d] = "copying", Part(name'[d]) \in DOMAIN files'
      PROVE  c \notin Range(files'[Part(name'[d])])
  BY <1>1, UnmixedPartStep
<1>2. ASSUME NEW c \in Copies, c \notin sharing', c \notin born',
             name'[c] # None, name'[c] \in DOMAIN files'
      PROVE  c \notin Range(files'[name'[c]])
  BY <1>2, UnmixedTargetStep
<1> QED
  BY <1>1, <1>2 DEF Unmixed, Exists, PartOf

-----------------------------------------------------------------------------
(* The file of a copy that has been moved is the whole of the replay, and  *)
(* stays so.                                                               *)
Whole == \A c \in (Copies \cap born) \ sharing : files[name[c]] = Complete(c)

(* Size blocks of one capture are its complete copy.                       *)
LEMMA CompleteCopy ==
    ASSUME NEW c \in Captures, NEW s \in Seq(Captures), Len(s) = Size,
           Range(s) \subseteq {c}
    PROVE  s = Complete(c) /\ Complete(c) \in Seq(Captures)
<1>1. Size \in Nat
  BY EvidenceAssumption
<1>2. Complete(c) \in Seq(Captures) /\ Len(Complete(c)) = Size
  BY <1>1 DEF Complete
<1>3. ASSUME NEW i \in 1 .. Len(s) PROVE s[i] = Complete(c)[i]
  BY <1>1 DEF Complete, Range
<1> QED
  BY <1>2, <1>3, SeqEqual

(* A target is complete from the replace on.                               *)
LEMMA WholeStep ==
    ASSUME TypeOK, Kinds, Made, Apart, CopySoFar, Whole, [Next]_vars
    PROVE  Whole'
<1> SUFFICES ASSUME NEW c \in Copies, c \in born', c \notin sharing'
             PROVE  files'[name'[c]] = Complete(c)
  BY DEF Whole, Complete
<1>1. c \in Captures /\ c \notin sharing
  BY SharingGrows, EvidenceAssumption
<1>2. CASE c \in born
  <2>1. ~WriteBlock(c)
    BY <1>1 DEF WriteBlock, Kinds
  <2>2. files[name[c]] = Complete(c)
    BY <1>1, <1>2 DEF Whole
  <2> QED
    BY <1>2, <2>1, <2>2, TargetKept
<1>3. CASE c \notin born
  <2>1. Replace(c) /\ Exists(PartOf(c))
    BY <1>3, Birth DEF StartCapture, Live
  <2>2. /\ name' = name /\ Len(progress[c]) = Size /\ pc[c] = "copying"
        /\ files'[name[c]] = files[Part(name[c])]
    BY <1>1, <2>1, MovedFile
  <2>3. files[Part(name[c])] = progress[c] /\ Range(progress[c]) \subseteq {c}
    BY <1>1, <2>2 DEF CopySoFar, PartOf
  <2>4. progress[c] \in Seq(Captures)
    BY <1>1 DEF TypeOK
  <2> QED
    BY <1>1, <2>2, <2>3, <2>4, CompleteCopy
<1> QED
  BY <1>2, <1>3

(* Nobody else's blocks are in the file of a capture.                      *)
LEMMA SurvivesStep ==
    ASSUME TypeOK, Kinds, Made, Apart, CopySoFar, EvidenceSurvives, [Next]_vars
    PROVE  EvidenceSurvives'
<1> SUFFICES ASSUME NEW c \in born', c \notin sharing'
             PROVE  name'[c] \in DOMAIN files' /\ Range(files'[name'[c]]) \subseteq {c}
  BY DEF EvidenceSurvives, Exists
<1>1. c \notin sharing
  BY SharingGrows
<1>2. CASE c \in born
  <2>1. Range(files[name[c]]) \subseteq {c}
    BY <1>1, <1>2 DEF EvidenceSurvives
  <2>2. /\ c \in Captures /\ name'[c] = name[c]
        /\ name[c] \in DOMAIN files /\ name[c] \in DOMAIN files'
        /\ \/ files'[name[c]] = files[name[c]]
           \/ files'[name[c]] = Append(files[name[c]], c)
    BY <1>2, TargetKept
  <2>3. files[name[c]] \in Seq(Captures)
    BY <2>2 DEF TypeOK
  <2>4. Range(Append(files[name[c]], c)) = Range(files[name[c]]) \cup {c}
    BY <2>2, <2>3, AppendBlock
  <2> QED
    BY <2>1, <2>2, <2>4
<1>3. CASE c \notin born
  <2>1. c \in Captures
    BY <1>3, Birth
  <2>2. CASE StartCapture(c)
    <3>1. name' = name /\ files' = With(name[c], <<>>)
      BY <2>2 DEF StartCapture, prepareVars
    <3>2. DOMAIN files' = DOMAIN files \cup {name[c]} /\ files'[name[c]] = <<>>
      BY ONLY <3>1, WithFile
    <3> QED
      BY <3>1, <3>2, EmptyFile
  <2>3. CASE Replace(c) /\ Exists(PartOf(c))
    <3>1. /\ name' = name /\ pc[c] = "copying"
          /\ DOMAIN files' = (DOMAIN files \ {Part(name[c])}) \cup {name[c]}
          /\ files'[name[c]] = files[Part(name[c])]
      BY <2>1, <2>3, MovedFile
    <3>2. c \in Copies
      BY <2>1, <3>1 DEF Kinds, Live
    <3>3. files[Part(name[c])] = progress[c] /\ Range(progress[c]) \subseteq {c}
      BY <1>1, <3>1, <3>2 DEF CopySoFar, PartOf
    <3> QED
      BY <3>1, <3>3
  <2> QED
    BY <1>3, <2>2, <2>3, Birth
<1> QED
  BY <1>2, <1>3

-----------------------------------------------------------------------------
(* While a live capture is finalized its TShark is gone, and what has been *)
(* digested so far is the beginning of the file.                           *)
Hashed ==
    \A c \in (Live \cap born) \ (sharing \cup unclosed) :
        /\ tshark[c] => pc[c] \in {"capturing", "crashed"} /\ metadata[c] = None
        /\ pc[c] = "hashing" =>
              /\ Len(progress[c]) <= Len(files[name[c]])
              /\ \A i \in 1 .. Len(progress[c]) : progress[c][i] = files[name[c]][i]
        /\ pc[c] = "measuring" => progress[c] = files[name[c]]
        /\ metadata[c] # None =>
              metadata[c] = [digest |-> files[name[c]], size |-> Len(files[name[c]])]

(* What a step leaves of a live capture whose file exists already.         *)
LocalKept(c) ==
    /\ pc'[c] \in {pc[c], "crashed"} /\ metadata'[c] = metadata[c]
    /\ tshark'[c] = tshark[c] /\ (pc'[c] = pc[c] => progress'[c] = progress[c])

(* It does one of nine things, or another capture does something.          *)
LEMMA LiveSteps ==
    ASSUME TypeOK, Kinds, [Next]_vars, NEW c \in Live, c \in born
    PROVE  /\ unclosed \subseteq unclosed'
           /\ \/ LocalKept(c)
              \/ CloseCapture(c) \/ TSharkExits(c) \/ Finalize(c)
<1>0. c \in Captures /\ ~Pending(c) /\ pc[c] \notin {"idle", "waiting", "probing"}
  BY DEF TypeOK, Kinds, Live
<1> USE <1>0
<1> USE DEF TypeOK, LocalKept, Pending, Live, vars, prepareVars, captureVars, finalizeVars
<1>1. ASSUME NEW d \in Captures, ReadClock(d)
      PROVE  LocalKept(c) /\ unclosed \subseteq unclosed'
  BY <1>1 DEF ReadClock, Goto
<1>2. ASSUME NEW d \in Captures, EnterLock(d)
      PROVE  LocalKept(c) /\ unclosed \subseteq unclosed'
  BY <1>2 DEF EnterLock, Goto
<1>3. ASSUME NEW d \in Captures, TryNext(d)
      PROVE  LocalKept(c) /\ unclosed \subseteq unclosed'
  BY <1>3 DEF TryNext
<1>4. ASSUME NEW d \in Captures, Choose(d)
      PROVE  LocalKept(c) /\ unclosed \subseteq unclosed'
  BY <1>4 DEF Choose, Goto, Taken
<1>5. ASSUME NEW d \in Captures, CopyFails(d)
      PROVE  LocalKept(c) /\ unclosed \subseteq unclosed'
  BY <1>5 DEF CopyFails, Goto, AfterFailure, Forget
<1>6. ASSUME NEW d \in Captures, NeverStarted(d)
      PROVE  LocalKept(c) /\ unclosed \subseteq unclosed'
  BY <1>6 DEF NeverStarted, Goto
<1>7. ASSUME NEW d \in Captures, CloseCapture(d), d # c
      PROVE  LocalKept(c) /\ unclosed \subseteq unclosed'
  BY <1>7 DEF CloseCapture, Goto
<1>8. ASSUME NEW d \in Captures, TSharkExits(d), d # c
      PROVE  LocalKept(c) /\ unclosed \subseteq unclosed'
  BY <1>8 DEF TSharkExits
<1>9. ASSUME NEW d \in Captures, NothingToFinalize(d), d # c
      PROVE  LocalKept(c) /\ unclosed \subseteq unclosed'
  BY <1>9 DEF NothingToFinalize, Goto, SessionOver
<1>10. ASSUME NEW d \in Captures, OpenEvidence(d), d # c
      PROVE  LocalKept(c) /\ unclosed \subseteq unclosed'
  BY <1>10 DEF OpenEvidence, Goto, SessionOver
<1>11. ASSUME NEW d \in Captures, HashChunk(d), d # c
      PROVE  LocalKept(c) /\ unclosed \subseteq unclosed'
  BY <1>11 DEF HashChunk, Goto
<1>12. ASSUME NEW d \in Captures, Measure(d), d # c
      PROVE  LocalKept(c) /\ unclosed \subseteq unclosed'
  BY <1>12 DEF Measure, Goto, Forget
<1>13. ASSUME NEW d \in Captures, FinalizeFails(d), d # c
      PROVE  LocalKept(c) /\ unclosed \subseteq unclosed'
  BY <1>13 DEF FinalizeFails, Goto, Forget
<1>14. ASSUME NEW d \in Captures, FinalizeAgain(d), d # c
      PROVE  LocalKept(c) /\ unclosed \subseteq unclosed'
  BY <1>14 DEF FinalizeAgain, Goto
<1>15. ASSUME NEW d \in Captures, OpenPart(d)
      PROVE  LocalKept(c) /\ unclosed \subseteq unclosed'
  BY <1>15 DEF OpenPart, Goto
<1>16. ASSUME NEW d \in Captures, CopyBlock(d)
      PROVE  LocalKept(c) /\ unclosed \subseteq unclosed'
  BY <1>16 DEF CopyBlock
<1>17. ASSUME NEW d \in Captures, Replace(d)
      PROVE  LocalKept(c) /\ unclosed \subseteq unclosed'
  BY <1>17 DEF Replace, Goto, Forget
<1>18. ASSUME NEW d \in Captures, Unlink(d)
      PROVE  LocalKept(c) /\ unclosed \subseteq unclosed'
  BY <1>18 DEF Unlink, Goto
<1>19. ASSUME NEW d \in Captures, StartCapture(d)
      PROVE  LocalKept(c) /\ unclosed \subseteq unclosed'
  BY <1>19 DEF StartCapture, Goto
<1>20. ASSUME NEW d \in Captures, WriteBlock(d)
      PROVE  LocalKept(c) /\ unclosed \subseteq unclosed'
  BY <1>20 DEF WriteBlock
<1>21. ASSUME CloseCapture(c) \/ TSharkExits(c) \/ Finalize(c)
      PROVE  unclosed \subseteq unclosed'
  BY <1>21 DEF CloseCapture, TSharkExits, Finalize, NothingToFinalize, OpenEvidence,
     HashChunk, Measure, FinalizeFails, FinalizeAgain
<1>22. ASSUME NEW w \in Writers, Crash(w)
      PROVE  LocalKept(c) /\ unclosed \subseteq unclosed'
  <2>1. /\ pc'[c] = "crashed" \/ (pc'[c] = pc[c] /\ progress'[c] = progress[c])
        /\ pc[c] = "crashed" => progress'[c] = progress[c]
        /\ metadata' = metadata /\ tshark' = tshark /\ unclosed' = unclosed
    BY <1>22 DEF Crash, Ended
  <2> QED
    BY <2>1
<1>23. CASE UNCHANGED vars
  BY <1>23
<1> HIDE DEF TypeOK, LocalKept, vars
<1> QED
  BY <1>1, <1>2, <1>3, <1>4, <1>5, <1>6, <1>7, <1>8, <1>9, <1>10, <1>11, <1>12, <1>13,
     <1>14, <1>15, <1>16, <1>17, <1>18, <1>19, <1>20, <1>21, <1>22, <1>23
     DEF Next, Prepare, Copy, Capture, Finalize

(* The four conjuncts, of one capture whose file has the blocks given.     *)
InOrder(c, file) ==
    /\ tshark[c] => pc[c] \in {"capturing", "crashed"} /\ metadata[c] = None
    /\ pc[c] = "hashing" =>
          /\ Len(progress[c]) <= Len(file)
          /\ \A i \in 1 .. Len(progress[c]) : progress[c][i] = file[i]
    /\ pc[c] = "measuring" => progress[c] = file
    /\ metadata[c] # None => metadata[c] = [digest |-> file, size |-> Len(file)]

(* Hashed, capture by capture.                                             *)
LEMMA HashedParts ==
    Hashed <=> \A c \in (Live \cap born) \ (sharing \cup unclosed) :
                  InOrder(c, files[name[c]])
  BY DEF Hashed, InOrder

(* Closing a live capture, or the exit of tshark, keeps the order of       *)
(* writing, closing and hashing.                                           *)
LEMMA CloseStep ==
    ASSUME TypeOK, Kinds, NEW c \in Live, NEW file, InOrder(c, file),
           c \notin unclosed', CloseCapture(c) \/ TSharkExits(c)
    PROVE  InOrder(c, file)'
<1>1. c \in Captures /\ tshark \in [Captures -> BOOLEAN]
  BY Zenon DEF Live, TypeOK
<1>2. tshark' = [tshark EXCEPT ![c] = FALSE]
  BY <1>1 DEF CloseCapture, TSharkExits
<1>3. tshark'[c] = FALSE
  BY Zenon, <1>1, <1>2
<1>4. CASE CloseCapture(c)
  <2>1. pc'[c] = "closed" /\ metadata' = metadata
    BY <1>1, <1>4 DEF CloseCapture, Goto, finalizeVars, TypeOK
  <2> QED
    BY <1>3, <2>1 DEF InOrder
<1>5. CASE TSharkExits(c)
  <2>1. pc' = pc /\ metadata' = metadata /\ progress' = progress
    BY <1>5 DEF TSharkExits, finalizeVars
  <2> QED
    BY <1>3, <2>1 DEF InOrder
<1> QED
  BY <1>4, <1>5

(* Finalizing hashes the file as it is.                                    *)
LEMMA FinalizeStep ==
    ASSUME TypeOK, NEW c \in Live, NEW file \in Seq(Captures),
           file = files[name[c]], InOrder(c, file), Finalize(c)
    PROVE  InOrder(c, file)'
<1>1. c \in Captures
  BY DEF Live
<1>2. /\ tshark' = tshark /\ ~tshark[c]
  BY DEF InOrder, Finalize, NothingToFinalize, OpenEvidence, HashChunk, Measure,
         FinalizeFails, FinalizeAgain, SessionOver, captureVars
<1>3. progress[c] \in Seq(Captures)
  BY <1>1 DEF TypeOK
<1>4. CASE NothingToFinalize(c) \/ FinalizeFails(c) \/ FinalizeAgain(c)
  <2>1. pc'[c] \in {"done", "closed"} /\ metadata' = metadata
    BY <1>1, <1>4 DEF NothingToFinalize, FinalizeFails, FinalizeAgain, Goto,
                      finalizeVars, TypeOK
  <2> QED
    BY <1>2, <2>1 DEF InOrder
<1>5. CASE OpenEvidence(c)
  <2>1. pc'[c] = "hashing" /\ metadata' = metadata /\ progress'[c] = <<>>
    BY <1>1, <1>5 DEF OpenEvidence, Goto, TypeOK
  <2> QED
    BY <1>2, <2>1, EmptyFile DEF InOrder
<1>6. CASE HashChunk(c)
  <2>1. /\ Len(progress[c]) <= Len(file)
        /\ \A i \in 1 .. Len(progress[c]) : progress[c][i] = file[i]
        /\ metadata' = metadata
    BY <1>6 DEF HashChunk, InOrder
  <2>2. Len(progress[c]) \in Nat /\ Len(file) \in Nat
    BY <1>3
  <2>3. CASE Len(progress[c]) < Len(file)
    <3>1. /\ pc' = pc /\ pc[c] = "hashing"
          /\ progress'[c] = Append(progress[c], file[Len(progress[c]) + 1])
      BY <1>1, <1>6, <2>3 DEF HashChunk, TypeOK
    <3>2. file[Len(progress[c]) + 1] \in Captures
      BY <2>2, <2>3
    <3>3. /\ Len(progress'[c]) = Len(progress[c]) + 1
          /\ \A i \in 1 .. Len(progress[c]) : progress'[c][i] = progress[c][i]
          /\ progress'[c][Len(progress[c]) + 1] = file[Len(progress[c]) + 1]
      BY <1>3, <3>1, <3>2, AppendBlock
    <3>4. /\ Len(progress'[c]) <= Len(file)
          /\ \A i \in 1 .. Len(progress'[c]) : progress'[c][i] = file[i]
      BY ONLY <2>1, <2>2, <2>3, <3>3
    <3> QED
      BY <1>2, <2>1, <3>1, <3>4 DEF InOrder
  <2>4. CASE ~(Len(progress[c]) < Len(file))
    <3>1. pc'[c] = "measuring" /\ progress' = progress
      BY <1>1, <1>6, <2>4 DEF HashChunk, Goto, TypeOK
    <3>2. progress[c] = file
      BY <1>3, <2>1, <2>2, <2>4, SeqEqual
    <3> QED
      BY <1>2, <2>1, <3>1, <3>2 DEF InOrder
  <2> QED
    BY <2>3, <2>4
<1>7. CASE Measure(c)
  <2>1. /\ pc[c] = "measuring" /\ pc'[c] = "done"
        /\ metadata'[c] = [digest |-> progress[c], size |-> Len(file)]
    BY <1>1, <1>7 DEF Measure, Goto, TypeOK
  <2>2. progress[c] = file
    BY <2>1 DEF InOrder
  <2> QED
    BY <1>2, <2>1, <2>2 DEF InOrder
<1> QED
  BY <1>4, <1>5, <1>6, <1>7 DEF Finalize

(* Every step keeps metadata and file in step.                             *)
LEMMA HashedStep ==
    ASSUME TypeOK, Kinds, Made, Apart, Hashed, [Next]_vars
    PROVE  Hashed'
<1>0. SUFFICES ASSUME NEW c \in Live, c \in born', c \notin sharing', c \notin unclosed'
               PROVE  InOrder(c, files[name[c]])'
  BY DEF Hashed, InOrder
<1>1. c \in Captures
  BY DEF Live
<1>2. CASE c \notin born
  <2>1. StartCapture(c)
    BY <1>0, <1>1, <1>2, Birth DEF Replace, Kinds
  <2>2. pc[c] = "prepared" /\ pc'[c] = "capturing" /\ metadata' = metadata
    BY <1>1, <2>1 DEF StartCapture, Goto, finalizeVars, TypeOK
  <2>3. metadata[c] = None
    BY <1>1, <2>2 DEF Kinds, Pending
  <2> QED
    BY <2>2, <2>3 DEF InOrder
<1>3. CASE c \in born
  <2>1. /\ c \notin sharing /\ name'[c] = name[c] /\ name[c] \in DOMAIN files
        /\ \/ files'[name[c]] = files[name[c]]
           \/ WriteBlock(c) /\ files'[name[c]] = Append(files[name[c]], c)
    BY <1>0, <1>3, TargetKept
  <2>2. /\ unclosed \subseteq unclosed'
        /\ \/ LocalKept(c)
           \/ CloseCapture(c) \/ TSharkExits(c) \/ Finalize(c)
    BY <1>3, LiveSteps
  <2>3. PICK file \in Seq(Captures) : file = files[name[c]]
    BY <2>1 DEF TypeOK
  <2>4. InOrder(c, file)
    BY <1>0, <1>3, <2>1, <2>2, <2>3, HashedParts
  <2>5. CASE files'[name[c]] = files[name[c]]
    <3>1. CASE LocalKept(c)
      BY <2>1, <2>3, <2>4, <2>5, <3>1 DEF LocalKept, InOrder
    <3>2. CASE CloseCapture(c) \/ TSharkExits(c)
      <4>1. InOrder(c, file)'
        BY <1>0, <2>4, <3>2, CloseStep
      <4> QED
        BY <2>1, <2>3, <2>5, <4>1 DEF InOrder
    <3>3. CASE Finalize(c)
      <4>1. InOrder(c, file)'
        BY <2>3, <2>4, <3>3, FinalizeStep
      <4> QED
        BY <2>1, <2>3, <2>5, <4>1 DEF InOrder
    <3> QED
      BY <2>2, <3>1, <3>2, <3>3
  <2>6. CASE WriteBlock(c)
    <3>1. pc' = pc /\ metadata' = metadata /\ tshark' = tshark /\ tshark[c]
      BY <2>6 DEF WriteBlock, captureVars, finalizeVars
    <3>2. pc[c] \in {"capturing", "crashed"} /\ metadata[c] = None
      BY <2>4, <3>1 DEF InOrder
    <3> QED
      BY <3>1, <3>2 DEF InOrder
  <2> QED
    BY <2>1, <2>5, <2>6
<1> QED
  BY <1>2, <1>3

-----------------------------------------------------------------------------
(* The inductive invariant.                                                *)
IInv ==
    /\ TypeOK /\ Kinds /\ Made /\ Apart /\ OwnFiles /\ NoLeftovers
    /\ CopySoFar /\ Unmixed /\ Whole /\ EvidenceSurvives /\ Hashed

(* At the start there are no files.                                        *)
LEMMA InitIInv == Init => IInv
<1> SUFFICES ASSUME Init PROVE IInv
  OBVIOUS
<1>1. /\ files = <<>> /\ born = {} /\ sharing = {} /\ unclosed = {}
      /\ \A c \in Captures :
            /\ pc[c] = "idle" /\ name[c] = None /\ metadata[c] = None
            /\ lock[WriterOf[c]] = Nobody /\ ~tshark[c]
  BY EvidenceAssumption DEF Init
<1>2. DOMAIN files = {}
  BY <1>1
<1>3. TypeOK
  <2>1. FilesType /\ Links
    BY <1>1, <1>2, EvidenceAssumption DEF FilesType, Links
  <2>2. CallType /\ HistoryType
    BY EmptyFile, EvidenceAssumption DEF Init, CallType, HistoryType, Points, Live
  <2>3. SharkType
    BY DEF Init, SharkType
  <2> QED
    BY <2>1, <2>2, <2>3
       DEF TypeOK, FilesType, Links, CallType, HistoryType, SharkType
<1>4. Kinds /\ Made /\ Apart
  BY <1>1 DEF Kinds, Made, Apart, Active, Pending, Live
<1>5. OwnFiles /\ NoLeftovers
  BY <1>2 DEF OwnFiles, NoLeftovers
<1>6. CopySoFar /\ Unmixed /\ Whole /\ EvidenceSurvives /\ Hashed
  BY <1>1, EvidenceAssumption DEF CopySoFar, Unmixed, Whole, EvidenceSurvives, Hashed
<1> QED
  BY <1>3, <1>4, <1>5, <1>6 DEF IInv

(* Every state of the writers satisfies it.                                *)
THEOREM InductiveInvariant == Spec => []IInv
<1>1. IInv /\ [Next]_vars => IInv'
  <2> SUFFICES ASSUME IInv, [Next]_vars PROVE IInv'
    OBVIOUS
  <2>1. TypeOK' /\ Kinds' /\ (Made /\ Apart)'
    BY TypeStep, KindsStep, NamesStep DEF IInv
  <2>2. OwnFiles' /\ NoLeftovers'
    BY OwnFilesStep, LeftoversStep DEF IInv
  <2>3. CopySoFar' /\ Unmixed' /\ Whole' /\ EvidenceSurvives' /\ Hashed'
    BY CopySoFarStep, UnmixedStep, WholeStep, SurvivesStep, HashedStep DEF IInv
  <2> QED
    BY <2>1, <2>2, <2>3 DEF IInv
<1> QED
  BY InitIInv, <1>1, PTL DEF Spec

-----------------------------------------------------------------------------
(* The state keeps its type: in particular the lock of a writer is held by *)
(* the capture that is looking for a name and by no other, and a capture   *)
(* has a name from then on.                                                *)
THEOREM TypeCorrect == Spec => []TypeOK
  BY InductiveInvariant, PTL DEF IInv

(* prepare_live_capture and copy_replay_evidence never let one capture     *)
(* overwrite, truncate or remove the file of another, of whichever process *)
(* and whatever crashes, unless two of them were given one name before     *)
(* either had created its file.                                            *)
THEOREM NeverOverwritten == Spec => []EvidenceSurvives
  BY InductiveInvariant, PTL DEF IInv

(* copy_replay_evidence is atomic: no file but its own .part file ever has *)
(* some of the blocks of a replay and not all of them.                     *)
THEOREM AtomicCopy == Spec => []CopyIsAtomic
<1>1. IInv => CopyIsAtomic
  <2> SUFFICES ASSUME IInv, NEW c \in Copies, c \notin sharing,
                      NEW f \in DOMAIN files, ~f.part, c \in Range(files[f])
               PROVE  files[f] = Complete(c)
    BY DEF CopyIsAtomic
  <2>1. c \in Captures
    BY EvidenceAssumption
  <2>2. name[c] # None /\ f \in {name[c], Part(name[c])}
    BY <2>1 DEF IInv, OwnFiles, PartOf
  <2>3. name[c] \in Targets
    BY <2>1, <2>2 DEF IInv, TypeOK
  <2>4. f = name[c]
    BY <2>2, <2>3, PartNames
  <2>5. c \in born
    BY <2>2, <2>4 DEF IInv, Unmixed, Exists
  <2> QED
    BY <2>4, <2>5 DEF IInv, Whole
<1> QED
  BY InductiveInvariant, <1>1, PTL

(* A replay copy that has returned or raised leaves no .part file, unless  *)
(* the unlink of its cleanup failed or the process died.                   *)
THEOREM PartsAccounted == Spec => []NoLeftovers
  BY InductiveInvariant, PTL DEF IInv

(* finalize describes the file as it stands then and afterwards: digest    *)
(* and size agree with it and with each other, although they are read one  *)
(* after the other and without the lock.                                   *)
THEOREM MetadataTrue == Spec => []MetadataDescribesFile
<1>1. IInv => MetadataDescribesFile
  BY DEF IInv, Hashed, MetadataDescribesFile
<1> QED
  BY InductiveInvariant, <1>1, PTL
=============================================================================
