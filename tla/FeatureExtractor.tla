-------------------------- MODULE FeatureExtractor --------------------------
(***************************************************************************)
(* FeatureExtractor of wids/capture/feature_extractor.py: one sliding      *)
(* window per configured length, each a deque of entries, a dictionary of  *)
(* groups (frames taken for copies of one another) and counters that are   *)
(* incremented when a group appears and decremented when it vanishes.      *)
(*                                                                         *)
(* Every method runs under one lock, so each is one action.  A frame is    *)
(* its time, its retry identity (NoIdentity when it has no sequence        *)
(* control), its retry flag and its content: what the counters count it    *)
(* under.  The six Counters of the code are one here, over keys of all     *)
(* six kinds.                                                              *)
(***************************************************************************)
EXTENDS Integers, Sequences, FiniteSets, FiniteSetsExt

CONSTANTS
    Windows,        \* lengths of the configured windows, in ticks
    Identities,     \* retry identities
    NoIdentity,
    Contents,       \* distinguishable contents of frames
    CounterKeys,    \* keys of the counters
    Subtypes,       \* those among them that are frame subtypes
    CountedUnder,   \* which keys a content is counted under
    Transmitters,
    TransmitterOf,  \* transmitter address of a content
    Frames,         \* frames on the air: [identity, content, retry]
    MaxTime,        \* bound: ticks of the clock
    MaxFrames       \* bound: frames between two resets

ASSUME ExtractorAssumption ==
    /\ Windows \subseteq Nat \ {0} /\ Windows # {} /\ IsFiniteSet(Windows)
    /\ NoIdentity \notin Identities
    \* A group key ("frame", frame_id) is never a retry identity.
    /\ Identities \cap Nat = {}
    /\ Subtypes \subseteq CounterKeys
    /\ CountedUnder \in [Contents -> SUBSET CounterKeys]
    /\ TransmitterOf \in [Contents -> Transmitters]
    /\ Frames \subseteq [identity : Identities \cup {NoIdentity},
                         content : Contents, retry : BOOLEAN]
    \* An identity holds the transmitter and the subtype of its frame.
    /\ \A f, g \in Frames : f.identity = g.identity /\ f.identity # NoIdentity =>
          /\ TransmitterOf[f.content] = TransmitterOf[g.content]
          /\ CountedUnder[f.content] \cap Subtypes
                = CountedUnder[g.content] \cap Subtypes
    \* Every frame has one subtype.
    /\ \A k \in Contents : \E t \in Subtypes : CountedUnder[k] \cap Subtypes = {t}
    /\ MaxTime \in Nat /\ MaxFrames \in Nat

VARIABLES
    windows,         \* _states: the window of each length
    observedThrough, \* _observed_through, Never before the first frame
    deduplicated,    \* retry_deduplicated of the last update
    log              \* history: the frames ingested since the last reset

vars == <<windows, observedThrough, deduplicated, log>>

-----------------------------------------------------------------------------
Never == -1

(* _group_key: a frame without sequence control is a group of its own.     *)
GroupKeys == Identities \cup (1 .. MaxFrames)
GroupKey(f) == IF f.identity = NoIdentity THEN Len(log) + 1 ELSE f.identity

Entries == [at : 0 .. MaxTime, key : GroupKeys]
Groups == [content : Contents, occurrences : Nat \ {0}]

IsWindow(win) ==
    /\ win.entries \in Seq(Entries)
    /\ DOMAIN win.groups \subseteq GroupKeys
    /\ \A k \in DOMAIN win.groups : win.groups[k] \in Groups
    /\ win.counts \in [CounterKeys -> Nat]

TypeOK ==
    /\ DOMAIN windows = Windows
    /\ \A w \in Windows : IsWindow(windows[w])
    /\ observedThrough \in 0 .. MaxTime \cup {Never}
    /\ deduplicated \in BOOLEAN
    /\ log \in Seq([at : 0 .. MaxTime, key : GroupKeys, content : Contents,
                   retry : BOOLEAN])

EmptyWindow == [entries |-> <<>>, groups |-> <<>>,
                counts |-> [c \in CounterKeys |-> 0]]

Init ==
    /\ windows = [w \in Windows |-> EmptyWindow]
    /\ observedThrough = Never
    /\ deduplicated = FALSE
    /\ log = <<>>

-----------------------------------------------------------------------------
(* _WindowState *)

(* The entries that expire pops: those before the first one that the       *)
(* window still contains.  An entry as old as the window stays.            *)
ExpiredLate(e, cutoff) == e.at <= cutoff
Expired(e, cutoff) == e.at < cutoff

Popped(win, cutoff) ==
    Max({n \in 0 .. Len(win.entries) :
            \A i \in 1 .. n : Expired(win.entries[i], cutoff)})

(* What the counters lose with the groups that vanish.                     *)
DecrementNothing(win, gone) == win.counts
Decrement(win, gone) ==
    [c \in CounterKeys |->
        win.counts[c]
            - Cardinality({k \in gone : c \in CountedUnder[win.groups[k].content]})]

Expire(win, cutoff) ==
    LET n == Popped(win, cutoff)
        popped(k) == Cardinality({i \in 1 .. n : win.entries[i].key = k})
        gone == {k \in DOMAIN win.groups : win.groups[k].occurrences = popped(k)}
    IN  [entries |-> SubSeq(win.entries, n + 1, Len(win.entries)),
         groups |-> [k \in DOMAIN win.groups \ gone |->
                        [win.groups[k] EXCEPT !.occurrences = @ - popped(k)]],
         counts |-> Decrement(win, gone)]

OpenEmptyGroup(win, key, content) ==
    [k \in DOMAIN win.groups \cup {key} |->
        IF k = key THEN [content |-> content, occurrences |-> 0] ELSE win.groups[k]]

(* A group remembers the content of the frame that opened it.              *)
OpenGroup(win, key, content) ==
    [k \in DOMAIN win.groups \cup {key} |->
        IF k = key THEN [content |-> content, occurrences |-> 1] ELSE win.groups[k]]

Increment(win, content) ==
    [c \in CounterKeys |->
        win.counts[c] + IF c \in CountedUnder[content] THEN 1 ELSE 0]

Repeat(win, key) ==
    [win EXCEPT !.groups[key].occurrences = @ + 1]

Known(win, key) == key \in DOMAIN win.groups

Insert(win, key, content) ==
    IF Known(win, key) THEN Repeat(win, key)
    ELSE [win EXCEPT !.groups = OpenGroup(win, key, content),
                     !.counts = Increment(win, content)]

AddUnlessKnown(win, at, key, content) ==
    IF Known(win, key) THEN Repeat(win, key)
    ELSE [Insert(win, key, content) EXCEPT
            !.entries = Append(@, [at |-> at, key |-> key])]
Add(win, at, key, content) ==
    [Insert(win, key, content) EXCEPT
        !.entries = Append(@, [at |-> at, key |-> key])]

(* snapshot: frame_count, the sum over the subtypes (the size of disjoint  *)
(* sets together), and the times at which a transmitter was seen; the      *)
(* contents stand for the channel, security and role sets.                 *)
FrameCount(win) == Cardinality(UNION {{t} \X (1 .. win.counts[t]) : t \in Subtypes})

SeenAt(win, tx) ==
    {win.entries[i].at : i \in {j \in 1 .. Len(win.entries) :
        TransmitterOf[win.groups[win.entries[j].key].content] = tx}}

Described(win) == {win.groups[k].content : k \in DOMAIN win.groups}

-----------------------------------------------------------------------------
(* FeatureExtractor *)

ExpireAll(t) == [w \in Windows |-> Expire(windows[w], t - w)]

InOrder(t) == observedThrough = Never \/ t >= observedThrough

RecognisedEarly(f, expired) == f.retry /\ \E w \in Windows : Known(windows[w], GroupKey(f))
Recognised(f, expired) == f.retry /\ \E w \in Windows : Known(expired[w], GroupKey(f))

Ingest(f, t) ==
    /\ Len(log) < MaxFrames
    /\ InOrder(t)
    /\ LET key == GroupKey(f)
           expired == ExpireAll(t)
       IN  /\ windows' = [w \in Windows |-> Add(expired[w], t, key, f.content)]
           /\ deduplicated' = Recognised(f, expired)
           /\ log' = Append(log, [at |-> t, key |-> key, content |-> f.content,
                                  retry |-> f.retry])
    /\ observedThrough' = t

(* "FeatureExtractor requires nondecreasing observed_at values"            *)
RejectFrame(t) ==
    /\ ~InOrder(t)
    /\ UNCHANGED vars

(* snapshots(observed_through=t), or at the time last observed.            *)
Snapshots(t) ==
    /\ InOrder(t)
    /\ windows' = ExpireAll(t)
    /\ observedThrough' = t
    /\ UNCHANGED <<deduplicated, log>>

ResetLog == log' = <<>>

(* Called by CaptureManager._begin for every session.                      *)
Reset ==
    /\ windows' = [w \in Windows |-> EmptyWindow]
    /\ observedThrough' = Never
    /\ deduplicated' = FALSE
    /\ ResetLog

Next ==
    \/ \E t \in 0 .. MaxTime :
          \/ \E f \in Frames : Ingest(f, t)
          \/ RejectFrame(t)
          \/ Snapshots(t)
    \/ Reset

Spec == Init /\ [][Next]_vars

-----------------------------------------------------------------------------
(* Properties: what a window holds, said from the log of all the frames.   *)

InWindow(w) == {i \in DOMAIN log : log[i].at >= observedThrough - w}

KeysInWindow(w) == {log[i].key : i \in InWindow(w)}

(* However the entries came and went, a window counts each group of frames *)
(* once while a frame of the group lies in the window, and not longer.     *)
CountsWindow ==
    \A w \in Windows :
        /\ DOMAIN windows[w].groups = KeysInWindow(w)
        /\ FrameCount(windows[w]) = Cardinality(KeysInWindow(w))

(* The counters are the sums over the groups: no increment is left over    *)
(* from a group that expired.                                              *)
CountersMatchGroups ==
    \A w \in Windows, c \in CounterKeys :
        windows[w].counts[c] =
            Cardinality({k \in DOMAIN windows[w].groups :
                            c \in CountedUnder[windows[w].groups[k].content]})

(* The times a transmitter was seen are those of all its frames in the     *)
(* window, the duplicates included ("Retries remain useful for observation *)
(* timing"), so first_seen and last_seen are their extremes.               *)
SeenTimesExact ==
    \A w \in Windows, tx \in Transmitters :
        SeenAt(windows[w], tx) =
            {log[i].at : i \in {j \in InWindow(w) : TransmitterOf[log[j].content] = tx}}

(* retry_deduplicated of the last update is true exactly for a retry whose *)
(* group had a frame within the longest window before it.                  *)
RetryKnown ==
    LET n == Len(log)
    IN  deduplicated <=>
            n > 0 /\ log[n].retry
                  /\ \E i \in 1 .. n - 1 :
                        log[i].key = log[n].key /\ log[i].at >= log[n].at - Max(Windows)

(* FeatureSnapshot docstring: "Immutable features for one configured time  *)
(* window."  What a snapshot describes was observed in its window.         *)
DescribesWindow ==
    \A w \in Windows :
        Described(windows[w]) \subseteq {log[i].content : i \in InWindow(w)}
=============================================================================
