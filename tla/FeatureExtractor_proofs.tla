----------------------- MODULE FeatureExtractor_proofs -----------------------
(***************************************************************************)
(* Proofs about FeatureExtractor, for any windows, frames, contents and    *)
(* counters, and any number of frames between two resets.                  *)
(***************************************************************************)
EXTENDS FeatureExtractor, FiniteSetTheorems, FunctionTheorems, SequenceTheorems,
        TLAPS

-----------------------------------------------------------------------------
(* Finite sets.                                                            *)

(* A finite set of numbers has a greatest element: the set of the elements *)
(* above x is minimal for some x, and it is empty.                         *)
LEMMA FiniteMax ==
    ASSUME NEW S \in SUBSET Int, IsFiniteSet(S), S # {}
    PROVE  Max(S) \in S /\ \A y \in S : Max(S) >= y
<1> DEFINE Above(x) == {y \in S : y > x}
           T == {Above(x) : x \in S}
<1>1. IsWellFoundedOn(StrictSubsetOrdering(S), SUBSET S)
  BY FS_StrictSubsetOrderingWellFounded, FS_FiniteSubsetsOfFinite
<1>2. T \subseteq SUBSET S /\ T # {}
  OBVIOUS
<1>3. \E A \in T : \A B \in T : <<B, A>> \notin StrictSubsetOrdering(S)
  <2> HIDE DEF T
  <2> QED
    BY <1>1, <1>2, WFMin
<1>4. PICK x \in S : \A B \in T : <<B, Above(x)>> \notin StrictSubsetOrdering(S)
  BY <1>3
<1>5. \A y \in S : x >= y
  <2> SUFFICES ASSUME NEW y \in S, y > x PROVE FALSE
    OBVIOUS
  <2>1. Above(y) \subseteq Above(x) /\ y \in Above(x) /\ y \notin Above(y)
    <3>1. \A z \in S : z \in Int
      OBVIOUS
    <3>2. \A z \in S : z > y => z > x
      BY <3>1
    <3>3. ~(y > y)
      BY <3>1
    <3> HIDE DEF T
    <3> QED
      BY <3>2, <3>3
  <2>2. <<Above(y), Above(x)>> \in StrictSubsetOrdering(S)
    BY <2>1 DEF StrictSubsetOrdering
  <2> QED
    BY <1>4, <2>2
<1>6. \E z \in S : \A y \in S : z >= y
  BY <1>5
<1> QED
  BY <1>6 DEF Max

(* The positions at which a condition holds.                               *)
Where(s, k) == {i \in 1 .. Len(s) : s[i].key = k}

(* There are finitely many of them.                                        *)
LEMMA WhereFinite ==
    ASSUME NEW s \in Seq(Entries), NEW k
    PROVE  IsFiniteSet(Where(s, k)) /\ Cardinality(Where(s, k)) \in Nat
<1>1. IsFiniteSet(1 .. Len(s))
  BY FS_Interval
<1>2. Where(s, k) \in SUBSET (1 .. Len(s))
  BY DEF Where
<1> QED
  BY <1>1, <1>2, FS_Subset, FS_CardinalityType

(* Dropping the first n entries of a window.                               *)
LEMMA DropFirst ==
    ASSUME NEW s \in Seq(Entries), NEW n \in 0 .. Len(s)
    PROVE  /\ SubSeq(s, n + 1, Len(s)) \in Seq(Entries)
           /\ Len(SubSeq(s, n + 1, Len(s))) = Len(s) - n
           /\ \A i \in 1 .. Len(s) - n : SubSeq(s, n + 1, Len(s))[i] = s[n + i]
<1>1. \A i \in n + 1 .. Len(s) : s[i] \in Entries
  OBVIOUS
<1>2. n + 1 \in Int /\ Len(s) \in Int /\ n \in Int
  OBVIOUS
<1> DEFINE r == SubSeq(s, n + 1, Len(s))
<1>3. /\ r \in Seq(Entries)
      /\ Len(r) = IF n + 1 <= Len(s) THEN Len(s) - (n + 1) + 1 ELSE 0
      /\ \A i \in 1 .. Len(s) - (n + 1) + 1 : r[i] = s[n + 1 + i - 1]
  BY <1>1, <1>2, SubSeqProperties
<1>4. Len(s) - (n + 1) + 1 = Len(s) - n /\ n <= Len(s)
  BY <1>2
<1>5. \A i \in 1 .. Len(s) - n : n + 1 + i - 1 = n + i
  BY <1>2
<1> HIDE DEF r
<1>6. Len(r) = Len(s) - n
  <2>1. CASE n + 1 <= Len(s)
    BY <1>3, <1>4, <2>1
  <2>2. CASE ~(n + 1 <= Len(s))
    <3>1. Len(r) = 0
      BY ONLY <1>3, <2>2
    <3>2. Len(s) - n = 0
      <4>1. \A m, l \in Int : m <= l /\ ~(m + 1 <= l) => l - m = 0
        OBVIOUS
      <4> QED
        BY ONLY <1>2, <1>4, <2>2, <4>1
    <3> QED
      BY ONLY <3>1, <3>2
  <2> QED
    BY <2>1, <2>2
<1>7. \A i \in 1 .. Len(s) - n : r[i] = s[n + i]
  BY <1>3, <1>4, <1>5
<1> QED
  BY <1>3, <1>6, <1>7 DEF r

(* A key occurs among the entries dropped and among those left as often as *)
(* among all.                                                              *)
LEMMA SplitCount ==
    ASSUME NEW s \in Seq(Entries), NEW n \in 0 .. Len(s), NEW k
    PROVE  /\ Cardinality({i \in 1 .. n : s[i].key = k}) \in Nat
           /\ Cardinality(Where(s, k)) =
                Cardinality({i \in 1 .. n : s[i].key = k})
                  + Cardinality(Where(SubSeq(s, n + 1, Len(s)), k))
<1> DEFINE r == SubSeq(s, n + 1, Len(s))
           A == {i \in 1 .. n : s[i].key = k}
           B == {i \in n + 1 .. Len(s) : s[i].key = k}
           f == [j \in Where(r, k) |-> j + n]
<1>1. r \in Seq(Entries) /\ Len(r) = Len(s) - n
      /\ \A i \in 1 .. Len(s) - n : r[i] = s[n + i]
  BY DropFirst
<1>2. IsFiniteSet(A) /\ IsFiniteSet(B)
  <2>1. IsFiniteSet(1 .. n) /\ IsFiniteSet(n + 1 .. Len(s))
    BY FS_Interval
  <2>2. A \in SUBSET (1 .. n) /\ B \in SUBSET (n + 1 .. Len(s))
    OBVIOUS
  <2> QED
    BY <2>1, <2>2, FS_Subset
<1>3. A \cup B = Where(s, k) /\ A \cap B = {}
  BY DEF Where
<1>4. Cardinality(Where(s, k)) = Cardinality(A) + Cardinality(B)
  <2>1. Cardinality(A) \in Nat /\ Cardinality(B) \in Nat /\ Cardinality({}) = 0
    BY <1>2, FS_CardinalityType, FS_EmptySet
  <2> HIDE DEF A, B
  <2>2. Cardinality(A \cup B)
           = Cardinality(A) + Cardinality(B) - Cardinality(A \cap B)
    BY <1>2, FS_Union
  <2>3. Cardinality(A \cup B) = Cardinality(Where(s, k))
    BY <1>3, Zenon
  <2>4. Cardinality(A \cap B) = 0
    BY <1>3, <2>1, Zenon
  <2> QED
    BY ONLY <2>1, <2>2, <2>3, <2>4
<1>5. Cardinality(B) = Cardinality(Where(r, k))
  <2> HIDE DEF r
  <2>1. \A j \in Where(r, k) : j + n \in B
    BY <1>1 DEF Where
  <2>2. \A i \in B : i - n \in Where(r, k) /\ (i - n) + n = i
    BY <1>1 DEF Where
  <2>3. \A i, j \in Where(r, k) : i + n = j + n => i = j
    BY <1>1 DEF Where
  <2>4. f \in Bijection(Where(r, k), B)
    <3>1. f \in [Where(r, k) -> B]
      BY <2>1
    <3>2. f \in Injection(Where(r, k), B)
      BY <2>3, <3>1 DEF Injection, IsInjective
    <3>3. f \in Surjection(Where(r, k), B)
      BY <2>2, <3>1 DEF Surjection
    <3> QED
      BY <3>2, <3>3 DEF Bijection
  <2>5. IsFiniteSet(Where(r, k))
    BY <1>1, WhereFinite
  <2> HIDE DEF B, f
  <2> QED
    BY <2>4, <2>5, FS_Bijection DEF ExistsBijection
<1> QED
  BY <1>2, <1>4, <1>5, FS_CardinalityType

-----------------------------------------------------------------------------
(* One window.                                                             *)

(* How many of the groups a counter counts.                                *)
Counted(win, c) == {k \in DOMAIN win.groups : c \in CountedUnder[win.groups[k].content]}

(* The entries, the groups and the counters of a window agree.             *)
Coherent(win) ==
    /\ IsWindow(win)
    /\ win = [entries |-> win.entries, groups |-> win.groups, counts |-> win.counts]
    /\ IsFiniteSet(DOMAIN win.groups)
    /\ \A i \in 1 .. Len(win.entries) : win.entries[i].key \in DOMAIN win.groups
    /\ \A k \in DOMAIN win.groups :
          win.groups[k].occurrences = Cardinality(Where(win.entries, k))
    /\ \A c \in CounterKeys : win.counts[c] = Cardinality(Counted(win, c))

(* A window starts coherent.                                               *)
LEMMA EmptyCoherent == Coherent(EmptyWindow)
<1>1. EmptyWindow.entries = <<>> /\ Len(EmptyWindow.entries) = 0
  BY DEF EmptyWindow
<1>2. EmptyWindow.groups = <<>> /\ DOMAIN EmptyWindow.groups = {}
  BY DEF EmptyWindow
<1>3. EmptyWindow.counts = [c \in CounterKeys |-> 0]
  BY DEF EmptyWindow
<1>4. \A c \in CounterKeys : Counted(EmptyWindow, c) = {}
  BY <1>2 DEF Counted
<1>5. /\ IsWindow(EmptyWindow)
      /\ EmptyWindow = [entries |-> EmptyWindow.entries,
                        groups |-> EmptyWindow.groups,
                        counts |-> EmptyWindow.counts]
  <2>1. IsWindow(EmptyWindow)
    BY <1>1, <1>2, <1>3 DEF IsWindow
  <2> QED
    BY <2>1 DEF EmptyWindow
<1> QED
  <2>1. \A c \in CounterKeys :
           EmptyWindow.counts[c] = Cardinality(Counted(EmptyWindow, c))
    BY <1>3, <1>4, FS_EmptySet
  <2>2. IsFiniteSet(DOMAIN EmptyWindow.groups)
    BY <1>2, FS_EmptySet
  <2>3. 1 .. Len(EmptyWindow.entries) = {}
    BY <1>1
  <2> QED
    BY <1>2, <1>5, <2>1, <2>2, <2>3, Zenon DEF Coherent

(* expire pops the entries older than the cutoff as far as the first one   *)
(* that is not.                                                            *)
LEMMA PoppedEntries ==
    ASSUME NEW win, win.entries \in Seq(Entries), NEW cutoff \in Int
    PROVE  LET n == Popped(win, cutoff)
           IN  /\ n \in 0 .. Len(win.entries)
               /\ \A i \in 1 .. n : win.entries[i].at < cutoff
               /\ n < Len(win.entries) => ~(win.entries[n + 1].at < cutoff)
<1> DEFINE s == win.entries
           S == {n \in 0 .. Len(s) : \A i \in 1 .. n : Expired(s[i], cutoff)}
           n == Max(S)
<1>1. n = Popped(win, cutoff)
  BY DEF Popped
<1>2. IsFiniteSet(S) /\ S \in SUBSET Int /\ S # {}
  <2>1. IsFiniteSet(0 .. Len(s)) /\ S \in SUBSET (0 .. Len(s))
    BY FS_Interval
  <2>2. 0 \in S
    OBVIOUS
  <2>3. S \in SUBSET Int
    OBVIOUS
  <2> HIDE DEF S
  <2>4. IsFiniteSet(S)
    BY ONLY <2>1, FS_Subset
  <2> QED
    BY <2>2, <2>3, <2>4, Zenon
<1>3. n \in S /\ \A m \in S : n >= m
  <2> HIDE DEF S
  <2> QED
    BY <1>2, FiniteMax
<1>4. n \in 0 .. Len(s) /\ \A i \in 1 .. n : s[i].at < cutoff
  <2> HIDE DEF n
  <2> QED
    BY <1>3 DEF Expired
<1>5. ASSUME n < Len(s), s[n + 1].at < cutoff PROVE FALSE
  <2> HIDE DEF n
  <2>1. n + 1 \in 0 .. Len(s)
    BY <1>4, <1>5
  <2>2. \A i \in 1 .. n + 1 : s[i].at < cutoff
    BY <1>4, <1>5
  <2>3. n + 1 \in S
    BY <2>1, <2>2 DEF Expired
  <2> QED
    BY <1>3, <1>4, <2>3
<1> HIDE DEF n
<1> QED
  BY <1>1, <1>4, <1>5

(* expire leaves the entries that have not expired, exactly the groups of  *)
(* these, and in the counters what is left.                                *)
LEMMA ExpireCoherent ==
    ASSUME NEW win, Coherent(win), NEW cutoff \in Int
    PROVE  LET new == Expire(win, cutoff)
               n == Popped(win, cutoff)
           IN  /\ Coherent(new)
               /\ new.entries = SubSeq(win.entries, n + 1, Len(win.entries))
               /\ DOMAIN new.groups \subseteq DOMAIN win.groups
               /\ \A k \in DOMAIN new.groups :
                     new.groups[k].content = win.groups[k].content
<1> DEFINE n == Popped(win, cutoff)
           s == win.entries
           r == SubSeq(s, n + 1, Len(s))
           popped(k) == Cardinality({i \in 1 .. n : s[i].key = k})
           gone == {k \in DOMAIN win.groups : win.groups[k].occurrences = popped(k)}
           lost(c) == {k \in gone : c \in CountedUnder[win.groups[k].content]}
           groups == [k \in DOMAIN win.groups \ gone |->
                        [win.groups[k] EXCEPT !.occurrences = @ - popped(k)]]
           counts == [c \in CounterKeys |-> win.counts[c] - Cardinality(lost(c))]
           new == [entries |-> r, groups |-> groups, counts |-> counts]
<1>1. Expire(win, cutoff) = new
  BY DEF Expire, Decrement
<1>2. s \in Seq(Entries) /\ n \in 0 .. Len(s)
  BY PoppedEntries DEF Coherent, IsWindow
<1>3. /\ new.entries = r /\ new.groups = groups /\ new.counts = counts
      /\ DOMAIN groups = DOMAIN win.groups \ gone
  OBVIOUS
<1>4. /\ r \in Seq(Entries) /\ Len(r) = Len(s) - n
      /\ \A i \in 1 .. Len(s) - n : r[i] = s[n + i]
  BY <1>2, DropFirst
<1>5. \A k : /\ popped(k) \in Nat /\ Cardinality(Where(r, k)) \in Nat
             /\ Cardinality(Where(s, k)) = popped(k) + Cardinality(Where(r, k))
  BY <1>2, <1>4, SplitCount, WhereFinite, ZenonT(30)
<1>6. \A k \in DOMAIN win.groups :
         /\ win.groups[k] \in Groups
         /\ win.groups[k].occurrences = popped(k) + Cardinality(Where(r, k))
  BY <1>5 DEF Coherent, IsWindow
<1> HIDE DEF n, s, r, popped
<1>7. \A k \in DOMAIN win.groups : k \in gone <=> Cardinality(Where(r, k)) = 0
  BY <1>5, <1>6
<1>8. \A k \in DOMAIN groups :
         /\ k \in DOMAIN win.groups
         /\ groups[k].content = win.groups[k].content
         /\ groups[k].occurrences = Cardinality(Where(r, k))
         /\ groups[k] \in Groups
  <2> SUFFICES ASSUME NEW k \in DOMAIN win.groups, k \notin gone
               PROVE  /\ groups[k].content = win.groups[k].content
                      /\ groups[k].occurrences = Cardinality(Where(r, k))
                      /\ groups[k] \in Groups
    BY <1>3
  <2>1. groups[k] = [win.groups[k] EXCEPT !.occurrences = @ - popped(k)]
    OBVIOUS
  <2>2. /\ win.groups[k] \in [content : Contents, occurrences : Nat \ {0}]
        /\ win.groups[k].occurrences = popped(k) + Cardinality(Where(r, k))
        /\ popped(k) \in Nat /\ Cardinality(Where(r, k)) \in Nat
        /\ Cardinality(Where(r, k)) # 0
    BY <1>5, <1>6, <1>7 DEF Groups
  <2> HIDE DEF groups
  <2> QED
    BY ONLY <2>1, <2>2 DEF Groups
<1>9. \A i \in 1 .. Len(r) : r[i].key \in DOMAIN groups
  <2> SUFFICES ASSUME NEW i \in 1 .. Len(r) PROVE r[i].key \in DOMAIN groups
    OBVIOUS
  <2>1. r[i].key \in DOMAIN win.groups
    <3>1. n + i \in 1 .. Len(s) /\ r[i] = s[n + i]
      BY ONLY <1>2, <1>4, i \in 1 .. Len(r)
    <3>2. \A j \in 1 .. Len(s) : s[j].key \in DOMAIN win.groups
      BY DEF Coherent, s
    <3> QED
      BY <3>1, <3>2
  <2>2. i \in Where(r, r[i].key)
    BY DEF Where
  <2>3. Cardinality(Where(r, r[i].key)) # 0
    BY <1>4, <2>2, WhereFinite, FS_EmptySet
  <2> QED
    BY <1>3, <1>7, <2>1, <2>3
<1>10. ASSUME NEW c \in CounterKeys
       PROVE  /\ counts[c] \in Nat
              /\ counts[c] = Cardinality({k \in DOMAIN groups :
                                c \in CountedUnder[groups[k].content]})
  <2> DEFINE left == {k \in DOMAIN groups : c \in CountedUnder[groups[k].content]}
             gonec == lost(c)
             all == {k \in DOMAIN win.groups : c \in CountedUnder[win.groups[k].content]}
  <2>1. left \cup gonec = all /\ left \cap gonec = {}
    <3> HIDE DEF groups
    <3> QED
      BY <1>3, <1>8
  <2>2. IsFiniteSet(left) /\ IsFiniteSet(gonec)
    <3>1. left \in SUBSET DOMAIN win.groups /\ gonec \in SUBSET DOMAIN win.groups
      BY <1>3
    <3>2. IsFiniteSet(DOMAIN win.groups)
      BY DEF Coherent
    <3> HIDE DEF left, gonec
    <3> QED
      BY ONLY <3>1, <3>2, FS_Subset
  <2>3. counts[c] = win.counts[c] - Cardinality(gonec)
    OBVIOUS
  <2>4. win.counts[c] = Cardinality(all)
    BY DEF Coherent, Counted
  <2> HIDE DEF left, gonec, all, counts
  <2>5. Cardinality(left \cup gonec)
           = Cardinality(left) + Cardinality(gonec) - Cardinality(left \cap gonec)
    BY ONLY <2>2, FS_Union
  <2>6. Cardinality(left \cup gonec) = Cardinality(all)
    BY <2>1, Zenon
  <2>7. Cardinality(left \cap gonec) = 0
    BY <2>1, FS_EmptySet, Zenon
  <2>8. Cardinality(left) \in Nat /\ Cardinality(gonec) \in Nat
    BY ONLY <2>2, FS_CardinalityType
  <2>9. counts[c] = Cardinality(left) /\ counts[c] \in Nat
    BY ONLY <2>3, <2>4, <2>5, <2>6, <2>7, <2>8
  <2> QED
    BY <2>9 DEF left
<1>11. counts \in [CounterKeys -> Nat]
  BY <1>10
<1>12. IsFiniteSet(DOMAIN groups)
  <2>1. IsFiniteSet(DOMAIN win.groups) /\ DOMAIN groups \in SUBSET DOMAIN win.groups
    BY <1>3 DEF Coherent
  <2> HIDE DEF groups
  <2> QED
    BY ONLY <2>1, FS_Subset
<1> HIDE DEF groups, counts
<1>13. IsWindow(new)
  BY <1>3, <1>4, <1>8, <1>11 DEF IsWindow, Coherent
<1>14. Coherent(new)
  <2> new = [entries |-> new.entries, groups |-> new.groups, counts |-> new.counts]
    OBVIOUS
  <2> QED
    BY <1>3, <1>8, <1>9, <1>10, <1>12, <1>13 DEF Coherent, Counted
<1> HIDE DEF new
<1> QED
  BY <1>1, <1>3, <1>8, <1>14 DEF r, n, s

(* A new entry is one more for its key.                                    *)
LEMMA WhereAppend ==
    ASSUME NEW s \in Seq(Entries), NEW e \in Entries, NEW k
    PROVE  Cardinality(Where(Append(s, e), k)) =
              Cardinality(Where(s, k)) + IF e.key = k THEN 1 ELSE 0
<1>1. /\ Len(Append(s, e)) = Len(s) + 1 /\ Len(s) \in Nat
      /\ \A i \in 1 .. Len(s) : Append(s, e)[i] = s[i]
      /\ Append(s, e)[Len(s) + 1] = e
  OBVIOUS
<1>2. IsFiniteSet(Where(s, k)) /\ Cardinality(Where(s, k)) \in Nat
  BY WhereFinite
<1>3. Len(s) + 1 \notin Where(s, k)
  BY <1>1 DEF Where
<1>4. CASE e.key = k
  <2>1. Where(Append(s, e), k) = Where(s, k) \cup {Len(s) + 1}
    BY <1>1, <1>4 DEF Where
  <2>2. Cardinality(Where(s, k) \cup {Len(s) + 1}) = Cardinality(Where(s, k)) + 1
    BY <1>2, <1>3, FS_AddElement
  <2> QED
    BY <1>4, <2>1, <2>2
<1>5. CASE e.key # k
  <2>1. Where(Append(s, e), k) = Where(s, k)
    BY <1>1, <1>5 DEF Where
  <2> QED
    BY <1>2, <1>5, <2>1
<1> QED
  BY <1>4, <1>5

(* add opens a group for a new key and counts its frame, and counts an     *)
(* occurrence for a known one.                                             *)
LEMMA AddCoherent ==
    ASSUME NEW win, Coherent(win), NEW at \in 0 .. MaxTime, NEW key \in GroupKeys,
           NEW content \in Contents
    PROVE  /\ Coherent(Add(win, at, key, content))
           /\ Add(win, at, key, content).entries
                 = Append(win.entries, [at |-> at, key |-> key])
           /\ DOMAIN Add(win, at, key, content).groups = DOMAIN win.groups \cup {key}
           /\ \A k \in DOMAIN win.groups :
                 Add(win, at, key, content).groups[k].content = win.groups[k].content
           /\ key \notin DOMAIN win.groups =>
                 Add(win, at, key, content).groups[key].content = content
<1> DEFINE e == [at |-> at, key |-> key]
           s == win.entries
           new == Add(win, at, key, content)
<1>1. /\ s \in Seq(Entries) /\ win.counts \in [CounterKeys -> Nat]
      /\ DOMAIN win.groups \subseteq GroupKeys /\ IsFiniteSet(DOMAIN win.groups)
      /\ \A k \in DOMAIN win.groups : /\ win.groups[k] \in Groups
                                      /\ win.groups[k].occurrences
                                            = Cardinality(Where(s, k))
      /\ \A i \in 1 .. Len(s) : s[i].key \in DOMAIN win.groups
      /\ \A c \in CounterKeys : win.counts[c] = Cardinality(Counted(win, c))
  BY DEF Coherent, IsWindow
<1>2. e \in Entries /\ e.key = key
  BY DEF Entries
<1>3. \A k : Cardinality(Where(Append(s, e), k)) =
              Cardinality(Where(s, k)) + IF k = key THEN 1 ELSE 0
  BY <1>1, <1>2, WhereAppend
<1>4. /\ Append(s, e) \in Seq(Entries) /\ Len(Append(s, e)) = Len(s) + 1
      /\ \A i \in 1 .. Len(s) : Append(s, e)[i] = s[i]
      /\ Append(s, e)[Len(s) + 1] = e
  BY <1>1, <1>2
<1>5. CASE key \in DOMAIN win.groups
  <2> DEFINE groups == [win.groups EXCEPT ![key].occurrences = @ + 1]
  <2>1. new = [entries |-> Append(s, e), groups |-> groups, counts |-> win.counts]
    <3>1. new = [[win EXCEPT !.groups = groups] EXCEPT !.entries = Append(@, e)]
      BY <1>5 DEF Add, Insert, Known, Repeat
    <3>2. win = [entries |-> s, groups |-> win.groups, counts |-> win.counts]
      BY DEF Coherent
    <3> HIDE DEF new, groups, e
    <3> QED
      BY ONLY <3>1, <3>2
  <2>2. /\ new.entries = Append(s, e) /\ new.groups = groups
        /\ new.counts = win.counts
    <3> HIDE DEF new, groups
    <3> QED
      BY ONLY <2>1
  <2>3. DOMAIN groups = DOMAIN win.groups
    OBVIOUS
  <2>4. \A k \in DOMAIN win.groups :
           /\ groups[k].content = win.groups[k].content
           /\ groups[k].occurrences =
                 win.groups[k].occurrences + IF k = key THEN 1 ELSE 0
           /\ groups[k] \in Groups
    BY <1>1, <1>5 DEF Groups
  <2>5. \A i \in 1 .. Len(s) + 1 : Append(s, e)[i].key \in DOMAIN win.groups
    BY <1>1, <1>2, <1>4, <1>5
  <2>6. \A c \in CounterKeys : Counted(new, c) = Counted(win, c)
    BY <2>2, <2>3, <2>4 DEF Counted
  <2> HIDE DEF groups, new, e
  <2>7. IsWindow(new)
    BY <1>1, <1>4, <2>2, <2>3, <2>4 DEF IsWindow
  <2>8. Coherent(new)
    <3>1. \A k \in DOMAIN new.groups :
             new.groups[k].occurrences = Cardinality(Where(new.entries, k))
      BY <1>1, <1>3, <2>2, <2>3, <2>4
    <3>2. \A c \in CounterKeys : new.counts[c] = Cardinality(Counted(new, c))
      BY <1>1, <2>2, <2>6
    <3>3. \A i \in 1 .. Len(new.entries) : new.entries[i].key \in DOMAIN new.groups
      BY <1>4, <2>2, <2>3, <2>5
    <3>4. IsFiniteSet(DOMAIN new.groups)
      BY <1>1, <2>2, <2>3
    <3>5. new = [entries |-> new.entries, groups |-> new.groups, counts |-> new.counts]
      BY <2>1, <2>2
    <3> QED
      BY <2>7, <3>1, <3>2, <3>3, <3>4, <3>5 DEF Coherent
  <2> QED
    BY <1>5, <2>2, <2>3, <2>4, <2>8 DEF e, new
<1>6. CASE key \notin DOMAIN win.groups
  <2> DEFINE groups == OpenGroup(win, key, content)
             counts == Increment(win, content)
  <2>1. new = [entries |-> Append(s, e), groups |-> groups, counts |-> counts]
    <3>1. new = [[win EXCEPT !.groups = groups, !.counts = counts]
                    EXCEPT !.entries = Append(@, e)]
      BY <1>6 DEF Add, Insert, Known
    <3>2. win = [entries |-> s, groups |-> win.groups, counts |-> win.counts]
      BY DEF Coherent
    <3> HIDE DEF new, groups, counts, e
    <3> QED
      BY ONLY <3>1, <3>2
  <2>2. /\ new.entries = Append(s, e) /\ new.groups = groups
        /\ new.counts = counts
    <3> HIDE DEF new, groups, counts
    <3> QED
      BY ONLY <2>1
  <2>3. /\ DOMAIN groups = DOMAIN win.groups \cup {key}
        /\ groups[key] = [content |-> content, occurrences |-> 1]
        /\ \A k \in DOMAIN win.groups : groups[k] = win.groups[k]
    BY <1>6 DEF OpenGroup
  <2>4. Cardinality(Where(s, key)) = 0
    <3>1. Where(s, key) = {}
      BY <1>1, <1>6 DEF Where
    <3> QED
      BY <3>1, FS_EmptySet
  <2>5. \A i \in 1 .. Len(s) + 1 :
           Append(s, e)[i].key \in DOMAIN win.groups \cup {key}
    BY <1>1, <1>2, <1>4
  <2>6. ASSUME NEW c \in CounterKeys
        PROVE  counts[c] \in Nat /\ counts[c] = Cardinality(Counted(new, c))
    <3>1. IsFiniteSet(Counted(win, c)) /\ Cardinality(Counted(win, c)) \in Nat
      <4>1. Counted(win, c) \in SUBSET DOMAIN win.groups
        BY DEF Counted
      <4> QED
        BY <1>1, <4>1, FS_Subset, FS_CardinalityType
    <3>2. counts[c] = win.counts[c] + IF c \in CountedUnder[content] THEN 1 ELSE 0
      BY DEF Increment
    <3>3. CASE c \in CountedUnder[content]
      <4>1. Counted(new, c) = Counted(win, c) \cup {key} /\ key \notin Counted(win, c)
        BY <1>6, <2>2, <2>3, <3>3 DEF Counted
      <4>2. Cardinality(Counted(win, c) \cup {key}) = Cardinality(Counted(win, c)) + 1
        BY <3>1, <4>1, FS_AddElement
      <4> QED
        BY <1>1, <3>1, <3>2, <3>3, <4>1, <4>2
    <3>4. CASE c \notin CountedUnder[content]
      <4>1. Counted(new, c) = Counted(win, c)
        BY <1>6, <2>2, <2>3, <3>4 DEF Counted
      <4> QED
        BY <1>1, <3>1, <3>2, <3>4, <4>1
    <3> QED
      BY <3>3, <3>4
  <2>7. counts \in [CounterKeys -> Nat]
    BY <2>6 DEF Increment
  <2>8. \A k \in DOMAIN groups :
           /\ groups[k] \in Groups
           /\ groups[k].occurrences = Cardinality(Where(Append(s, e), k))
    BY <1>1, <1>3, <2>3, <2>4 DEF Groups
  <2>9. IsFiniteSet(DOMAIN groups)
    BY <1>1, <2>3, FS_AddElement
  <2> HIDE DEF groups, counts, new, e
  <2>10. IsWindow(new)
    BY <1>1, <1>4, <2>2, <2>3, <2>7, <2>8 DEF IsWindow
  <2>11. Coherent(new)
    BY <1>4, <2>1, <2>2, <2>3, <2>5, <2>6, <2>8, <2>9, <2>10 DEF Coherent
  <2> QED
    BY <1>6, <2>2, <2>3, <2>11 DEF e, new
<1> QED
  BY <1>5, <1>6

-----------------------------------------------------------------------------
(* A window and the frames of the log.                                     *)
Records == [at : 0 .. MaxTime, key : GroupKeys, content : Contents, retry : BOOLEAN]

(* The entries of a window of length w are the last frames of the log lg,  *)
(* those not older than t - w; a group is one of the frames with its key.  *)
Aligned(win, w, t, lg) ==
    LET n == Len(lg) - Len(win.entries)
    IN  /\ n \in Nat
        /\ \A i \in 1 .. Len(win.entries) :
              win.entries[i].at = lg[n + i].at /\ win.entries[i].key = lg[n + i].key
        /\ \A i \in 1 .. Len(lg) : n < i <=> lg[i].at >= t - w
        /\ \A k \in DOMAIN win.groups :
              \E j \in 1 .. Len(lg) : lg[j].key = k /\ lg[j].content = win.groups[k].content

Ordered(lg) == \A i, j \in 1 .. Len(lg) : i <= j => lg[i].at <= lg[j].at

(* The fields of a frame in the log.                                       *)
LEMMA RecordFields ==
    ASSUME NEW lg \in Seq(Records), NEW i \in 1 .. Len(lg)
    PROVE  /\ lg[i].at \in 0 .. MaxTime /\ lg[i].at \in Int
           /\ lg[i].key \in GroupKeys /\ lg[i].content \in Contents
           /\ lg[i].retry \in BOOLEAN
<1>1. lg[i] \in Records
  OBVIOUS
<1>2. lg[i].at \in 0 .. MaxTime /\ lg[i].retry \in BOOLEAN
      /\ lg[i].key \in GroupKeys /\ lg[i].content \in Contents
  BY <1>1 DEF Records
<1>3. MaxTime \in Nat
  BY ExtractorAssumption
<1> QED
  BY <1>2, <1>3

(* Advancing the clock of an ordered log: what the window loses is what    *)
(* has become too old.                                                     *)
LEMMA ExpireAligned ==
    ASSUME NEW win, Coherent(win), NEW lg \in Seq(Records), Ordered(lg),
           NEW w \in Nat, NEW t \in Int, NEW u \in Int, t <= u,
           Aligned(win, w, t, lg)
    PROVE  Aligned(Expire(win, u - w), w, u, lg)
<1> DEFINE s == win.entries
           m == Popped(win, u - w)
           n == Len(lg) - Len(s)
           new == Expire(win, u - w)
           r == SubSeq(s, m + 1, Len(s))
<1>1. s \in Seq(Entries) /\ u - w \in Int /\ Len(s) \in Nat /\ Len(lg) \in Nat
  BY DEF Coherent, IsWindow
<1>2. /\ m \in 0 .. Len(s) /\ \A i \in 1 .. m : s[i].at < u - w
      /\ m < Len(s) => ~(s[m + 1].at < u - w)
  BY <1>1, PoppedEntries
<1>3. /\ new.entries = r /\ DOMAIN new.groups \subseteq DOMAIN win.groups
      /\ \A k \in DOMAIN new.groups : new.groups[k].content = win.groups[k].content
  BY <1>1, ExpireCoherent
<1>4. /\ Len(r) = Len(s) - m /\ \A i \in 1 .. Len(s) - m : r[i] = s[m + i]
  BY <1>1, <1>2, DropFirst
<1>5. /\ n \in Nat
      /\ \A i \in 1 .. Len(s) : s[i].at = lg[n + i].at /\ s[i].key = lg[n + i].key
      /\ \A i \in 1 .. Len(lg) : n < i <=> lg[i].at >= t - w
      /\ \A k \in DOMAIN win.groups :
            \E j \in 1 .. Len(lg) : lg[j].key = k /\ lg[j].content = win.groups[k].content
  BY DEF Aligned
<1>6. \A i \in 1 .. Len(lg) : lg[i].at \in Int
  BY RecordFields
<1>7. \A i \in 1 .. Len(s) : s[i].at \in Int
  <2> SUFFICES ASSUME NEW i \in 1 .. Len(s) PROVE s[i].at \in Int
    OBVIOUS
  <2> HIDE DEF s
  <2>1. n + i \in 1 .. Len(lg) /\ s[i].at = lg[n + i].at
    <3>1. \A a, b, c \in Int : a - b \in Nat /\ c \in 1 .. b => (a - b) + c \in 1 .. a
      OBVIOUS
    <3>2. n + i \in 1 .. Len(lg)
      BY ONLY <1>1, <1>5, <3>1, i \in 1 .. Len(s)
    <3> QED
      BY ONLY <1>5, <3>2, i \in 1 .. Len(s)
  <2> QED
    BY <1>6, <2>1
<1> HIDE DEF r, m, new, s
<1>8. Len(lg) - Len(r) = n + m /\ n + m \in Nat
  BY <1>1, <1>2, <1>4, <1>5
<1>9. ASSUME NEW i \in 1 .. Len(r)
      PROVE  r[i].at = lg[(n + m) + i].at /\ r[i].key = lg[(n + m) + i].key
  <2>1. i \in 1 .. Len(s) - m /\ m + i \in 1 .. Len(s) /\ n + (m + i) = (n + m) + i
    BY <1>1, <1>2, <1>4, <1>5
  <2> QED
    BY <1>4, <1>5, <2>1, ZenonT(30)
<1>10. ASSUME NEW i \in 1 .. Len(lg)
       PROVE  n + m < i <=> lg[i].at >= u - w
  <2>1. CASE i <= n
    BY <1>1, <1>2, <1>5, <1>6, <2>1
  <2>2. CASE n < i /\ i <= n + m
    <3>1. i - n \in 1 .. m /\ i - n \in 1 .. Len(s) /\ n + (i - n) = i
      BY <1>1, <1>2, <1>5, <2>2
    <3>2. lg[i].at < u - w
      <4>1. s[i - n].at < u - w
        BY ONLY <1>2, <3>1
      <4>2. s[i - n].at = lg[n + (i - n)].at
        BY ONLY <1>5, <3>1
      <4> QED
        BY ONLY <3>1, <4>1, <4>2
    <3> QED
      BY <1>1, <1>2, <1>5, <1>6, <2>2, <3>2, SMTT(30)
  <2>3. CASE n + m < i
    <3>1. /\ m < Len(s) /\ m + 1 \in 1 .. Len(s)
          /\ n + (m + 1) \in 1 .. Len(lg) /\ n + (m + 1) <= i
      BY <1>1, <1>2, <1>5, <2>3
    <3>2. lg[n + (m + 1)].at >= u - w
      BY <1>1, <1>2, <1>5, <1>7, <3>1, SMTT(30)
    <3>3. lg[n + (m + 1)].at <= lg[i].at
      BY <3>1 DEF Ordered
    <3> QED
      BY <1>1, <1>6, <2>3, <3>1, <3>2, <3>3, SMTT(30)
  <2> QED
    BY <1>1, <1>2, <1>5, <2>1, <2>2, <2>3
<1>11. \A k \in DOMAIN new.groups :
          \E j \in 1 .. Len(lg) : lg[j].key = k /\ lg[j].content = new.groups[k].content
  BY <1>3, <1>5
<1> QED
  BY <1>3, <1>8, <1>9, <1>10, <1>11 DEF Aligned, new

(* The newest frame is the last entry of every window.                     *)
LEMMA AddAligned ==
    ASSUME NEW win, Coherent(win), NEW lg \in Seq(Records), NEW w \in Nat,
           NEW at \in 0 .. MaxTime, NEW key \in GroupKeys, NEW content \in Contents,
           Aligned(win, w, at, lg), NEW rec \in Records,
           rec.at = at, rec.key = key, rec.content = content
    PROVE  Aligned(Add(win, at, key, content), w, at, Append(lg, rec))
<1> DEFINE s == win.entries
           n == Len(lg) - Len(s)
           e == [at |-> at, key |-> key]
           new == Add(win, at, key, content)
           ln == Append(lg, rec)
<1>1. /\ s \in Seq(Entries) /\ Len(s) \in Nat /\ Len(lg) \in Nat
      /\ at \in Int
      /\ e \in Entries
  BY ExtractorAssumption DEF Coherent, IsWindow, Entries
<1>2. /\ new.entries = Append(s, e)
      /\ DOMAIN new.groups = DOMAIN win.groups \cup {key}
      /\ \A k \in DOMAIN win.groups : new.groups[k].content = win.groups[k].content
      /\ key \notin DOMAIN win.groups => new.groups[key].content = content
  BY <1>1, AddCoherent
<1>3. /\ Len(Append(s, e)) = Len(s) + 1 /\ Append(s, e)[Len(s) + 1] = e
      /\ \A i \in 1 .. Len(s) : Append(s, e)[i] = s[i]
  BY <1>1
<1>4. /\ Len(ln) = Len(lg) + 1 /\ ln[Len(lg) + 1] = rec
      /\ \A i \in 1 .. Len(lg) : ln[i] = lg[i]
  OBVIOUS
<1>5. /\ n \in Nat
      /\ \A i \in 1 .. Len(s) : s[i].at = lg[n + i].at /\ s[i].key = lg[n + i].key
      /\ \A i \in 1 .. Len(lg) : n < i <=> lg[i].at >= at - w
      /\ \A k \in DOMAIN win.groups :
            \E j \in 1 .. Len(lg) : lg[j].key = k /\ lg[j].content = win.groups[k].content
  BY DEF Aligned
<1>6. e.at = rec.at /\ e.key = rec.key /\ at >= at - w
  BY <1>1
<1> HIDE DEF ln, new, s, e
<1>7. Len(ln) - Len(new.entries) = n
  BY <1>1, <1>2, <1>3, <1>4
<1>8. ASSUME NEW i \in 1 .. Len(new.entries)
      PROVE  /\ new.entries[i].at = ln[n + i].at
             /\ new.entries[i].key = ln[n + i].key
  <2>1. CASE i \in 1 .. Len(s)
    <3>1. n + i \in 1 .. Len(lg)
      BY <1>1, <1>5, <2>1
    <3>2. new.entries[i] = s[i] /\ ln[n + i] = lg[n + i]
      BY ONLY <1>2, <1>3, <1>4, <2>1, <3>1
    <3> QED
      BY ONLY <1>5, <2>1, <3>2
  <2>2. CASE i = Len(s) + 1
    <3>1. n + i = Len(lg) + 1
      BY <1>1, <1>5, <2>2
    <3> QED
      BY <1>2, <1>3, <1>4, <1>6, <2>2, <3>1
  <2> QED
    BY <1>1, <1>2, <1>3, <2>1, <2>2
<1>9. ASSUME NEW i \in 1 .. Len(ln)
      PROVE  n < i <=> ln[i].at >= at - w
  <2>1. CASE i \in 1 .. Len(lg)
    BY <1>4, <1>5, <2>1
  <2>2. CASE i = Len(lg) + 1
    BY <1>1, <1>4, <1>5, <1>6, <2>2
  <2> QED
    BY <1>1, <1>4, <2>1, <2>2
<1>10. ASSUME NEW k \in DOMAIN new.groups
       PROVE  \E j \in 1 .. Len(ln) :
                 ln[j].key = k /\ ln[j].content = new.groups[k].content
  <2>1. CASE k \in DOMAIN win.groups
    <3>1. PICK j \in 1 .. Len(lg) :
             lg[j].key = k /\ lg[j].content = win.groups[k].content
      BY <1>5, <2>1
    <3>2. j \in 1 .. Len(ln)
      BY <1>1, <1>4
    <3> QED
      BY <1>2, <1>4, <2>1, <3>1, <3>2
  <2>2. CASE k \notin DOMAIN win.groups
    <3>1. k = rec.key /\ new.groups[k].content = rec.content
      BY <1>2, <2>2
    <3>2. Len(lg) + 1 \in 1 .. Len(ln)
      BY <1>1, <1>4
    <3> QED
      BY <1>4, <3>1, <3>2
  <2> QED
    BY <2>1, <2>2
<1>11. Aligned(new, w, at, ln)
  BY <1>5, <1>7, <1>8, <1>9, <1>10 DEF Aligned
<1> QED
  BY <1>11 DEF new, ln

-----------------------------------------------------------------------------
(* frame_count: the counters of the subtypes together count every group    *)
(* once, since a content has exactly one subtype.                          *)
LEMMA FrameCountGroups ==
    ASSUME NEW win, Coherent(win)
    PROVE  FrameCount(win) = Cardinality(DOMAIN win.groups)
<1> DEFINE G == DOMAIN win.groups
           num(t) == win.counts[t]
           Cells == UNION {{t} \X (1 .. num(t)) : t \in Subtypes}
           sub(k) == CHOOSE t \in Subtypes :
                        CountedUnder[win.groups[k].content] \cap Subtypes = {t}
           bij(t) == CHOOSE b : b \in Bijection(Counted(win, t), 1 .. num(t))
           H == [k \in G |-> <<sub(k), bij(sub(k))[k]>>]
<1>1. IsFiniteSet(G) /\ \A k \in G : win.groups[k].content \in Contents
  BY DEF Coherent, IsWindow, Groups
<1>2. \A k \in G : /\ sub(k) \in Subtypes
                   /\ CountedUnder[win.groups[k].content] \cap Subtypes = {sub(k)}
  <2> SUFFICES ASSUME NEW k \in G
               PROVE  /\ sub(k) \in Subtypes
                      /\ CountedUnder[win.groups[k].content] \cap Subtypes = {sub(k)}
    OBVIOUS
  <2>1. \E t \in Subtypes : CountedUnder[win.groups[k].content] \cap Subtypes = {t}
    BY <1>1, ExtractorAssumption
  <2> QED
    BY <2>1
<1> HIDE DEF sub
<1>3. \A k \in G, t \in Subtypes : k \in Counted(win, t) <=> t = sub(k)
  <2> SUFFICES ASSUME NEW k \in G, NEW t \in Subtypes
               PROVE  k \in Counted(win, t) <=> t = sub(k)
    OBVIOUS
  <2>1. k \in Counted(win, t) <=> t \in CountedUnder[win.groups[k].content]
    BY DEF Counted
  <2>2. t \in CountedUnder[win.groups[k].content] \cap Subtypes <=> t = sub(k)
    BY <1>2
  <2> QED
    BY <2>1, <2>2
<1>4. \A t \in Subtypes : bij(t) \in Bijection(Counted(win, t), 1 .. num(t))
  <2> SUFFICES ASSUME NEW t \in Subtypes
               PROVE  bij(t) \in Bijection(Counted(win, t), 1 .. num(t))
    OBVIOUS
  <2>1. Counted(win, t) \in SUBSET G /\ IsFiniteSet(Counted(win, t))
    <3>1. Counted(win, t) \in SUBSET G
      BY DEF Counted
    <3> QED
      BY <1>1, <3>1, FS_Subset
  <2>2. t \in CounterKeys /\ num(t) = Cardinality(Counted(win, t))
    BY ExtractorAssumption DEF Coherent
  <2>3. ExistsBijection(1 .. Cardinality(Counted(win, t)), Counted(win, t))
    BY <2>1, FS_CardinalityType
  <2>4. ExistsBijection(1 .. num(t), Counted(win, t))
    BY <2>2, <2>3
  <2>5. ExistsBijection(Counted(win, t), 1 .. num(t))
    BY <2>4, Fun_ExistsBijSymmetric
  <2> QED
    BY <2>5, Zenon DEF ExistsBijection
<1>5. \A t \in Subtypes :
         /\ \A k \in Counted(win, t) : bij(t)[k] \in 1 .. num(t)
         /\ \A j, k \in Counted(win, t) : bij(t)[j] = bij(t)[k] => j = k
         /\ \A n \in 1 .. num(t) : \E k \in Counted(win, t) : bij(t)[k] = n
  <2> HIDE DEF bij, num
  <2> QED
    BY <1>4, Zenon DEF Bijection, Injection, Surjection, IsInjective
<1> HIDE DEF bij, num
<1>6. H \in Bijection(G, Cells)
  <2>1. H \in [G -> Cells]
    <3> SUFFICES ASSUME NEW k \in G PROVE H[k] \in Cells
      OBVIOUS
    <3>1. k \in Counted(win, sub(k)) /\ sub(k) \in Subtypes
      BY <1>2, <1>3
    <3>2. bij(sub(k))[k] \in 1 .. num(sub(k))
      BY <1>5, <3>1
    <3> QED
      BY <3>1, <3>2
  <2>2. \A j, k \in G : H[j] = H[k] => j = k
    <3> SUFFICES ASSUME NEW j \in G, NEW k \in G, H[j] = H[k] PROVE j = k
      OBVIOUS
    <3>1. sub(j) = sub(k) /\ bij(sub(j))[j] = bij(sub(k))[k]
      OBVIOUS
    <3>2. /\ sub(k) \in Subtypes
          /\ j \in Counted(win, sub(k)) /\ k \in Counted(win, sub(k))
      BY <1>2, <1>3, <3>1
    <3>3. bij(sub(k))[j] = bij(sub(k))[k]
      BY <3>1
    <3> HIDE DEF H
    <3> QED
      BY <1>5, <3>2, <3>3
  <2>3. \A p \in Cells : \E k \in G : H[k] = p
    <3> SUFFICES ASSUME NEW p \in Cells PROVE \E k \in G : H[k] = p
      OBVIOUS
    <3>1. PICK t \in Subtypes : p \in {t} \X (1 .. num(t))
      OBVIOUS
    <3>2. PICK n \in 1 .. num(t) : p = <<t, n>>
      BY <3>1
    <3>3. PICK k \in Counted(win, t) : bij(t)[k] = n
      BY <1>5
    <3>4. k \in G
      BY DEF Counted
    <3>5. t = sub(k)
      BY <1>3, <3>4
    <3>6. H[k] = <<t, n>>
      BY <3>3, <3>4, <3>5
    <3> QED
      BY <3>2, <3>4, <3>6
  <2> HIDE DEF H, Cells, G
  <2>4. H \in Injection(G, Cells)
    BY <2>1, <2>2, Zenon DEF Injection, IsInjective
  <2>5. H \in Surjection(G, Cells)
    BY <2>1, <2>3, Zenon DEF Surjection
  <2> QED
    BY <2>4, <2>5 DEF Bijection
<1>7. Cardinality(G) = Cardinality(Cells)
  <2> HIDE DEF H, Cells, G
  <2>1. ExistsBijection(G, Cells)
    BY <1>6 DEF ExistsBijection
  <2> QED
    BY <1>1, <2>1, FS_Bijection
<1>8. FrameCount(win) = Cardinality(Cells)
  BY DEF FrameCount, num
<1> QED
  BY <1>7, <1>8

-----------------------------------------------------------------------------
(* What a window holds, said from the log.                                 *)

(* The groups of a window are the keys of the frames in it.                *)
LEMMA WindowKeys ==
    ASSUME NEW win, Coherent(win), NEW lg \in Seq(Records), NEW w \in Nat,
           NEW t \in Int, Aligned(win, w, t, lg), NEW k
    PROVE  k \in DOMAIN win.groups
              <=> \E i \in 1 .. Len(lg) : lg[i].at >= t - w /\ lg[i].key = k
<1> DEFINE s == win.entries
           n == Len(lg) - Len(s)
<1>1. /\ s \in Seq(Entries) /\ Len(s) \in Nat /\ Len(lg) \in Nat
      /\ \A i \in 1 .. Len(s) : s[i].key \in DOMAIN win.groups
      /\ \A j \in DOMAIN win.groups : /\ win.groups[j] \in Groups
                                      /\ win.groups[j].occurrences
                                            = Cardinality(Where(s, j))
  BY DEF Coherent, IsWindow
<1>2. /\ n \in Nat
      /\ \A i \in 1 .. Len(s) : s[i].key = lg[n + i].key
      /\ \A i \in 1 .. Len(lg) : n < i <=> lg[i].at >= t - w
  BY DEF Aligned
<1>3. ASSUME k \in DOMAIN win.groups
      PROVE  \E i \in 1 .. Len(lg) : lg[i].at >= t - w /\ lg[i].key = k
  <2>1. Cardinality(Where(s, k)) # 0
    BY <1>1, <1>3 DEF Groups
  <2>2. Where(s, k) # {}
    BY <2>1, FS_EmptySet
  <2>3. PICK i \in 1 .. Len(s) : s[i].key = k
    BY <2>2 DEF Where
  <2> HIDE DEF s
  <2>4. n + i \in 1 .. Len(lg) /\ n < n + i
    BY ONLY <1>1, <1>2, i \in 1 .. Len(s)
  <2>5. lg[n + i].key = k /\ lg[n + i].at >= t - w
    BY ONLY <1>2, <2>3, <2>4
  <2> QED
    BY <2>4, <2>5
<1>4. ASSUME NEW i \in 1 .. Len(lg), lg[i].at >= t - w, lg[i].key = k
      PROVE  k \in DOMAIN win.groups
  <2> HIDE DEF s
  <2>1. n < i
    BY <1>2, <1>4
  <2>2. i - n \in 1 .. Len(s) /\ n + (i - n) = i
    BY ONLY <1>1, <1>2, <2>1, i \in 1 .. Len(lg)
  <2>3. s[i - n].key = k
    BY ONLY <1>2, <1>4, <2>2
  <2> QED
    BY ONLY <1>1, <2>2, <2>3
<1> QED
  BY <1>3, <1>4

(* The i-th frame of a log is one that was on the air.                     *)
Came(rec, i) ==
    \E f \in Frames :
        /\ rec.content = f.content
        /\ rec.key = IF f.identity = NoIdentity THEN i ELSE f.identity

(* Frames that share a group share their transmitter.                      *)
LEMMA SharedTransmitter ==
    ASSUME NEW lg, \A i \in 1 .. Len(lg) : Came(lg[i], i), Len(lg) \in Nat,
           NEW i \in 1 .. Len(lg), NEW j \in 1 .. Len(lg), lg[i].key = lg[j].key
    PROVE  TransmitterOf[lg[i].content] = TransmitterOf[lg[j].content]
<1>1. PICK f \in Frames :
         /\ lg[i].content = f.content
         /\ lg[i].key = IF f.identity = NoIdentity THEN i ELSE f.identity
  BY DEF Came
<1>2. PICK g \in Frames :
         /\ lg[j].content = g.content
         /\ lg[j].key = IF g.identity = NoIdentity THEN j ELSE g.identity
  BY DEF Came
<1>3. i \in Nat /\ j \in Nat
  OBVIOUS
<1>4. /\ f.identity # NoIdentity => f.identity \notin Nat
      /\ g.identity # NoIdentity => g.identity \notin Nat
  <2>1. f.identity \in Identities \cup {NoIdentity}
        /\ g.identity \in Identities \cup {NoIdentity}
    BY ExtractorAssumption
  <2>2. Identities \cap Nat = {}
    BY ExtractorAssumption
  <2> QED
    BY <2>1, <2>2, Zenon
<1>5. CASE f.identity = NoIdentity
  <2>1. g.identity = NoIdentity /\ i = j
    BY <1>1, <1>2, <1>3, <1>4, <1>5
  <2> QED
    BY <2>1
<1>6. CASE f.identity # NoIdentity
  <2>1. g.identity = f.identity
    BY <1>1, <1>2, <1>3, <1>4, <1>6
  <2>2. TransmitterOf[f.content] = TransmitterOf[g.content]
    BY <1>6, <2>1, ExtractorAssumption
  <2> QED
    BY <1>1, <1>2, <2>2
<1> QED
  BY <1>5, <1>6

(* The times at which a window has seen a transmitter.                     *)
LEMMA WindowTimes ==
    ASSUME NEW win, Coherent(win), NEW lg \in Seq(Records), NEW w \in Nat,
           NEW t \in Int, Aligned(win, w, t, lg),
           \A i \in 1 .. Len(lg) : Came(lg[i], i), NEW tx
    PROVE  SeenAt(win, tx) =
              {lg[i].at : i \in {j \in 1 .. Len(lg) :
                  lg[j].at >= t - w /\ TransmitterOf[lg[j].content] = tx}}
<1> DEFINE s == win.entries
           n == Len(lg) - Len(s)
           tr(i) == TransmitterOf[win.groups[s[i].key].content]
           Times == {lg[i].at : i \in {j \in 1 .. Len(lg) :
                        lg[j].at >= t - w /\ TransmitterOf[lg[j].content] = tx}}
<1>1. /\ s \in Seq(Entries) /\ Len(s) \in Nat /\ Len(lg) \in Nat
      /\ \A i \in 1 .. Len(s) : s[i].key \in DOMAIN win.groups
  BY DEF Coherent, IsWindow
<1>2. /\ n \in Nat
      /\ \A i \in 1 .. Len(s) : s[i].at = lg[n + i].at /\ s[i].key = lg[n + i].key
      /\ \A i \in 1 .. Len(lg) : n < i <=> lg[i].at >= t - w
      /\ \A k \in DOMAIN win.groups :
            \E j \in 1 .. Len(lg) : lg[j].key = k /\ lg[j].content = win.groups[k].content
  BY DEF Aligned
<1>3. SeenAt(win, tx) = {s[i].at : i \in {j \in 1 .. Len(s) : tr(j) = tx}}
  BY DEF SeenAt
<1>4. ASSUME NEW i \in 1 .. Len(s)
      PROVE  /\ n + i \in 1 .. Len(lg) /\ lg[n + i].at >= t - w
             /\ s[i].at = lg[n + i].at
             /\ tr(i) = TransmitterOf[lg[n + i].content]
  <2>1. PICK j \in 1 .. Len(lg) :
           lg[j].key = s[i].key /\ lg[j].content = win.groups[s[i].key].content
    BY <1>1, <1>2
  <2> HIDE DEF s
  <2>2. n + i \in 1 .. Len(lg) /\ n < n + i
    BY ONLY <1>1, <1>2, i \in 1 .. Len(s)
  <2>3. lg[n + i].at >= t - w /\ s[i].at = lg[n + i].at /\ s[i].key = lg[n + i].key
    BY ONLY <1>2, <2>2, i \in 1 .. Len(s)
  <2>4. TransmitterOf[lg[j].content] = TransmitterOf[lg[n + i].content]
    <3>1. lg[j].key = lg[n + i].key
      BY <2>1, <2>3
    <3> HIDE DEF n
    <3> QED
      BY <1>1, <2>2, <3>1, SharedTransmitter
  <2> QED
    BY <2>1, <2>2, <2>3, <2>4
<1>5. ASSUME NEW i \in 1 .. Len(lg), lg[i].at >= t - w
      PROVE  i - n \in 1 .. Len(s) /\ n + (i - n) = i
  <2> HIDE DEF s
  <2>1. n < i
    BY <1>2, <1>5
  <2> QED
    BY ONLY <1>1, <1>2, <2>1, i \in 1 .. Len(lg)
<1> HIDE DEF s, n, tr
<1>6. ASSUME NEW x \in SeenAt(win, tx) PROVE x \in Times
  <2>1. PICK i \in 1 .. Len(s) : tr(i) = tx /\ x = s[i].at
    BY <1>3
  <2> QED
    BY <1>4, <2>1
<1>7. ASSUME NEW x \in Times PROVE x \in SeenAt(win, tx)
  <2>1. PICK i \in 1 .. Len(lg) :
           lg[i].at >= t - w /\ TransmitterOf[lg[i].content] = tx /\ x = lg[i].at
    OBVIOUS
  <2>2. i - n \in 1 .. Len(s) /\ n + (i - n) = i
    BY <1>5, <2>1
  <2>3. tr(i - n) = tx /\ s[i - n].at = x
    BY <1>4, <2>1, <2>2
  <2> QED
    BY <1>3, <2>2, <2>3
<1> QED
  BY <1>6, <1>7

-----------------------------------------------------------------------------
(* The inductive invariant.                                                *)

(* The log: ordered, not ahead of the clock, of frames that were on the    *)
(* air.                                                                    *)
Chronicle ==
    /\ Len(log) <= MaxFrames
    /\ Ordered(log)
    /\ \A i \in 1 .. Len(log) : log[i].at <= observedThrough /\ Came(log[i], i)

(* Every window is coherent and holds the end of the log.                  *)
Fits ==
    \A w \in Windows :
        Coherent(windows[w]) /\ Aligned(windows[w], w, observedThrough, log)

IInv ==
    /\ TypeOK
    /\ Chronicle
    /\ Fits
    /\ RetryKnown

(* An empty window and an empty log agree.                                 *)
LEMMA EmptyAligned ==
    ASSUME NEW w, NEW t PROVE Aligned(EmptyWindow, w, t, <<>>)
<1>1. EmptyWindow.entries = <<>> /\ EmptyWindow.groups = <<>>
  BY DEF EmptyWindow
<1>2. Len(<<>>) = 0 /\ DOMAIN EmptyWindow.groups = {} /\ 1 .. 0 = {}
  BY <1>1
<1> QED
  BY <1>1, <1>2 DEF Aligned

(* The clock may be advanced to t: every window, expired to t, fits.       *)
LEMMA ExpiredFits ==
    ASSUME IInv, NEW t \in 0 .. MaxTime, InOrder(t)
    PROVE  /\ t \in Int /\ observedThrough \in Int /\ observedThrough <= t
           /\ \A w \in Windows :
                 /\ w \in Nat
                 /\ Coherent(Expire(windows[w], t - w))
                 /\ Aligned(Expire(windows[w], t - w), w, t, log)
<1>1. t \in Int /\ observedThrough \in Int /\ observedThrough <= t
  <2>1. MaxTime \in Nat
    BY ExtractorAssumption
  <2>2. observedThrough \in 0 .. MaxTime \/ observedThrough = -1
    BY DEF IInv, TypeOK, Never
  <2>3. observedThrough = -1 \/ t >= observedThrough
    BY DEF InOrder, Never
  <2> QED
    BY <2>1, <2>2, <2>3
<1>2. log \in Seq(Records) /\ Ordered(log)
  BY DEF IInv, TypeOK, Chronicle, Records
<1>3. ASSUME NEW w \in Windows
      PROVE  /\ w \in Nat
             /\ Coherent(Expire(windows[w], t - w))
             /\ Aligned(Expire(windows[w], t - w), w, t, log)
  <2>1. w \in Nat /\ t - w \in Int
    BY <1>1, ExtractorAssumption
  <2>2. Coherent(windows[w]) /\ Aligned(windows[w], w, observedThrough, log)
    BY DEF IInv, Fits
  <2>3. Coherent(Expire(windows[w], t - w))
    BY <2>1, <2>2, ExpireCoherent
  <2>4. Aligned(Expire(windows[w], t - w), w, t, log)
    BY <1>1, <1>2, <2>1, <2>2, ExpireAligned
  <2> QED
    BY <2>1, <2>3, <2>4
<1> QED
  BY <1>1, <1>3

(* The invariant holds at the start,                                       *)
LEMMA InitIInv == Init => IInv
<1> SUFFICES ASSUME Init PROVE IInv
  OBVIOUS
<1> USE DEF Init
<1>1. log = <<>> /\ Len(log) = 0 /\ 1 .. Len(log) = {} /\ MaxFrames \in Nat
  BY ExtractorAssumption
<1>2. Chronicle
  BY <1>1 DEF Chronicle, Ordered
<1>3. Fits
  BY EmptyCoherent, EmptyAligned DEF Fits
<1>4. TypeOK
  <2>1. \A w \in Windows : IsWindow(windows[w])
    BY EmptyCoherent DEF Coherent
  <2>2. log \in Seq(Records)
    BY <1>1
  <2> QED
    BY <2>1, <2>2 DEF TypeOK, Records
<1>5. RetryKnown
  BY <1>1 DEF RetryKnown
<1> QED
  BY <1>2, <1>3, <1>4, <1>5 DEF IInv

(* after a reset,                                                          *)
LEMMA ResetStep == IInv /\ Reset => IInv'
<1> SUFFICES ASSUME Reset PROVE IInv'
  OBVIOUS
<1> USE DEF Reset, ResetLog
<1>1. log' = <<>> /\ Len(log') = 0 /\ 1 .. Len(log') = {} /\ MaxFrames \in Nat
  BY ExtractorAssumption
<1>2. Chronicle'
  BY <1>1 DEF Chronicle, Ordered
<1>3. Fits'
  BY EmptyCoherent, EmptyAligned DEF Fits
<1>4. TypeOK'
  <2>1. \A w \in Windows : IsWindow(windows'[w])
    BY EmptyCoherent DEF Coherent
  <2>2. log' \in Seq(Records)
    BY <1>1
  <2>3. deduplicated' \in BOOLEAN
    OBVIOUS
  <2>4. DOMAIN windows' = Windows
    OBVIOUS
  <2>5. observedThrough' \in 0 .. MaxTime \cup {Never}
    OBVIOUS
  <2> QED
    BY <2>1, <2>2, <2>3, <2>4, <2>5, Zenon DEF TypeOK, Records
<1>5. RetryKnown'
  BY <1>1 DEF RetryKnown
<1> QED
  BY <1>2, <1>3, <1>4, <1>5 DEF IInv

(* after snapshots, which expires every window to the time it is given,    *)
LEMMA SnapshotsStep ==
    ASSUME IInv, NEW t \in 0 .. MaxTime, Snapshots(t)
    PROVE  IInv'
<1> USE DEF Snapshots
<1>1. /\ windows' = [w \in Windows |-> Expire(windows[w], t - w)]
      /\ observedThrough' = t /\ log' = log /\ deduplicated' = deduplicated
      /\ InOrder(t)
  BY DEF ExpireAll
<1>2. /\ t \in Int /\ observedThrough \in Int /\ observedThrough <= t
      /\ \A w \in Windows : /\ Coherent(Expire(windows[w], t - w))
                            /\ Aligned(Expire(windows[w], t - w), w, t, log)
  BY <1>1, ExpiredFits
<1>3. Fits'
  BY <1>1, <1>2 DEF Fits
<1>4. Chronicle'
  <2>1. log \in Seq(Records) /\ Chronicle
    BY DEF IInv, TypeOK, Records
  <2>2. \A i \in 1 .. Len(log) : log[i].at \in Int
    BY <2>1, RecordFields
  <2>3. \A i \in 1 .. Len(log) : log[i].at <= t
    BY <1>2, <2>1, <2>2 DEF Chronicle
  <2> QED
    BY <1>1, <2>1, <2>3 DEF Chronicle, Ordered
<1>5. TypeOK'
  <2>1. \A w \in Windows : IsWindow(windows'[w])
    BY <1>1, <1>2 DEF Coherent
  <2>2. DOMAIN windows' = Windows
    BY <1>1
  <2>3. observedThrough' \in 0 .. MaxTime \cup {Never}
    BY <1>1
  <2>4. TypeOK
    BY DEF IInv
  <2> QED
    BY <1>1, <2>1, <2>2, <2>3, <2>4, Zenon DEF TypeOK
<1>6. RetryKnown'
  <2>1. RetryKnown
    BY DEF IInv
  <2> QED
    BY <1>1, <2>1 DEF RetryKnown
<1> QED
  BY <1>3, <1>4, <1>5, <1>6 DEF IInv

(* The longest window: a frame that some window still holds, it holds.     *)
LEMMA LongestWindow ==
    /\ Max(Windows) \in Windows
    /\ \A w \in Windows : w \in Nat /\ Max(Windows) >= w
<1>1. Windows \in SUBSET Int /\ IsFiniteSet(Windows) /\ Windows # {}
      /\ \A w \in Windows : w \in Nat
  BY ExtractorAssumption
<1>2. Max(Windows) \in Windows /\ \A w \in Windows : Max(Windows) >= w
  BY <1>1, FiniteMax
<1> QED
  BY <1>1, <1>2

(* and after ingest, which expires every window and then adds the frame.   *)
LEMMA IngestStep ==
    ASSUME IInv, NEW f \in Frames, NEW t \in 0 .. MaxTime, Ingest(f, t)
    PROVE  IInv'
<1> DEFINE key == GroupKey(f)
           n == Len(log)
           rec == [at |-> t, key |-> key, content |-> f.content, retry |-> f.retry]
           old(w) == Expire(windows[w], t - w)
           new(w) == Add(old(w), t, key, f.content)
<1>1. /\ windows' = [w \in Windows |-> new(w)]
      /\ observedThrough' = t /\ log' = Append(log, rec)
      /\ InOrder(t) /\ Len(log) < MaxFrames
      /\ deduplicated' = (f.retry /\ \E w \in Windows : key \in DOMAIN old(w).groups)
  <2>1. Ingest(f, t)
    OBVIOUS
  <2>2. \A w \in Windows : ExpireAll(t)[w] = old(w)
    BY DEF ExpireAll
  <2>3. deduplicated' = Recognised(f, ExpireAll(t))
    BY <2>1 DEF Ingest
  <2>4. Recognised(f, ExpireAll(t))
           = (f.retry /\ \E w \in Windows : key \in DOMAIN old(w).groups)
    BY <2>2 DEF Recognised, Known
  <2>5. windows' = [w \in Windows |-> Add(ExpireAll(t)[w], t, key, f.content)]
    BY <2>1 DEF Ingest
  <2>6. windows' = [w \in Windows |-> new(w)]
    BY <2>2, <2>5
  <2> QED
    BY <2>1, <2>3, <2>4, <2>6 DEF Ingest
<1>2. /\ t \in Int /\ observedThrough \in Int /\ observedThrough <= t
      /\ \A w \in Windows : /\ w \in Nat
                            /\ Coherent(old(w)) /\ Aligned(old(w), w, t, log)
  BY <1>1, ExpiredFits
<1>3. /\ log \in Seq(Records) /\ n \in Nat /\ Chronicle
      /\ \A i \in 1 .. n : log[i].at \in Int
  <2>1. log \in Seq(Records) /\ Chronicle
    BY DEF IInv, TypeOK, Records
  <2> QED
    BY <2>1, RecordFields
<1>4. /\ f.content \in Contents /\ f.retry \in BOOLEAN
      /\ f.identity \in Identities \cup {NoIdentity}
  BY ExtractorAssumption
<1>5. key \in GroupKeys
  <2>1. n + 1 \in 1 .. MaxFrames
    BY <1>1, <1>3, ExtractorAssumption
  <2> QED
    BY <1>4, <2>1 DEF GroupKey, GroupKeys
<1>6. rec \in Records /\ rec.at = t /\ rec.key = key /\ rec.content = f.content
      /\ rec.retry = f.retry
  BY <1>4, <1>5 DEF Records
<1>7. /\ log' \in Seq(Records) /\ Len(log') = n + 1 /\ log'[n + 1] = rec
      /\ \A i \in 1 .. n : log'[i] = log[i]
  <2> HIDE DEF rec
  <2> QED
    BY ONLY <1>1, <1>3, <1>6
<1> HIDE DEF rec, key, old
<1>8. ASSUME NEW w \in Windows
      PROVE  Coherent(new(w)) /\ Aligned(new(w), w, t, log')
  <2>1. Coherent(new(w))
    BY <1>2, <1>4, <1>5, AddCoherent
  <2>2. Aligned(new(w), w, t, Append(log, rec))
    BY <1>2, <1>3, <1>4, <1>5, <1>6, AddAligned
  <2> QED
    BY <1>1, <1>6, <2>1, <2>2
<1> HIDE DEF new
<1>9. Fits'
  BY <1>1, <1>8 DEF Fits
<1>10. Chronicle'
  <2>1. Len(log') <= MaxFrames
    BY <1>1, <1>3, <1>7, ExtractorAssumption
  <2>2. \A i \in 1 .. n : log[i].at <= t
    BY <1>2, <1>3 DEF Chronicle
  <2>3. \A i \in 1 .. n + 1 : log'[i].at <= t
    BY <1>2, <1>3, <1>6, <1>7, <2>2
  <2>4. Ordered(log')
    <3> SUFFICES ASSUME NEW i \in 1 .. n + 1, NEW j \in 1 .. n + 1, i <= j
                 PROVE  log'[i].at <= log'[j].at
      BY <1>7 DEF Ordered
    <3>1. CASE j = n + 1
      BY <1>6, <1>7, <2>3, <3>1
    <3>2. CASE j # n + 1
      <4>1. i \in 1 .. n /\ j \in 1 .. n
        BY <1>3, <3>2
      <4> QED
        BY <1>3, <1>7, <4>1 DEF Chronicle, Ordered
    <3> QED
      BY <3>1, <3>2
  <2>5. ASSUME NEW i \in 1 .. n + 1 PROVE Came(log'[i], i)
    <3>1. CASE i = n + 1
      BY <1>6, <1>7, <3>1 DEF Came, key, GroupKey
    <3>2. CASE i # n + 1
      <4>1. i \in 1 .. n
        BY <1>3, <3>2
      <4> QED
        BY <1>3, <1>7, <4>1 DEF Chronicle
    <3> QED
      BY <3>1, <3>2
  <2> QED
    BY <1>1, <1>7, <2>1, <2>3, <2>4, <2>5 DEF Chronicle
<1>11. TypeOK'
  <2>1. \A w \in Windows : IsWindow(windows'[w])
    BY <1>1, <1>8 DEF Coherent
  <2>2. DOMAIN windows' = Windows
    BY <1>1
  <2>3. observedThrough' \in 0 .. MaxTime \cup {Never}
    BY <1>1
  <2>4. deduplicated' \in BOOLEAN
    BY <1>1, <1>4, Zenon
  <2> QED
    BY <1>7, <2>1, <2>2, <2>3, <2>4, Zenon DEF TypeOK, Records
<1>12. RetryKnown'
  <2>1. (\E w \in Windows : key \in DOMAIN old(w).groups)
           <=> \E i \in 1 .. n : log[i].key = key /\ log[i].at >= t - Max(Windows)
    <3>1. \A w \in Windows :
             key \in DOMAIN old(w).groups
                <=> \E i \in 1 .. n : log[i].at >= t - w /\ log[i].key = key
      BY <1>2, <1>3, WindowKeys
    <3>2. \A w \in Windows, i \in 1 .. n :
             log[i].at >= t - w => log[i].at >= t - Max(Windows)
      BY <1>2, <1>3, LongestWindow
    <3> QED
      BY <3>1, <3>2, LongestWindow, Zenon
  <2>2. deduplicated' <=>
           /\ rec.retry
           /\ \E i \in 1 .. n : log[i].key = key /\ log[i].at >= t - Max(Windows)
    BY <1>1, <1>6, <2>1, Zenon
  <2>3. n + 1 > 0 /\ (n + 1) - 1 = n
    BY <1>3
  <2>4. deduplicated' <=>
           /\ log'[n + 1].retry
           /\ \E i \in 1 .. n : /\ log'[i].key = log'[n + 1].key
                                /\ log'[i].at >= log'[n + 1].at - Max(Windows)
    BY <1>6, <1>7, <2>2
  <2> QED
    BY <1>7, <2>3, <2>4 DEF RetryKnown
<1> QED
  BY <1>9, <1>10, <1>11, <1>12 DEF IInv

(* It is inductive.                                                        *)
LEMMA NextStep == IInv /\ [Next]_vars => IInv'
<1> SUFFICES ASSUME IInv, [Next]_vars PROVE IInv'
  OBVIOUS
<1>1. ASSUME NEW t \in 0 .. MaxTime, NEW f \in Frames, Ingest(f, t) PROVE IInv'
  BY <1>1, IngestStep
<1>2. ASSUME NEW t \in 0 .. MaxTime, Snapshots(t) PROVE IInv'
  BY <1>2, SnapshotsStep
<1>3. CASE Reset
  BY <1>3, ResetStep
<1>4. CASE UNCHANGED vars
  BY <1>4 DEF vars, IInv, TypeOK, Chronicle, Fits, RetryKnown
<1>5. ASSUME NEW t \in 0 .. MaxTime, RejectFrame(t) PROVE IInv'
  BY <1>4, <1>5 DEF RejectFrame
<1> QED
  BY <1>1, <1>2, <1>3, <1>4, <1>5 DEF Next

-----------------------------------------------------------------------------
(* The windows, the log and the clock agree in every reachable state.      *)
THEOREM InductiveInvariant == Spec => []IInv
<1> QED
  BY InitIInv, NextStep, PTL DEF Spec

(* Everything has its type: no counter of a window and no occurrence count *)
(* of a group is ever below zero.                                          *)
THEOREM TypeCorrect == Spec => []TypeOK
<1>1. IInv => TypeOK
  BY DEF IInv
<1> QED
  BY <1>1, InductiveInvariant, PTL

(* The increments of _insert and the decrements of _expire balance: every  *)
(* counter is the number of live groups it counts.                         *)
THEOREM CountersBalance == Spec => []CountersMatchGroups
<1>1. IInv => CountersMatchGroups
  BY DEF IInv, Fits, Coherent, Counted, CountersMatchGroups
<1> QED
  BY <1>1, InductiveInvariant, PTL

(* A window holds a group while a frame of it is in the window, and        *)
(* frame_count is the number of these groups.                              *)
THEOREM WindowsCount == Spec => []CountsWindow
<1>1. ASSUME IInv, NEW w \in Windows
      PROVE  /\ DOMAIN windows[w].groups = KeysInWindow(w)
             /\ FrameCount(windows[w]) = Cardinality(KeysInWindow(w))
  <2>1. Coherent(windows[w]) /\ Aligned(windows[w], w, observedThrough, log)
    BY <1>1 DEF IInv, Fits
  <2>2. w \in Nat /\ observedThrough \in Int /\ log \in Seq(Records)
    <3>1. MaxTime \in Nat /\ w \in Nat
      BY ExtractorAssumption
    <3> QED
      BY <1>1, <3>1 DEF IInv, TypeOK, Never, Records
  <2>3. \A k : k \in DOMAIN windows[w].groups
                  <=> \E i \in 1 .. Len(log) :
                         log[i].at >= observedThrough - w /\ log[i].key = k
    BY <2>1, <2>2, WindowKeys
  <2>4. DOMAIN log = 1 .. Len(log)
    BY <2>2
  <2>5. DOMAIN windows[w].groups = KeysInWindow(w)
    BY <2>3, <2>4 DEF KeysInWindow, InWindow
  <2>6. FrameCount(windows[w]) = Cardinality(DOMAIN windows[w].groups)
    BY <2>1, FrameCountGroups
  <2> QED
    BY <2>5, <2>6
<1>2. IInv => CountsWindow
  BY <1>1 DEF CountsWindow
<1> QED
  BY <1>2, InductiveInvariant, PTL

(* A transmitter's times of observation are those of all its frames in the *)
(* window, retries included.                                               *)
THEOREM TimesExact == Spec => []SeenTimesExact
<1>1. ASSUME IInv, NEW w \in Windows, NEW tx \in Transmitters
      PROVE  SeenAt(windows[w], tx) =
                {log[i].at : i \in {j \in InWindow(w) :
                                       TransmitterOf[log[j].content] = tx}}
  <2>1. Coherent(windows[w]) /\ Aligned(windows[w], w, observedThrough, log)
    BY <1>1 DEF IInv, Fits
  <2>2. w \in Nat /\ observedThrough \in Int /\ log \in Seq(Records)
    <3>1. MaxTime \in Nat /\ w \in Nat
      BY ExtractorAssumption
    <3> QED
      BY <1>1, <3>1 DEF IInv, TypeOK, Never, Records
  <2>3. \A i \in 1 .. Len(log) : Came(log[i], i)
    BY <1>1 DEF IInv, Chronicle
  <2>4. SeenAt(windows[w], tx) =
           {log[i].at : i \in {j \in 1 .. Len(log) :
               /\ log[j].at >= observedThrough - w
               /\ TransmitterOf[log[j].content] = tx}}
    BY <2>1, <2>2, <2>3, WindowTimes
  <2>5. DOMAIN log = 1 .. Len(log)
    BY <2>2
  <2>6. {j \in 1 .. Len(log) : /\ log[j].at >= observedThrough - w
                               /\ TransmitterOf[log[j].content] = tx}
           = {j \in InWindow(w) : TransmitterOf[log[j].content] = tx}
    BY <2>5 DEF InWindow
  <2> QED
    BY <2>4, <2>6, Zenon
<1>2. IInv => SeenTimesExact
  BY <1>1, Zenon DEF SeenTimesExact
<1> QED
  BY <1>2, InductiveInvariant, PTL

(* retry_deduplicated tells the truth about the last frame: a retry whose  *)
(* group had a frame within the longest window before it.                  *)
THEOREM RetriesRecognised == Spec => []RetryKnown
<1>1. IInv => RetryKnown
  BY DEF IInv
<1> QED
  BY <1>1, InductiveInvariant, PTL
=============================================================================
