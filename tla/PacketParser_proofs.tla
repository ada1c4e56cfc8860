------------------------ MODULE PacketParser_proofs ------------------------
(***************************************************************************)
(* Proofs about PacketParser, for any packets whose fields have the kinds  *)
(* the dissector gives them, and any iteration orders.                     *)
(***************************************************************************)
EXTENDS PacketParser, FiniteSetTheorems, FunctionTheorems, TLAPS

-----------------------------------------------------------------------------
(* Channels and frequencies, over all frequencies.                         *)

(* A raster frequency has one raster, and so a channel between its ends.   *)
LEMMA OneRaster ==
    ASSUME NEW r \in Rasters, NEW f, On(r, f)
    PROVE  /\ f \in Int
           /\ (CHOOSE q \in Rasters : On(q, f)) = r
<1>1. f \in Int /\ r.first <= f /\ f <= r.last
  BY DEF On, Rasters
<1>2. ASSUME NEW q \in Rasters, On(q, f) PROVE q = r
  BY <1>1, <1>2 DEF On, Rasters
<1> QED
  BY <1>1, <1>2

(* The frequency of a channel, in the band it is asked for.                *)
LEMMA FrequencyOfChannel ==
    ASSUME NEW c \in Int
    PROVE  /\ c \in 1 .. 13 => ChannelToFrequency(c, None) = 2407 + 5 * c
           /\ c \in 182 .. 196 => ChannelToFrequency(c, None) = 4000 + 5 * c
           /\ c \in 15 .. 179 => ChannelToFrequency(c, None) = 5000 + 5 * c
           /\ c \in 1 .. 179 => ChannelToFrequency(c, "5") = 5000 + 5 * c
           /\ c \in 1 .. 233 /\ c # 2 => ChannelToFrequency(c, "6") = 5950 + 5 * c
<1>1. None # "5" /\ None # "6" /\ None # "2.4"
  BY NoneAssumption
<1>2. c \in 1 .. 13 => ChannelToFrequency(c, None) = 2407 + 5 * c
  BY DEF ChannelToFrequency, DefaultBand
<1>3. c \in 182 .. 196 => ChannelToFrequency(c, None) = 4000 + 5 * c
  BY DEF ChannelToFrequency, DefaultBand
<1>4. c \in 15 .. 179 => ChannelToFrequency(c, None) = 5000 + 5 * c
  BY DEF ChannelToFrequency, DefaultBand
<1>5. c \in 1 .. 179 => ChannelToFrequency(c, "5") = 5000 + 5 * c
  BY <1>1 DEF ChannelToFrequency
<1>6. c \in 1 .. 233 /\ c # 2 => ChannelToFrequency(c, "6") = 5950 + 5 * c
  BY <1>1 DEF ChannelToFrequency, ValidChannel
<1> QED
  BY <1>2, <1>3, <1>4, <1>5, <1>6

(* A frequency that is given a channel, is that of the channel.            *)
LEMMA ChannelOfFrequency ==
    ASSUME NEW f, FrequencyToChannel(f) # None, f # 5960
    PROVE  LET band == CASE f \in 5005 .. 5070 -> "5"
                         [] f > 5895 -> "6"
                         [] OTHER -> None
           IN  /\ f \in Nat \ {0}
               /\ ChannelToFrequency(FrequencyToChannel(f), band) = f
<1> DEFINE band == CASE f \in 5005 .. 5070 -> "5"
                     [] f > 5895 -> "6"
                     [] OTHER -> None
           c == FrequencyToChannel(f)
<1> SUFFICES f \in Nat \ {0} /\ ChannelToFrequency(c, band) = f
  OBVIOUS
<1>0. None # "5" /\ None # "6" /\ None # "2.4"
  BY NoneAssumption
<1>1. CASE f = 2484
  <2>1. c = 14
    <3>1. \A r \in Rasters : ~On(r, f)
      BY <1>1 DEF On, Rasters
    <3> QED
      BY <1>1, <3>1 DEF FrequencyToChannel
  <2>2. band = None
    BY <1>1
  <2> QED
    BY <1>1, <2>1, <2>2 DEF ChannelToFrequency, DefaultBand
<1>2. CASE f = 5935
  <2>1. c = 2
    <3>1. \A r \in Rasters : ~On(r, f)
      BY <1>2 DEF On, Rasters
    <3> QED
      BY <1>2, <3>1 DEF FrequencyToChannel
  <2>2. band = "6"
    BY <1>2
  <2> QED
    BY <1>0, <1>2, <2>1, <2>2 DEF ChannelToFrequency, ValidChannel
<1>3. CASE f # 2484 /\ f # 5935
  <2>1. PICK r \in Rasters : On(r, f)
    BY <1>3 DEF FrequencyToChannel
  <2>2. c = (f - r.base) \div 5 /\ f \in Int
    <3> DEFINE found == CHOOSE q \in Rasters : On(q, f)
    <3>1. f \in Int /\ found = r
      BY <2>1, OneRaster
    <3>2. c = (f - found.base) \div 5
      BY <1>3, <2>1 DEF FrequencyToChannel
    <3> HIDE DEF found, c
    <3> QED
      BY <3>1, <3>2
  <2>3. \A g, b \in Int : (g - b) % 5 = 0 => 5 * ((g - b) \div 5) = g - b
    OBVIOUS
  <2>4. c \in Int /\ 5 * c = f - r.base
    BY <2>1, <2>2, <2>3 DEF On, Rasters
  <2> HIDE DEF c
  <2>5. CASE r = [first |-> 2412, last |-> 2472, base |-> 2407]
    <3>1. f \in 2412 .. 2472 /\ 5 * c = f - 2407
      BY <2>1, <2>4, <2>5 DEF On
    <3>2. c \in 1 .. 13 /\ band = None
      BY <2>4, <3>1
    <3> HIDE DEF band
    <3> QED
      BY <2>4, <3>1, <3>2, FrequencyOfChannel
  <2>6. CASE r = [first |-> 4910, last |-> 4980, base |-> 4000]
    <3>1. f \in 4910 .. 4980 /\ 5 * c = f - 4000
      BY <2>1, <2>4, <2>6 DEF On
    <3>2. c \in 182 .. 196 /\ band = None
      BY <2>4, <3>1
    <3> HIDE DEF band
    <3> QED
      BY <2>4, <3>1, <3>2, FrequencyOfChannel
  <2>7. CASE r = [first |-> 5005, last |-> 5895, base |-> 5000]
    <3>1. f \in 5005 .. 5895 /\ 5 * c = f - 5000
      BY <2>1, <2>4, <2>7 DEF On
    <3>2. CASE f \in 5005 .. 5070
      <4>1. c \in 1 .. 14 /\ band = "5"
        BY <2>4, <3>1, <3>2
      <4> HIDE DEF band
      <4> QED
        BY <2>4, <3>1, <4>1, FrequencyOfChannel
    <3>3. CASE f \notin 5005 .. 5070
      <4>1. c \in 15 .. 179 /\ band = None
        BY <2>4, <3>1, <3>3, SMTT(30)
      <4> HIDE DEF band
      <4> QED
        BY <2>4, <3>1, <4>1, FrequencyOfChannel
    <3> QED
      BY <3>2, <3>3
  <2>8. CASE r = [first |-> 5955, last |-> 7115, base |-> 5950]
    <3>1. f \in 5955 .. 7115 /\ 5 * c = f - 5950
      BY <2>1, <2>4, <2>8 DEF On
    <3>2. c \in 1 .. 233 /\ c # 2
      BY <2>4, <3>1
    <3>3. band = "6"
      BY <3>1
    <3> HIDE DEF band
    <3> QED
      BY <2>4, <3>1, <3>2, <3>3, FrequencyOfChannel
  <2> QED
    BY <2>5, <2>6, <2>7, <2>8 DEF Rasters
<1> QED
  BY <1>1, <1>2, <1>3

-----------------------------------------------------------------------------
(* The verdict.                                                            *)

(* A finite set of numbers has a least element.                            *)
LEMMA FiniteMin ==
    ASSUME NEW S \in SUBSET Int, IsFiniteSet(S), S # {}
    PROVE  Min(S) \in S
<1> DEFINE Below(x) == {y \in S : y < x}
           T == {Below(x) : x \in S}
<1>1. IsWellFoundedOn(StrictSubsetOrdering(S), SUBSET S)
  BY FS_StrictSubsetOrderingWellFounded, FS_FiniteSubsetsOfFinite
<1>2. T \subseteq SUBSET S /\ T # {}
  OBVIOUS
<1>3. \E A \in T : \A B \in T : <<B, A>> \notin StrictSubsetOrdering(S)
  <2> HIDE DEF T
  <2> QED
    BY <1>1, <1>2, WFMin
<1>4. PICK x \in S : \A B \in T : <<B, Below(x)>> \notin StrictSubsetOrdering(S)
  BY <1>3
<1>5. \A y \in S : x <= y
  <2> SUFFICES ASSUME NEW y \in S, y < x PROVE FALSE
    OBVIOUS
  <2>1. Below(y) \subseteq Below(x) /\ y \in Below(x) /\ y \notin Below(y)
    <3>1. \A z \in S : z \in Int
      OBVIOUS
    <3>2. \A z \in S : z < y => z < x
      BY <3>1
    <3>3. ~(y < y)
      BY <3>1
    <3> HIDE DEF T
    <3> QED
      BY <3>2, <3>3
  <2>2. <<Below(y), Below(x)>> \in StrictSubsetOrdering(S)
    BY <2>1 DEF StrictSubsetOrdering
  <2> QED
    BY <1>4, <2>2
<1>6. \E z \in S : \A y \in S : z <= y
  BY <1>5
<1> QED
  BY <1>6 DEF Min

(* So has a nonempty set of positions of a list.                           *)
LEMMA LeastPosition ==
    ASSUME NEW n \in Nat, NEW S \in SUBSET (1 .. n), S # {}
    PROVE  Min(S) \in S
<1>1. IsFiniteSet(1 .. n)
  BY FS_Interval
<1>2. IsFiniteSet(S)
  BY <1>1, FS_Subset
<1>3. S \in SUBSET Int
  OBVIOUS
<1> QED
  BY <1>2, <1>3, FiniteMin

(* A packet is refused by the first obstacle it meets, or by the frame, or *)
(* it is accepted.                                                         *)
LEMMA VerdictParts ==
    ASSUME NEW obstacles, DOMAIN obstacles = 1 .. 14, NEW frame
    PROVE  LET v == Verdict(obstacles, frame)
           IN  \/ \E i \in 1 .. 14 : obstacles[i].when /\ v = obstacles[i].verdict
               \/ (\A i \in 1 .. 14 : ~obstacles[i].when)
                  /\ ~ValidFrame(frame) /\ v = Rejected("parser_error")
               \/ (\A i \in 1 .. 14 : ~obstacles[i].when)
                  /\ ValidFrame(frame) /\ v = Accepted(frame)
<1> DEFINE v == Verdict(obstacles, frame)
           met == {i \in DOMAIN obstacles : obstacles[i].when}
<1>1. CASE met # {}
  <2>1. met \in SUBSET (1 .. 14) /\ v = obstacles[Min(met)].verdict
    BY <1>1 DEF Verdict
  <2>2. Min(met) \in met
    <3> HIDE DEF met
    <3> QED
      BY <1>1, <2>1, LeastPosition
  <2> QED
    BY <2>1, <2>2
<1>2. CASE met = {}
  <2>1. \/ ~ValidFrame(frame) /\ v = Rejected("parser_error")
        \/ ValidFrame(frame) /\ v = Accepted(frame)
    BY <1>2, Zenon DEF Verdict
  <2> QED
    BY <1>2, <2>1
<1> QED
  BY <1>1, <1>2

(* None of the obstacles of parse lets a packet pass.                      *)
LEMMA ObstaclesRefuse ==
    ASSUME NEW p, NEW code, NEW radio, NEW management
    PROVE  /\ DOMAIN Obstacles(p, code, radio, management) = 1 .. 14
           /\ \A i \in 1 .. 14 :
                 Obstacles(p, code, radio, management)[i].verdict.disposition # "accepted"
  BY DEF Obstacles, Ignored, Rejected

-----------------------------------------------------------------------------
(* Security profiles.                                                      *)

(* What the canonical form changes.                                        *)
LEMMA CanonicalFields ==
    ASSUME NEW class, NEW protocols, NEW group, NEW pairwise, NEW akms,
           NEW capable, NEW required, NEW fingerprint, NEW p,
           p = [classification |-> class, protocols |-> protocols,
                group |-> group, pairwise |-> pairwise, akms |-> akms,
                pmf_capable |-> capable, pmf_required |-> required,
                fingerprint |-> fingerprint]
    PROVE  CanonicalProfile(p) =
               [classification |-> class, protocols |-> Canonical(protocols),
                group |-> group, pairwise |-> Canonical(pairwise),
                akms |-> Canonical(akms), pmf_capable |-> capable,
                pmf_required |-> required, fingerprint |-> fingerprint]
<1> DEFINE q == [p EXCEPT !.protocols = Canonical(@)]
           r == [q EXCEPT !.pairwise = Canonical(@)]
<1>1. CanonicalProfile(p) = [r EXCEPT !.akms = Canonical(@)]
  BY Zenon DEF CanonicalProfile
<1>2. q = [classification |-> class, protocols |-> Canonical(protocols),
           group |-> group, pairwise |-> pairwise, akms |-> akms,
           pmf_capable |-> capable, pmf_required |-> required,
           fingerprint |-> fingerprint]
  OBVIOUS
<1> HIDE DEF q
<1>3. r = [classification |-> class, protocols |-> Canonical(protocols),
           group |-> group, pairwise |-> Canonical(pairwise), akms |-> akms,
           pmf_capable |-> capable, pmf_required |-> required,
           fingerprint |-> fingerprint]
  BY <1>2
<1> HIDE DEF r
<1> QED
  BY <1>1, <1>3

(* Profiles with one canonical form make one security profile.             *)
LEMMA SameProfile ==
    ASSUME NEW p, NEW q, CanonicalProfile(p) = CanonicalProfile(q),
           p.fingerprint = q.fingerprint
    PROVE  SecurityProfile(p) = SecurityProfile(q)
<1>1. Fingerprint(p) = Fingerprint(q)
  BY Zenon DEF Fingerprint
<1> QED
  BY <1>1, Zenon DEF SecurityProfile

(* What the security fields of a layer say does not depend on the order in *)
(* which a process iterates its sets.                                      *)
LEMMA SameSecurity ==
    ASSUME NEW o1 \in Orders, NEW o2 \in Orders, NEW layer, NEW privacy
    PROVE  SecurityOf(layer, privacy, o1) = SecurityOf(layer, privacy, o2)
<1> DEFINE akms == Suites(layer, <<"akm_suites", "rsn_akm", "wpa_akm">>, AkmTypes)
           group == Suites(layer, <<"group_cipher", "rsn_group", "wpa_group">>, CipherTypes)
           protocols == ProtocolsOf(layer, Range(akms))
           class == Classification(layer, privacy, protocols)
           first == IF group = <<>> THEN None ELSE Head(group)
           pairwise == Suites(layer, <<"pairwise_ciphers", "rsn_pairwise",
                                       "wpa_pairwise">>, CipherTypes)
           capable == ParseBool(Field(layer, <<"pmf_capable">>))
           required == ParseBool(Field(layer, <<"pmf_required">>))
           P(o) == [classification |-> class, protocols |-> o[protocols],
                    group |-> first, pairwise |-> pairwise, akms |-> akms,
                    pmf_capable |-> capable, pmf_required |-> required,
                    fingerprint |-> None]
<1>1. protocols \in SUBSET Protocols
  BY DEF ProtocolsOf, Protocols
<1>2. Range(o1[protocols]) = Range(o2[protocols])
  <2> HIDE DEF protocols
  <2> QED
    BY <1>1, ParserAssumption
<1>3. SecurityProfile(P(o1)) = SecurityProfile(P(o2))
  <2> DEFINE a == o1[protocols]
             b == o2[protocols]
  <2>1. P(o1).fingerprint = None /\ P(o2).fingerprint = None
    OBVIOUS
  <2>2. Canonical(a) = Canonical(b)
    BY <1>2, Zenon DEF Canonical
  <2> HIDE DEF class, first, pairwise, akms, capable, required, a, b
  <2>3. CanonicalProfile(P(o1)) =
           [classification |-> class, protocols |-> Canonical(a),
            group |-> first, pairwise |-> Canonical(pairwise),
            akms |-> Canonical(akms), pmf_capable |-> capable,
            pmf_required |-> required, fingerprint |-> None]
    BY CanonicalFields DEF a
  <2>4. CanonicalProfile(P(o2)) =
           [classification |-> class, protocols |-> Canonical(b),
            group |-> first, pairwise |-> Canonical(pairwise),
            akms |-> Canonical(akms), pmf_capable |-> capable,
            pmf_required |-> required, fingerprint |-> None]
    BY CanonicalFields DEF b
  <2>5. CanonicalProfile(P(o1)) = CanonicalProfile(P(o2))
    BY <2>2, <2>3, <2>4
  <2> HIDE DEF P
  <2> QED
    BY <2>1, <2>5, SameProfile
<1>4. \A o : SecurityOf(layer, privacy, o) =
                IF class \in {None, Invalid} THEN class ELSE SecurityProfile(P(o))
  BY Zenon DEF SecurityOf
<1> HIDE DEF P, class
<1> QED
  BY <1>3, <1>4

(* The same management fields and the same warnings in every process.      *)
LEMMA OrderIrrelevant ==
    ASSUME NEW o1 \in Orders, NEW o2 \in Orders, NEW p, NEW mode
    PROVE  Parsed(p, mode, o1) = Parsed(p, mode, o2)
<1>1. ASSUME NEW subtype, NEW privacy
      PROVE  SecurityFound(p, subtype, privacy, o1) = SecurityFound(p, subtype, privacy, o2)
  <2>1. SecurityOf(p.wlan, privacy, o1) = SecurityOf(p.wlan, privacy, o2)
    BY SameSecurity
  <2>2. SecurityOf(Or(p.wlan_mgt, p.wlan), privacy, o1)
        = SecurityOf(Or(p.wlan_mgt, p.wlan), privacy, o2)
    BY SameSecurity
  <2> QED
    BY <2>1, <2>2, Zenon DEF SecurityFound
<1>2. ASSUME NEW subtype
      PROVE  Management(p, subtype, o1) = Management(p, subtype, o2)
  BY <1>1, Zenon DEF Management
<1>3. ASSUME NEW subtype
      PROVE  Malformed(p, subtype, o1) = Malformed(p, subtype, o2)
  BY <1>1, Zenon DEF Malformed
<1> QED
  BY <1>2, <1>3, Zenon DEF Parsed

-----------------------------------------------------------------------------
(* Live and replay.                                                        *)

(* The frames of the two modes differ only in where they come from.        *)
LEMMA SameSemantics ==
    ASSUME NEW p, NEW code, NEW radio, NEW management, NEW malformed,
           NEW f, f = FrameOf(p, "live", code, radio, management, malformed),
           NEW g, g = FrameOf(p, "replay", code, radio, management, malformed)
    PROVE  /\ Semantics(f) = Semantics(g)
           /\ ValidFrame(f) <=> ValidFrame(g)
<1> DEFINE Own == {"packet_number", "observed_at", "captured_length", "original_length",
                   "subtype", "subtype_code", "addresses", "sequence", "flags", "radio",
                   "management", "evidence", "status", "warnings"}
           Origins == {"ingested_at", "capture_source", "interface_name"}
<1>1. DOMAIN f = Own \cup Origins /\ DOMAIN g = Own \cup Origins
  BY DEF FrameOf
<1>2. \A k \in Own : f[k] = g[k]
  <2>1. /\ f["packet_number"] = g["packet_number"]
        /\ f["observed_at"] = g["observed_at"]
        /\ f["captured_length"] = g["captured_length"]
        /\ f["original_length"] = g["original_length"]
        /\ f["subtype"] = g["subtype"]
        /\ f["subtype_code"] = g["subtype_code"]
        /\ f["addresses"] = g["addresses"]
        /\ f["sequence"] = g["sequence"]
        /\ f["flags"] = g["flags"]
        /\ f["radio"] = g["radio"]
        /\ f["management"] = g["management"]
        /\ f["evidence"] = g["evidence"]
        /\ f["status"] = g["status"]
        /\ f["warnings"] = g["warnings"]
    BY DEF FrameOf
  <2> QED
    BY ONLY <2>1
<1>3. Semantics(f) = [k \in Own |-> f[k]] /\ Semantics(g) = [k \in Own |-> g[k]]
  <2>1. (Own \cup Origins) \ Origins = Own
    OBVIOUS
  <2> HIDE DEF Own
  <2> QED
    BY <1>1, <2>1 DEF Semantics
<1>4. Semantics(f) = Semantics(g)
  <2> HIDE DEF Own
  <2> QED
    BY <1>2, <1>3
<1>5. ValidFrame(f) <=> ValidFrame(g)
  BY <1>2 DEF ValidFrame
<1> QED
  BY <1>4, <1>5

(* Live and replay give one verdict, and frames that mean the same.        *)
LEMMA ModesAgree ==
    ASSUME NEW o1 \in Orders, NEW o2 \in Orders, NEW p,
           NEW r, r = Parsed(p, "live", o1),
           NEW q, q = Parsed(p, "replay", o2)
    PROVE  /\ r.reason = q.reason
           /\ r.disposition = "accepted" => Semantics(r.frame) = Semantics(q.frame)
<1> DEFINE code == ParseInt(Field(p.wlan, <<"fc_subtype">>))
           radio == Radio(p)
           management == Management(p, SubtypeByCode[code], o1)
           malformed == Malformed(p, SubtypeByCode[code], o1)
           obstacles == Obstacles(p, code, radio, management)
           f == FrameOf(p, "live", code, radio, management, malformed)
           g == FrameOf(p, "replay", code, radio, management, malformed)
<1>1. q = Parsed(p, "replay", o1)
  BY OrderIrrelevant
<1>2. r = Verdict(obstacles, f) /\ q = Verdict(obstacles, g)
  BY <1>1, Zenon DEF Parsed, Judged
<1>3. Semantics(f) = Semantics(g) /\ (ValidFrame(f) <=> ValidFrame(g))
  BY SameSemantics
<1>4. /\ DOMAIN obstacles = 1 .. 14
      /\ \A i \in 1 .. 14 : obstacles[i].verdict.disposition # "accepted"
  BY ObstaclesRefuse
<1> HIDE DEF obstacles, f, g
<1> DEFINE met == {i \in DOMAIN obstacles : obstacles[i].when}
<1>5. CASE met # {}
  <2>1. r = obstacles[Min(met)].verdict /\ q = obstacles[Min(met)].verdict
    BY <1>2, <1>5 DEF Verdict
  <2>2. Min(met) \in 1 .. 14
    <3>1. met \in SUBSET (1 .. 14)
      BY <1>4
    <3> HIDE DEF met
    <3>2. Min(met) \in met
      BY <1>5, <3>1, LeastPosition
    <3> QED
      BY <3>1, <3>2
  <2> QED
    BY <1>4, <2>1, <2>2
<1>6. CASE met = {} /\ ValidFrame(f)
  <2>1. r = Accepted(f) /\ q = Accepted(g)
    BY <1>2, <1>3, <1>6, Zenon DEF Verdict
  <2> QED
    BY <1>3, <2>1 DEF Accepted
<1>7. CASE met = {} /\ ~ValidFrame(f)
  <2>1. r = Rejected("parser_error") /\ q = Rejected("parser_error")
    BY <1>2, <1>3, <1>7, Zenon DEF Verdict
  <2> QED
    BY <2>1 DEF Rejected
<1> QED
  BY <1>5, <1>6, <1>7

-----------------------------------------------------------------------------
(* Results.                                                                *)

(* Every result is what parse makes of the packet in some order.           *)
Origin ==
    /\ packet \in Packets
    /\ DOMAIN result = Modes
    /\ \A m \in Modes : Done(m) => \E o \in Orders : result[m] = Parsed(packet, m, o)

(* What is remembered of a parse is what parse returned for this packet    *)
(* (PacketParser.parse).                                                   *)
THEOREM ResultsAreParsed == Spec => []Origin
<1>1. Init => Origin
  BY DEF Init, Origin, Done
<1>2. Origin /\ [Next]_vars => Origin'
  <2> SUFFICES ASSUME Origin, [Next]_vars PROVE Origin'
    OBVIOUS
  <2>1. CASE UNCHANGED vars
    BY <2>1 DEF vars, Origin, Done
  <2>2. ASSUME NEW mode \in Modes, Parse(mode) PROVE Origin'
    <3>1. PICK o \in Orders : result' = [result EXCEPT ![mode] = Parsed(packet, mode, o)]
      BY <2>2, Zenon DEF Parse
    <3>2. packet' = packet
      BY <2>2, Zenon DEF Parse
    <3> QED
      BY <3>1, <3>2 DEF Origin, Done
  <2> QED
    BY <2>1, <2>2 DEF Next
<1> QED
  BY <1>1, <1>2, PTL DEF Spec

(* For any packets and any iteration orders, the replay of the evidence    *)
(* has the verdict and the frame of the live capture (semantic_dict), if   *)
(* the two envelopes agree, as FrameOf supposes.                           *)
THEOREM ReplayIsEquivalent == Spec => []ReplayEquivalence
<1>1. Origin => ReplayEquivalence
  <2> SUFFICES ASSUME Origin, \A m \in Modes : Done(m)
               PROVE  /\ result["live"].reason = result["replay"].reason
                      /\ AcceptedIn("live") =>
                            Semantics(FrameIn("live")) = Semantics(FrameIn("replay"))
    BY DEF ReplayEquivalence
  <2>1. PICK o1 \in Orders : result["live"] = Parsed(packet, "live", o1)
    BY DEF Origin, Modes
  <2>2. PICK o2 \in Orders : result["replay"] = Parsed(packet, "replay", o2)
    BY DEF Origin, Modes
  <2>3. /\ result["live"].reason = result["replay"].reason
        /\ result["live"].disposition = "accepted" =>
              Semantics(result["live"].frame) = Semantics(result["replay"].frame)
    BY <2>1, <2>2, ModesAgree
  <2> QED
    BY <2>3, Zenon DEF AcceptedIn, FrameIn
<1> QED
  BY <1>1, ResultsAreParsed, PTL

-----------------------------------------------------------------------------
(* Canonical profiles.                                                     *)

(* A finite set has an arrangement, and that is one.                       *)
LEMMA ArrangedRange ==
    ASSUME NEW S, IsFiniteSet(S)
    PROVE  Range(Arranged(S)) = S
<1> DEFINE n == Cardinality(S)
<1>1. ExistsBijection(1 .. n, S)
  BY FS_CardinalityType
<1>2. PICK s \in Bijection(1 .. n, S) : TRUE
  BY <1>1 DEF ExistsBijection
<1>3. s \in [1 .. n -> S] /\ \A y \in S : \E i \in 1 .. n : s[i] = y
  BY <1>2 DEF Bijection, Surjection
<1>4. Range(s) = S
  BY <1>3 DEF Range
<1> QED
  BY <1>3, <1>4, Zenon DEF Arranged

(* Sorting what is sorted changes nothing.                                 *)
LEMMA CanonicalTwice ==
    ASSUME NEW names, IsFiniteSet(Range(names))
    PROVE  Canonical(Canonical(names)) = Canonical(names)
  BY ArrangedRange DEF Canonical

(* A profile of finite lists is made once: making it again changes nothing *)
(* and finds its fingerprint right.                                        *)
LEMMA ProfileTwice ==
    ASSUME NEW class, NEW protocols, NEW group, NEW pairwise, NEW akms,
           NEW capable, NEW required,
           IsFiniteSet(Range(protocols)), IsFiniteSet(Range(pairwise)),
           IsFiniteSet(Range(akms)),
           NEW p,
           p = [classification |-> class, protocols |-> protocols,
                group |-> group, pairwise |-> pairwise, akms |-> akms,
                pmf_capable |-> capable, pmf_required |-> required,
                fingerprint |-> None]
    PROVE  SecurityProfile(SecurityProfile(p)) = SecurityProfile(p)
<1> DEFINE F == Fingerprint(p)
           sortedProtocols == Canonical(protocols)
           sortedPairwise == Canonical(pairwise)
           sortedAkms == Canonical(akms)
           c == CanonicalProfile(p)
           made == [c EXCEPT !.fingerprint = F]
<1>1. SecurityProfile(p) = made
  <2>1. p.fingerprint = None
    OBVIOUS
  <2> QED
    BY <2>1, Zenon DEF SecurityProfile
<1>2. c = [classification |-> class, protocols |-> sortedProtocols,
           group |-> group, pairwise |-> sortedPairwise, akms |-> sortedAkms,
           pmf_capable |-> capable, pmf_required |-> required,
           fingerprint |-> None]
  BY CanonicalFields
<1>3. /\ Canonical(sortedProtocols) = sortedProtocols
      /\ Canonical(sortedPairwise) = sortedPairwise
      /\ Canonical(sortedAkms) = sortedAkms
  BY CanonicalTwice
<1> HIDE DEF sortedProtocols, sortedPairwise, sortedAkms, F, c
<1>4. made = [classification |-> class, protocols |-> sortedProtocols,
              group |-> group, pairwise |-> sortedPairwise, akms |-> sortedAkms,
              pmf_capable |-> capable, pmf_required |-> required,
              fingerprint |-> F]
  BY <1>2
<1>5. CanonicalProfile(made) = made
  <2>1. CanonicalProfile(made) =
           [classification |-> class, protocols |-> Canonical(sortedProtocols),
            group |-> group, pairwise |-> Canonical(sortedPairwise),
            akms |-> Canonical(sortedAkms), pmf_capable |-> capable,
            pmf_required |-> required, fingerprint |-> F]
    BY <1>4, CanonicalFields
  <2> QED
    BY <1>3, <1>4, <2>1
<1>6. CanonicalPayload(made) = CanonicalPayload(c)
  BY <1>2, <1>4 DEF CanonicalPayload
<1>7. made.fingerprint = F
  BY <1>4
<1> HIDE DEF made
<1>8. Fingerprint(made) = F
  BY <1>5, <1>6, Zenon DEF Fingerprint, F, c
<1>9. SecurityProfile(made) = [made EXCEPT !.fingerprint = F]
  BY <1>5, <1>7, <1>8, Zenon DEF SecurityProfile
<1>10. [made EXCEPT !.fingerprint = F] = made
  BY <1>4
<1> QED
  BY <1>1, <1>9, <1>10

(* The suites of a layer are finitely many.                                *)
LEMMA FiniteSuites ==
    ASSUME NEW p \in Packets, NEW layer \in {p.wlan_mgt, p.wlan},
           NEW names, DOMAIN names = 1 .. 3, Range(names) \subseteq Lists, NEW table
    PROVE  IsFiniteSet(Range(Suites(layer, names, table)))
<1> DEFINE values == FieldValues(Field(layer, names))
           present == {i \in DOMAIN names : layer # None /\ names[i] \in DOMAIN layer}
           suites == Suites(layer, names, table)
<1>1. IsFiniteSet(DOMAIN values)
  <2>1. CASE Field(layer, names) = Missing
    <3>1. values = << >>
      BY <2>1 DEF FieldValues
    <3>2. DOMAIN values = {}
      BY <3>1
    <3> QED
      BY <3>2, FS_EmptySet
  <2>2. CASE Field(layer, names) # Missing
    <3>1. present # {}
      BY <2>2, Zenon DEF Field
    <3>2. present \in SUBSET (1 .. 3)
      OBVIOUS
    <3> HIDE DEF present
    <3>3. Min(present) \in present
      BY <3>1, <3>2, LeastPosition
    <3> USE DEF present
    <3> DEFINE n == names[Min(present)]
    <3>4. values = layer[n]
      BY <2>2, <3>1, Zenon DEF Field, FieldValues
    <3>5. layer # None /\ n \in DOMAIN layer /\ n \in Lists
      BY <3>3 DEF Range
    <3>6. \A l \in {"wlan", "wlan_mgt"} : p[l] # None =>
             \A k \in Lists \cap DOMAIN p[l] : IsFiniteSet(DOMAIN p[l][k])
      BY ParserAssumption
    <3> HIDE DEF n, values
    <3> QED
      BY <3>4, <3>5, <3>6
  <2> QED
    BY <2>1, <2>2
<1>2. suites = [i \in DOMAIN values |-> CanonicalSuite(values[i], table)]
  BY Zenon DEF Suites
<1> HIDE DEF values
<1>3. DOMAIN suites = DOMAIN values
  BY <1>2
<1> HIDE DEF suites
<1>4. suites \in Surjection(DOMAIN values, Range(suites))
  <2>1. suites \in [DOMAIN values -> Range(suites)]
    BY <1>2, <1>3 DEF Range
  <2>2. \A y \in Range(suites) : \E i \in DOMAIN values : suites[i] = y
    BY <1>3 DEF Range
  <2> QED
    BY <2>1, <2>2 DEF Surjection
<1> DEFINE D == DOMAIN values
           R == Range(suites)
<1> HIDE DEF D, R
<1>5. suites \in Surjection(D, R) /\ IsFiniteSet(D)
  BY <1>1, <1>4 DEF D, R
<1>6. IsFiniteSet(R)
  BY <1>5, FS_Surjection
<1> QED
  BY <1>6 DEF R, suites

(* The security profile that a layer gives is made once.                   *)
LEMMA SecurityTwice ==
    ASSUME NEW o \in Orders, NEW p \in Packets, NEW layer \in {p.wlan_mgt, p.wlan},
           NEW privacy, SecurityOf(layer, privacy, o) \notin {None, Invalid}
    PROVE  SecurityProfile(SecurityOf(layer, privacy, o)) = SecurityOf(layer, privacy, o)
<1> DEFINE akms == Suites(layer, <<"akm_suites", "rsn_akm", "wpa_akm">>, AkmTypes)
           group == Suites(layer, <<"group_cipher", "rsn_group", "wpa_group">>, CipherTypes)
           protocols == ProtocolsOf(layer, Range(akms))
           class == Classification(layer, privacy, protocols)
           first == IF group = <<>> THEN None ELSE Head(group)
           pairwise == Suites(layer, <<"pairwise_ciphers", "rsn_pairwise",
                                       "wpa_pairwise">>, CipherTypes)
           capable == ParseBool(Field(layer, <<"pmf_capable">>))
           required == ParseBool(Field(layer, <<"pmf_required">>))
           listed == o[protocols]
           P == [classification |-> class, protocols |-> listed,
                 group |-> first, pairwise |-> pairwise, akms |-> akms,
                 pmf_capable |-> capable, pmf_required |-> required,
                 fingerprint |-> None]
<1>1. SecurityOf(layer, privacy, o) =
         IF class \in {None, Invalid} THEN class ELSE SecurityProfile(P)
  BY Zenon DEF SecurityOf
<1>2. IsFiniteSet(Range(akms)) /\ IsFiniteSet(Range(pairwise))
  <2> DEFINE akmNames == <<"akm_suites", "rsn_akm", "wpa_akm">>
             pairwiseNames == <<"pairwise_ciphers", "rsn_pairwise", "wpa_pairwise">>
  <2>1. DOMAIN akmNames = 1 .. 3 /\ Range(akmNames) \subseteq Lists
    BY DEF Range, Lists
  <2>2. DOMAIN pairwiseNames = 1 .. 3 /\ Range(pairwiseNames) \subseteq Lists
    BY DEF Range, Lists
  <2>3. IsFiniteSet(Range(Suites(layer, akmNames, AkmTypes)))
    <3> HIDE DEF akmNames
    <3> QED
      BY <2>1, FiniteSuites
  <2>4. IsFiniteSet(Range(Suites(layer, pairwiseNames, CipherTypes)))
    <3> HIDE DEF pairwiseNames
    <3> QED
      BY <2>2, FiniteSuites
  <2> QED
    BY <2>3, <2>4
<1>3. IsFiniteSet(Range(listed))
  <2>1. protocols \in SUBSET Protocols
    BY DEF ProtocolsOf, Protocols
  <2> HIDE DEF protocols
  <2>2. Range(listed) = protocols
    BY <2>1, ParserAssumption
  <2>3. IsFiniteSet(Protocols)
    <3>1. IsFiniteSet({"wpa"}) /\ IsFiniteSet({"wpa2"}) /\ IsFiniteSet({"wpa3"})
      BY FS_Singleton
    <3>2. IsFiniteSet({"wpa"} \cup {"wpa2"})
      BY <3>1, FS_Union
    <3>3. IsFiniteSet(({"wpa"} \cup {"wpa2"}) \cup {"wpa3"})
      BY <3>1, <3>2, FS_Union
    <3>4. Protocols = ({"wpa"} \cup {"wpa2"}) \cup {"wpa3"}
      BY DEF Protocols
    <3> QED
      BY <3>3, <3>4
  <2> QED
    BY <2>1, <2>2, <2>3, FS_Subset
<1> HIDE DEF akms, class, first, pairwise, capable, required, listed
<1>4. SecurityProfile(SecurityProfile(P)) = SecurityProfile(P)
  BY <1>2, <1>3, ProfileTwice
<1> HIDE DEF P
<1> QED
  BY <1>1, <1>4

-----------------------------------------------------------------------------
(* The frame as JSON, and read again.                                      *)

(* What is accepted has met no obstacle, and is the frame made of the      *)
(* packet.                                                                 *)
LEMMA AcceptedFrame ==
    ASSUME NEW o, NEW p, NEW mode, NEW r, r = Parsed(p, mode, o),
           r.disposition = "accepted"
    PROVE  LET code == ParseInt(Field(p.wlan, <<"fc_subtype">>))
               subtype == SubtypeByCode[code]
               management == Management(p, subtype, o)
           IN  /\ r.frame = FrameOf(p, mode, code, Radio(p), management,
                                    Malformed(p, subtype, o))
               /\ ValidFrame(r.frame)
               /\ \A i \in 1 .. 14 : ~Obstacles(p, code, Radio(p), management)[i].when
<1> DEFINE code == ParseInt(Field(p.wlan, <<"fc_subtype">>))
           subtype == SubtypeByCode[code]
           malformed == Malformed(p, subtype, o)
           obstacles == Obstacles(p, code, Radio(p), Management(p, subtype, o))
           f == FrameOf(p, mode, code, Radio(p), Management(p, subtype, o), malformed)
<1>1. r = Verdict(obstacles, f)
  BY Zenon DEF Parsed, Judged
<1>2. /\ DOMAIN obstacles = 1 .. 14
      /\ \A i \in 1 .. 14 : obstacles[i].verdict.disposition # "accepted"
  BY ObstaclesRefuse
<1>3. r.frame = f /\ ValidFrame(f) /\ \A i \in 1 .. 14 : ~obstacles[i].when
  <2> HIDE DEF obstacles, f
  <2>1. /\ ValidFrame(f) /\ r = Accepted(f)
        /\ \A i \in 1 .. 14 : ~obstacles[i].when
    BY <1>1, <1>2, VerdictParts DEF Rejected
  <2> QED
    BY <2>1 DEF Accepted
<1> QED
  BY <1>3, Zenon

(* An address that has been normalized is left as it is.                   *)
LEMMA AddressesTwice ==
    ASSUME NEW a, MacAddresses(a) # Invalid
    PROVE  MacAddresses(MacAddresses(a)) = MacAddresses(a)
<1> DEFINE n == [receiver |-> NormalizeMac(a.receiver),
                 transmitter |-> NormalizeMac(a.transmitter),
                 destination |-> NormalizeOptionalMac(a.destination),
                 source |-> NormalizeOptionalMac(a.source),
                 bssid |-> NormalizeOptionalMac(a.bssid),
                 role |-> a.role]
           again == [receiver |-> NormalizeMac(n.receiver),
                     transmitter |-> NormalizeMac(n.transmitter),
                     destination |-> NormalizeOptionalMac(n.destination),
                     source |-> NormalizeOptionalMac(n.source),
                     bssid |-> NormalizeOptionalMac(n.bssid),
                     role |-> n.role]
<1>1. MacAddresses(a) = n /\ Invalid \notin Range(n)
  BY Zenon DEF MacAddresses
<1>2. ASSUME NEW text, NormalizeMac(text) # Invalid
      PROVE  NormalizeMac(NormalizeMac(text)) = NormalizeMac(text)
  BY <1>2 DEF NormalizeMac
<1>3. ASSUME NEW text, NormalizeOptionalMac(text) # Invalid
      PROVE  NormalizeOptionalMac(NormalizeOptionalMac(text)) = NormalizeOptionalMac(text)
  BY <1>2, <1>3 DEF NormalizeOptionalMac
<1>4. /\ NormalizeMac(a.receiver) # Invalid
      /\ NormalizeMac(a.transmitter) # Invalid
      /\ NormalizeOptionalMac(a.destination) # Invalid
      /\ NormalizeOptionalMac(a.source) # Invalid
      /\ NormalizeOptionalMac(a.bssid) # Invalid
  <2>1. /\ n["receiver"] \in Range(n)
        /\ n["transmitter"] \in Range(n)
        /\ n["destination"] \in Range(n)
        /\ n["source"] \in Range(n)
        /\ n["bssid"] \in Range(n)
    BY DEF Range
  <2> QED
    BY <1>1, <2>1
<1>5. again = n
  BY <1>2, <1>3, <1>4
<1>6. MacAddresses(n) = again
  BY <1>1, <1>5, Zenon DEF MacAddresses
<1> QED
  BY <1>1, <1>5, <1>6, Zenon

(* Management fields that are accepted are those that were found.          *)
LEMMA ManagementMade ==
    ASSUME NEW o, NEW p, NEW subtype, NEW m, m = Management(p, subtype, o), m # Invalid
    PROVE  LET privacy == ParseBool(Field(Or(p.wlan_mgt, p.wlan), <<"privacy">>))
               found == SecurityFound(p, subtype, privacy, o)
           IN  /\ ManagementFields(m) = m
               /\ m.security = IF found = Invalid THEN None ELSE found
               /\ m.ssid_state = SsidFields(p, subtype).ssid_state
               /\ [m EXCEPT !.security = m.security] = m
<1> DEFINE layer == Or(p.wlan_mgt, p.wlan)
           number(name) == ParseInt(Field(layer, <<name>>))
           privacy == ParseBool(Field(layer, <<"privacy">>))
           found == SecurityFound(p, subtype, privacy, o)
           security == IF found = Invalid THEN None ELSE found
           ssid == SsidFields(p, subtype)
           state == ssid.ssid_state
           stable == [advertised_channel |-> number("advertised_channel"),
                      beacon_interval |-> number("beacon_interval"),
                      privacy |-> privacy,
                      security |-> IF security = None THEN None ELSE security.fingerprint,
                      ssid_hex |-> ssid.ssid_hex]
           fields == [advertised_channel |-> number("advertised_channel"),
                      reason |-> number("reason"),
                      status |-> number("status"),
                      auth_algorithm |-> number("auth_algorithm"),
                      auth_sequence |-> number("auth_sequence"),
                      beacon_interval |-> number("beacon_interval"),
                      ssid |-> ssid.ssid,
                      ssid_hex |-> ssid.ssid_hex,
                      ssid_state |-> state,
                      privacy |-> privacy,
                      ie_fingerprint |-> IeFingerprint(layer, stable),
                      security |-> security]
<1>1. m = ManagementFields(fields)
  BY Zenon DEF Management
<1>2. /\ fields.security = security
      /\ fields.ssid_state = state
      /\ [fields EXCEPT !.security = security] = fields
  <2> HIDE DEF layer, number, privacy, found, security, ssid, state, stable
  <2> QED
    OBVIOUS
<1> HIDE DEF fields
<1>3. m = fields
  BY <1>1, Zenon DEF ManagementFields
<1>4. ManagementFields(m) = m
  BY <1>1, <1>3, Zenon
<1> QED
  BY <1>2, <1>3, <1>4, Zenon

(* So are management fields, their security profile included.              *)
LEMMA ManagementTwice ==
    ASSUME NEW o \in Orders, NEW p \in Packets, NEW subtype,
           NEW m, m = Management(p, subtype, o), m # Invalid
    PROVE  RebuiltManagement(m) = m
<1> DEFINE layer == Or(p.wlan_mgt, p.wlan)
           privacy == ParseBool(Field(layer, <<"privacy">>))
           found == SecurityFound(p, subtype, privacy, o)
<1>1. /\ ManagementFields(m) = m
      /\ m.security = IF found = Invalid THEN None ELSE found
      /\ [m EXCEPT !.security = m.security] = m
  BY ManagementMade
<1>2. m.security = None \/ SecurityProfile(m.security) = m.security
  <2> SUFFICES ASSUME found # Invalid, found # None
               PROVE  SecurityProfile(found) = found
    BY <1>1, Zenon
  <2>1. \/ found = SecurityOf(layer, privacy, o)
        \/ found = SecurityOf(p.wlan, privacy, o)
    BY Zenon DEF SecurityFound
  <2>2. layer \in {p.wlan_mgt, p.wlan}
    BY DEF Or
  <2>3. p.wlan \in {p.wlan_mgt, p.wlan}
    OBVIOUS
  <2> HIDE DEF layer, privacy, found
  <2>4. CASE found = SecurityOf(layer, privacy, o)
    BY <2>2, <2>4, SecurityTwice
  <2>5. CASE found = SecurityOf(p.wlan, privacy, o)
    BY <2>3, <2>5, SecurityTwice
  <2> QED
    BY <2>1, <2>4, <2>5
<1>3. (IF m.security = None THEN None ELSE SecurityProfile(m.security)) = m.security
  BY <1>2, Zenon
<1>4. [m EXCEPT !.security = IF @ = None THEN None ELSE SecurityProfile(@)] = m
  BY <1>1, <1>3, Zenon
<1> QED
  BY <1>1, <1>4, Zenon DEF RebuiltManagement

(* The radio values of a packet, each within its range or dropped.         *)
LEMMA RadioMade ==
    ASSUME NEW p
    PROVE  \E r, channel :
              /\ Radio(p) = RadioMetadata(r)
              /\ r.fcs = FcsStatus(p)
              /\ LET value(name) == ParseInt(FirstField(<<p.wlan_radio, p.radiotap>>, name))
                     frequency == value("frequency")
                 IN  /\ r.channel = Bounded(channel, 1, 233)
                     /\ r.frequency = IF frequency # None /\ frequency >= 1
                                      THEN frequency ELSE None
                     /\ channel = IF value("channel") = None /\ frequency # None
                                  THEN FrequencyToChannel(frequency)
                                  ELSE value("channel")
<1> DEFINE value(name) == ParseInt(FirstField(<<p.wlan_radio, p.radiotap>>, name))
           frequency == value("frequency")
           channel == IF value("channel") = None /\ frequency # None
                      THEN FrequencyToChannel(frequency) ELSE value("channel")
           atLeast(v, low) == IF v # None /\ v >= low THEN v ELSE None
           r == [channel |-> Bounded(channel, 1, 233),
                 frequency |-> atLeast(frequency, 1),
                 signal |-> Bounded(value("signal"), -127, 0),
                 noise |-> Bounded(value("noise"), -127, 0),
                 rate |-> atLeast(value("rate"), 1),
                 antenna |-> atLeast(value("antenna"), 0),
                 fcs |-> FcsStatus(p)]
<1>1. Radio(p) = RadioMetadata(r)
  BY Zenon DEF Radio
<1>2. /\ r.channel = Bounded(channel, 1, 233)
      /\ r.frequency = atLeast(frequency, 1)
      /\ r.fcs = FcsStatus(p)
  <2> HIDE DEF value, channel
  <2> QED
    OBVIOUS
<1> HIDE DEF r
<1> QED
  BY <1>1, <1>2, Zenon

(* So is a whole frame.                                                    *)
LEMMA FrameTwice ==
    ASSUME NEW o \in Orders, NEW p \in Packets, NEW mode, NEW code, NEW subtype,
           NEW malformed, NEW f,
           f = FrameOf(p, mode, code, Radio(p), Management(p, subtype, o), malformed),
           ValidFrame(f)
    PROVE  Rebuilt(f) = f
<1>1. \E a, s : /\ f.addresses = MacAddresses(a)
                /\ f.sequence = SequenceInfo(s)
  BY DEF FrameOf
<1>2. f.radio = Radio(p) /\ f.management = Management(p, subtype, o)
  BY DEF FrameOf
<1>3. /\ [f EXCEPT !.addresses = f.addresses] = f
      /\ [f EXCEPT !.sequence = f.sequence] = f
      /\ [f EXCEPT !.radio = f.radio] = f
      /\ [f EXCEPT !.management = f.management] = f
  <2> DEFINE source == IF mode = "live" THEN "live" ELSE "pcap"
             interface == IF mode = "live" THEN "wlan0mon" ELSE None
             lengths == FrameLengths(p)
             captured == lengths.captured
             original == lengths.original
             name == SubtypeByCode[code]
             read == Addresses(p)
             kept == [receiver |-> read.receiver, transmitter |-> read.transmitter,
                      destination |-> Kept(read.destination),
                      source |-> Kept(read.source), bssid |-> Kept(read.bssid),
                      role |-> RoleHint(name)]
             radio == Radio(p)
             management == Management(p, subtype, o)
             addresses == MacAddresses(kept)
             lost == malformed
                     \cup MissingSubtypeValues(name, kept.bssid, radio, management)
             mismatch == /\ None \notin {radio.channel, management.advertised_channel}
                         /\ radio.channel # management.advertised_channel
             status == IF lost = {} THEN "complete" ELSE "partial"
             warnings == lost \cup (IF mismatch THEN {"channel_mismatch"} ELSE {})
             observed == ObservedAt(p)
             sequence == SequenceInfo(Sequence(p))
             flags == FrameFlags(p.wlan)
             evidence == [pcap_reference |-> "evidence", frame_sha256 |-> FrameDigest(p)]
  <2>1. f = [capture_source |-> source, interface_name |-> interface,
             ingested_at |-> mode, packet_number |-> 1, observed_at |-> observed,
             captured_length |-> captured, original_length |-> original,
             subtype |-> name, subtype_code |-> code, addresses |-> addresses,
             sequence |-> sequence, flags |-> flags, radio |-> radio,
             management |-> management, evidence |-> evidence, status |-> status,
             warnings |-> warnings]
    BY Zenon DEF FrameOf
  <2> HIDE DEF source, interface, captured, original, name, radio, management,
               addresses, status, warnings, observed, sequence, flags, evidence
  <2> QED
    BY ONLY <2>1
<1>4. /\ f.addresses # Invalid /\ f.sequence # Invalid
      /\ f.radio # Invalid /\ f.management # Invalid
  BY DEF ValidFrame
<1>5. MacAddresses(f.addresses) = f.addresses
  BY <1>1, <1>4, AddressesTwice
<1>6. SequenceInfo(f.sequence) = f.sequence
  <2>1. PICK s : f.sequence = SequenceInfo(s)
    BY <1>1
  <2> QED
    <3>1. f.sequence = s
      BY <1>4, <2>1 DEF SequenceInfo
    <3> QED
      BY <2>1, <3>1, Zenon
<1>7. RadioMetadata(f.radio) = f.radio
  <2>1. PICK r : f.radio = RadioMetadata(r)
    BY <1>2, RadioMade, ZenonT(30)
  <2>2. f.radio = r
    BY <1>4, <2>1, Zenon DEF RadioMetadata
  <2> QED
    BY <2>1, <2>2, Zenon
<1>8. RebuiltManagement(f.management) = f.management
  BY <1>2, <1>4, ManagementTwice
<1> DEFINE g1 == [f EXCEPT !.addresses = MacAddresses(@)]
           g2 == [g1 EXCEPT !.sequence = SequenceInfo(@)]
           g3 == [g2 EXCEPT !.radio = RadioMetadata(@)]
           g4 == [g3 EXCEPT !.management = RebuiltManagement(@)]
<1>9. Rebuilt(f) = Frame(g4)
  BY Zenon DEF Rebuilt
<1>10. g4 = f
  <2>1. g1 = f
    BY <1>3, <1>5, Zenon
  <2>2. g2 = f
    BY <1>3, <1>6, <2>1, Zenon
  <2>3. g3 = f
    BY <1>3, <1>7, <2>2, Zenon
  <2> QED
    BY <1>3, <1>8, <2>3, Zenon
<1> QED
  BY <1>9, <1>10, Zenon DEF Frame

(* For any packets whose lists are finite, an accepted frame survives JSON *)
(* unchanged: every constructor accepts what it made and leaves it as it   *)
(* is (to_json, from_json).                                                *)
THEOREM FramesRoundTrip == Spec => []RoundTrip
<1>1. Origin => RoundTrip
  <2> SUFFICES ASSUME Origin, NEW mode \in Modes, AcceptedIn(mode)
               PROVE  Rebuilt(FrameIn(mode)) = FrameIn(mode)
    BY DEF RoundTrip
  <2>1. PICK o \in Orders : result[mode] = Parsed(packet, mode, o)
    BY DEF Origin, AcceptedIn
  <2>2. packet \in Packets
    BY DEF Origin
  <2> DEFINE r == result[mode]
  <2>3. r.disposition = "accepted"
    BY DEF AcceptedIn
  <2>4. \E code, subtype, malformed :
           /\ r.frame = FrameOf(packet, mode, code, Radio(packet),
                                Management(packet, subtype, o), malformed)
           /\ ValidFrame(r.frame)
    <3>1. r = Parsed(packet, mode, o)
      BY <2>1
    <3> HIDE DEF r
    <3> QED
      BY ONLY <2>3, <3>1, AcceptedFrame, Zenon
  <2>5. Rebuilt(r.frame) = r.frame
    BY <2>2, <2>4, FrameTwice
  <2> QED
    BY <2>5 DEF FrameIn
<1> QED
  BY <1>1, ResultsAreParsed, PTL

(* A channel derived from a frequency, without one of its own, names that  *)
(* frequency, apart from 5960 MHz, for every frequency a packet may give   *)
(* (frequency_to_channel, channel_to_frequency).                           *)
THEOREM ChannelsNameFrequencies == Spec => []ChannelNamesFrequency
<1>1. Origin => ChannelNamesFrequency
  <2> DEFINE given == ParseInt(FirstField(<<packet.wlan_radio, packet.radiotap>>, "channel"))
             frequency == ParseInt(FirstField(<<packet.wlan_radio, packet.radiotap>>,
                                              "frequency"))
             Band(f) == CASE f \in 5005 .. 5070 -> "5"
                          [] f > 5895 -> "6"
                          [] OTHER -> None
  <2> SUFFICES ASSUME Origin, NEW mode \in Modes, AcceptedIn(mode),
                      FrameIn(mode).radio.channel # None, given = None,
                      FrameIn(mode).radio.frequency # 5960
               PROVE  ChannelToFrequency(FrameIn(mode).radio.channel,
                                         Band(FrameIn(mode).radio.frequency))
                      = FrameIn(mode).radio.frequency
    BY DEF ChannelNamesFrequency
  <2> DEFINE radio == FrameIn(mode).radio
  <2>1. PICK o \in Orders : result[mode] = Parsed(packet, mode, o)
    BY DEF Origin, AcceptedIn
  <2>2. radio = Radio(packet) /\ radio # Invalid
    <3> DEFINE r == result[mode]
    <3>1. r.disposition = "accepted"
      BY DEF AcceptedIn
    <3>2. \E code, subtype, malformed :
             /\ r.frame = FrameOf(packet, mode, code, Radio(packet),
                                  Management(packet, subtype, o), malformed)
             /\ ValidFrame(r.frame)
      <4>1. r = Parsed(packet, mode, o)
        BY <2>1
      <4> HIDE DEF r
      <4> QED
        BY ONLY <3>1, <4>1, AcceptedFrame, Zenon
    <3>3. r.frame.radio = Radio(packet)
      BY <3>2 DEF FrameOf
    <3>4. r.frame.radio # Invalid
      BY <3>2 DEF ValidFrame
    <3> QED
      BY <3>3, <3>4 DEF FrameIn
  <2>3. PICK r, channel :
           /\ Radio(packet) = RadioMetadata(r)
           /\ r.channel = Bounded(channel, 1, 233)
           /\ r.frequency = IF frequency # None /\ frequency >= 1
                            THEN frequency ELSE None
           /\ channel = IF given = None /\ frequency # None
                        THEN FrequencyToChannel(frequency) ELSE given
    BY RadioMade
  <2>4. radio = r
    BY <2>2, <2>3 DEF RadioMetadata
  <2> HIDE DEF given, frequency, radio
  <2>5. radio.channel = channel /\ channel # None
    BY <2>3, <2>4 DEF Bounded, radio
  <2>6. frequency # None /\ channel = FrequencyToChannel(frequency)
    BY <2>3, <2>5
  <2>7. CASE frequency = 5960
    BY <2>3, <2>4, <2>6, <2>7 DEF radio
  <2>8. CASE frequency # 5960
    <3>1. /\ frequency \in Nat \ {0}
          /\ ChannelToFrequency(FrequencyToChannel(frequency), Band(frequency)) = frequency
      BY <2>5, <2>6, <2>8, ChannelOfFrequency
    <3>2. radio.frequency = frequency
      BY <2>3, <2>4, <2>6, <3>1
    <3> HIDE DEF Band
    <3> QED
      BY <2>5, <2>6, <3>1, <3>2 DEF radio
  <2> QED
    BY <2>7, <2>8
<1> QED
  BY <1>1, ResultsAreParsed, PTL

-----------------------------------------------------------------------------
(* Completeness.                                                           *)

(* What is read is the value of one of the names.                          *)
LEMMA FieldValue ==
    ASSUME NEW layer, NEW n \in Nat, NEW names, DOMAIN names = 1 .. n,
           Field(layer, names) # Missing
    PROVE  \E k \in Range(names) :
              layer # None /\ k \in DOMAIN layer /\ Field(layer, names) = layer[k]
<1> DEFINE present == {i \in DOMAIN names : layer # None /\ names[i] \in DOMAIN layer}
<1>1. present # {} /\ Field(layer, names) = layer[names[Min(present)]]
  BY Zenon DEF Field
<1>2. present \in SUBSET (1 .. n)
  OBVIOUS
<1>3. Min(present) \in present
  <2> HIDE DEF present
  <2> QED
    BY <1>1, <1>2, LeastPosition
<1>4. names[Min(present)] \in Range(names)
  BY <1>3 DEF Range
<1> QED
  BY <1>1, <1>3, <1>4

(* An address that is given can be read exactly if its text denotes one.   *)
LEMMA AddressRead ==
    ASSUME NEW p \in Packets, NEW names, DOMAIN names = 1 .. 2,
           Range(names) \subseteq AddressFields,
           NEW text, text = Field(p.wlan, names), text # Missing
    PROVE  /\ text.mac = None <=> NormalizeMac(text) = Invalid
           /\ NormalizeMac(text) # None \/ NormalizeMac(text) = Invalid
<1>1. PICK k \in Range(names) :
         p.wlan # None /\ k \in DOMAIN p.wlan /\ text = p.wlan[k]
  BY FieldValue
<1>2. k \in AddressFields \cap DOMAIN p.wlan
  BY <1>1
<1>3. text.mac # None => NormalizeMac(text) \notin {None, Invalid}
  BY <1>1, <1>2, AddressAssumption
<1> QED
  BY <1>3 DEF NormalizeMac

(* No warning of malformed content, exactly if none is.                    *)
LEMMA NothingMalformed ==
    ASSUME NEW p, NEW subtype, NEW order
    PROVE  Malformed(p, subtype, order) = {} <=>
              /\ Addresses(p).destination # Invalid
              /\ Addresses(p).source # Invalid
              /\ Addresses(p).bssid # Invalid
              /\ Sequence(p).number # None
              /\ ~(SsidText(p) # Missing /\ SsidText(p).length > 32)
              /\ SecurityFound(p, subtype,
                     ParseBool(Field(Or(p.wlan_mgt, p.wlan), <<"privacy">>)), order)
                 # Invalid
<1> DEFINE addresses == Addresses(p)
           privacy == ParseBool(Field(Or(p.wlan_mgt, p.wlan), <<"privacy">>))
           conditions ==
             [invalid_destination_address |-> addresses.destination = Invalid,
              invalid_source_address |-> addresses.source = Invalid,
              invalid_bssid |-> addresses.bssid = Invalid,
              missing_sequence_control |-> Sequence(p).number = None,
              invalid_ssid_length |-> SsidText(p) # Missing /\ SsidText(p).length > 32,
              malformed_rsn_ie |-> SecurityFound(p, subtype, privacy, order) = Invalid]
<1>1. Malformed(p, subtype, order) = {w \in DOMAIN conditions : conditions[w]}
  BY Zenon DEF Malformed
<1> DEFINE All == {"invalid_destination_address", "invalid_source_address",
                     "invalid_bssid", "missing_sequence_control",
                     "invalid_ssid_length", "malformed_rsn_ie"}
<1>2. DOMAIN conditions = All
  OBVIOUS
<1>3. /\ conditions["invalid_destination_address"] <=> addresses.destination = Invalid
      /\ conditions["invalid_source_address"] <=> addresses.source = Invalid
      /\ conditions["invalid_bssid"] <=> addresses.bssid = Invalid
      /\ conditions["missing_sequence_control"] <=> Sequence(p).number = None
      /\ conditions["invalid_ssid_length"]
         <=> SsidText(p) # Missing /\ SsidText(p).length > 32
      /\ conditions["malformed_rsn_ie"]
         <=> SecurityFound(p, subtype, privacy, order) = Invalid
  <2> HIDE DEF addresses, privacy
  <2> QED
    OBVIOUS
<1> HIDE DEF conditions
<1>4. {w \in All : conditions[w]} = {} <=>
             /\ ~conditions["invalid_destination_address"]
             /\ ~conditions["invalid_source_address"]
             /\ ~conditions["invalid_bssid"]
             /\ ~conditions["missing_sequence_control"]
             /\ ~conditions["invalid_ssid_length"]
             /\ ~conditions["malformed_rsn_ie"]
  OBVIOUS
<1> HIDE DEF All
<1> QED
  BY <1>1, <1>2, <1>3, <1>4

(* No warning of what the subtype needs, exactly if it is all there.       *)
LEMMA NothingMissing ==
    ASSUME NEW subtype, NEW bssid, NEW radio, NEW management
    PROVE  MissingSubtypeValues(subtype, bssid, radio, management) = {} <=>
              /\ \/ Announces(subtype)
                 \/ subtype \in {"deauthentication", "disassociation", "authentication"}
                 => bssid # None
              /\ Announces(subtype) \/ subtype = "probe_request" =>
                    management.ssid_state # "absent"
              /\ Announces(subtype) =>
                    /\ management.advertised_channel # None \/ radio.channel # None
                    /\ management.security # None
              /\ subtype = "beacon" => management.beacon_interval # None
              /\ subtype = "authentication" =>
                    management.auth_algorithm # None /\ management.auth_sequence # None
              /\ subtype \in {"deauthentication", "disassociation"} =>
                    management.reason # None
<1> DEFINE leaves == subtype \in {"deauthentication", "disassociation"}
           auth == subtype = "authentication"
           conditions ==
             [missing_bssid |-> (Announces(subtype) \/ leaves \/ auth) /\ bssid = None,
              missing_ssid_element |->
                  /\ Announces(subtype) \/ subtype = "probe_request"
                  /\ management.ssid_state = "absent",
              missing_channel |->
                  /\ Announces(subtype)
                  /\ management.advertised_channel = None
                  /\ radio.channel = None,
              missing_security_profile |->
                  Announces(subtype) /\ management.security = None,
              missing_beacon_interval |->
                  subtype = "beacon" /\ management.beacon_interval = None,
              missing_authentication_algorithm |->
                  auth /\ management.auth_algorithm = None,
              missing_authentication_sequence |->
                  auth /\ management.auth_sequence = None,
              missing_reason_code |-> leaves /\ management.reason = None]
<1>1. MissingSubtypeValues(subtype, bssid, radio, management)
      = {w \in DOMAIN conditions : conditions[w]}
  BY Zenon DEF MissingSubtypeValues
<1> DEFINE All == {"missing_bssid", "missing_ssid_element", "missing_channel",
                     "missing_security_profile", "missing_beacon_interval",
                     "missing_authentication_algorithm",
                     "missing_authentication_sequence", "missing_reason_code"}
<1>2. DOMAIN conditions = All
  OBVIOUS
<1>3. /\ conditions["missing_bssid"]
         <=> (Announces(subtype) \/ leaves \/ auth) /\ bssid = None
      /\ conditions["missing_ssid_element"]
         <=> /\ Announces(subtype) \/ subtype = "probe_request"
             /\ management.ssid_state = "absent"
      /\ conditions["missing_channel"]
         <=> /\ Announces(subtype)
             /\ management.advertised_channel = None
             /\ radio.channel = None
      /\ conditions["missing_security_profile"]
         <=> Announces(subtype) /\ management.security = None
      /\ conditions["missing_beacon_interval"]
         <=> subtype = "beacon" /\ management.beacon_interval = None
      /\ conditions["missing_authentication_algorithm"]
         <=> auth /\ management.auth_algorithm = None
      /\ conditions["missing_authentication_sequence"]
         <=> auth /\ management.auth_sequence = None
      /\ conditions["missing_reason_code"] <=> leaves /\ management.reason = None
  OBVIOUS
<1> HIDE DEF conditions
<1>4. {w \in All : conditions[w]} = {} <=>
             /\ ~conditions["missing_bssid"]
             /\ ~conditions["missing_ssid_element"]
             /\ ~conditions["missing_channel"]
             /\ ~conditions["missing_security_profile"]
             /\ ~conditions["missing_beacon_interval"]
             /\ ~conditions["missing_authentication_algorithm"]
             /\ ~conditions["missing_authentication_sequence"]
             /\ ~conditions["missing_reason_code"]
  OBVIOUS
<1> HIDE DEF All
<1> QED
  BY <1>1, <1>2, <1>3, <1>4

(* An optional address is lost exactly if its text is given and denotes    *)
(* no address.                                                             *)
LEMMA AddressLost ==
    ASSUME NEW p \in Packets, NEW names, DOMAIN names = 1 .. 2,
           Range(names) \subseteq AddressFields,
           NEW fallback, fallback # Invalid
    PROVE  LET text == Field(p.wlan, names)
           IN  OptionalMac(text, fallback) # Invalid
               <=> (text # Missing => text.mac # None)
<1> DEFINE text == Field(p.wlan, names)
<1>1. text # Missing => (text.mac = None <=> NormalizeMac(text) = Invalid)
  BY AddressRead
<1> HIDE DEF text
<1>2. OptionalMac(text, fallback) # Invalid <=> (text # Missing => text.mac # None)
  BY <1>1 DEF OptionalMac
<1> QED
  BY <1>2 DEF text

(* A BSSID that is kept stays as it is.                                    *)
LEMMA BssidKept ==
    ASSUME NEW p \in Packets, NEW b, b = Kept(Addresses(p).bssid)
    PROVE  NormalizeOptionalMac(b) = b
<1> DEFINE names == <<"bssid", "addr3">>
           text == Field(p.wlan, names)
<1>1. b = Kept(OptionalMac(text, None))
  BY DEF Addresses
<1>2. CASE text = Missing
  BY <1>1, <1>2, AddressAssumption, Zenon DEF Kept, OptionalMac, NormalizeOptionalMac
<1>3. CASE text # Missing
  <2>1. DOMAIN names = 1 .. 2 /\ Range(names) \subseteq AddressFields
    BY DEF Range, AddressFields
  <2> HIDE DEF names
  <2>2. /\ text.mac = None <=> NormalizeMac(text) = Invalid
        /\ NormalizeMac(text) # None \/ NormalizeMac(text) = Invalid
    BY <1>3, <2>1, AddressRead
  <2> HIDE DEF text
  <2>3. b = IF NormalizeMac(text) = Invalid THEN None ELSE NormalizeMac(text)
    BY <1>1, <1>3, Zenon DEF Kept, OptionalMac
  <2>4. CASE NormalizeMac(text) = Invalid
    BY <2>3, <2>4, Zenon DEF NormalizeOptionalMac
  <2>5. CASE NormalizeMac(text) # Invalid
    <3>1. b = [mac |-> text.mac, notation |-> "colons"] /\ text.mac # None /\ b # None
      BY <2>2, <2>3, <2>5 DEF NormalizeMac
    <3> QED
      BY <3>1 DEF NormalizeOptionalMac, NormalizeMac
  <2> QED
    BY <2>4, <2>5
<1> QED
  BY <1>2, <1>3

(* What a subtype needs is what it can miss.                               *)
LEMMA NeededPresent ==
    ASSUME NEW f, NEW subtype, f.subtype = subtype
    PROVE  (\A v \in Needed(f.subtype) : Has(f, v)) <=>
           MissingSubtypeValues(subtype, f.addresses.bssid, f.radio, f.management) = {}
<1>1. /\ Has(f, "bssid") <=> f.addresses.bssid # None
      /\ Has(f, "ssid") <=> f.management.ssid_state # "absent"
      /\ Has(f, "channel") <=>
            f.management.advertised_channel # None \/ f.radio.channel # None
      /\ Has(f, "security") <=> f.management.security # None
      /\ Has(f, "beacon_interval") <=> f.management.beacon_interval # None
      /\ Has(f, "auth_algorithm") <=> f.management.auth_algorithm # None
      /\ Has(f, "auth_sequence") <=> f.management.auth_sequence # None
      /\ Has(f, "reason") <=> f.management.reason # None
  BY DEF Has
<1>2. CASE subtype = "beacon"
  BY <1>1, <1>2, NothingMissing DEF Needed, Announces
<1>3. CASE subtype = "probe_response"
  BY <1>1, <1>3, NothingMissing DEF Needed, Announces
<1>4. CASE subtype = "probe_request"
  BY <1>1, <1>4, NothingMissing DEF Needed, Announces
<1>5. CASE subtype = "authentication"
  BY <1>1, <1>5, NothingMissing DEF Needed, Announces
<1>6. CASE subtype \in {"deauthentication", "disassociation"}
  BY <1>1, <1>6, NothingMissing DEF Needed, Announces
<1>7. CASE subtype \notin {"beacon", "probe_response", "probe_request", "authentication",
                           "deauthentication", "disassociation"}
  <2>1. Needed(f.subtype) = {}
    BY <1>7 DEF Needed
  <2> QED
    BY <1>7, <2>1, NothingMissing DEF Announces
<1> QED
  BY <1>2, <1>3, <1>4, <1>5, <1>6, <1>7

(* The SSID is absent exactly if the packet gives none, or one too long.   *)
LEMMA SsidAbsent ==
    ASSUME NEW p, NEW subtype
    PROVE  SsidFields(p, subtype).ssid_state = "absent"
           <=> SsidText(p) = Missing \/ SsidText(p).length > 32
<1> DEFINE bytes == SsidText(p)
           fields(ssid, hex, state) == [ssid |-> ssid, ssid_hex |-> hex, ssid_state |-> state]
<1>1. SsidFields(p, subtype) =
         IF bytes = Missing \/ bytes.length > 32 THEN fields(None, None, "absent")
         ELSE IF bytes.length = 0
              THEN fields(None, bytes,
                          IF subtype = "probe_request" THEN "wildcard" ELSE "hidden")
         ELSE IF bytes.utf8 THEN fields(bytes, bytes, "present")
         ELSE fields(None, bytes, "invalid_utf8")
  BY Zenon DEF SsidFields
<1> HIDE DEF bytes
<1>2. \A ssid, hex, state : fields(ssid, hex, state).ssid_state = state
  OBVIOUS
<1> HIDE DEF fields
<1>3. (IF subtype = "probe_request" THEN "wildcard" ELSE "hidden") # "absent"
  OBVIOUS
<1>4. SsidFields(p, subtype).ssid_state = "absent" <=> bytes = Missing \/ bytes.length > 32
  BY <1>1, <1>2, <1>3
<1> QED
  BY <1>4 DEF bytes

(* When the obstacles are met that what follows depends on.                *)
LEMMA ObstacleConditions ==
    ASSUME NEW p, NEW code, NEW radio, NEW management,
           NEW obstacles, obstacles = Obstacles(p, code, radio, management)
    PROVE  /\ obstacles[1].when <=> p.wlan = None
           /\ obstacles[5].when <=> code \notin DOMAIN SubtypeByCode
           /\ obstacles[7].when <=> radio = Invalid
           /\ obstacles[8].when <=> FcsStatus(p) = "invalid"
           /\ obstacles[9].when <=> Receiver(p) = Missing
           /\ obstacles[10].when <=> Transmitter(p) = Missing
           /\ obstacles[11].when <=>
                 /\ Missing \notin {Receiver(p), Transmitter(p)}
                 /\ Invalid \in {NormalizeMac(Receiver(p)), NormalizeMac(Transmitter(p))}
           /\ obstacles[12].when <=>
                 code \in DOMAIN SubtypeByCode /\ p.wlan # None /\ management = Invalid
           /\ obstacles[14].when <=> ObservedAt(p) = Invalid
<1> DEFINE parsed == code \in DOMAIN SubtypeByCode
           addressed == Missing \notin {Receiver(p), Transmitter(p)}
           unreadable == Invalid \in {NormalizeMac(Receiver(p)), NormalizeMac(Transmitter(p))}
           unmanaged == parsed /\ p.wlan # None /\ management = Invalid
<1>1. obstacles[5].when <=> ~parsed
  <2> DEFINE entry == [when |-> ~parsed,
                       verdict |-> Ignored("unsupported_subtype")]
  <2>1. entry.when <=> ~parsed
    OBVIOUS
  <2>2. obstacles[5] = entry
    BY DEF Obstacles
  <2> QED
    BY <2>1, <2>2, Zenon
<1>2. obstacles[7].when <=> radio = Invalid
  <2> DEFINE entry == [when |-> radio = Invalid,
                       verdict |-> Rejected("parser_error")]
  <2>1. entry.when <=> radio = Invalid
    OBVIOUS
  <2>2. obstacles[7] = entry
    BY DEF Obstacles
  <2> QED
    BY <2>1, <2>2, Zenon
<1>3. obstacles[8].when <=> FcsStatus(p) = "invalid"
  <2> DEFINE entry == [when |-> FcsStatus(p) = "invalid",
                       verdict |-> Rejected("invalid_fcs")]
  <2>1. entry.when <=> FcsStatus(p) = "invalid"
    OBVIOUS
  <2>2. obstacles[8] = entry
    BY DEF Obstacles
  <2> QED
    BY <2>1, <2>2, Zenon
<1>4. obstacles[9].when <=> Receiver(p) = Missing
  <2> DEFINE entry == [when |-> Receiver(p) = Missing,
                       verdict |-> Rejected("missing_receiver_address")]
  <2>1. entry.when <=> Receiver(p) = Missing
    OBVIOUS
  <2>2. obstacles[9] = entry
    BY DEF Obstacles
  <2> QED
    BY <2>1, <2>2, Zenon
<1>5. obstacles[10].when <=> Transmitter(p) = Missing
  <2> DEFINE entry == [when |-> Transmitter(p) = Missing,
                       verdict |-> Rejected("missing_transmitter_address")]
  <2>1. entry.when <=> Transmitter(p) = Missing
    OBVIOUS
  <2>2. obstacles[10] = entry
    BY DEF Obstacles
  <2> QED
    BY <2>1, <2>2, Zenon
<1>6. obstacles[11].when <=> addressed /\ unreadable
  <2> DEFINE entry == [when |-> addressed /\ unreadable,
                       verdict |-> Rejected("invalid_mac_address")]
  <2>1. entry.when <=> addressed /\ unreadable
    OBVIOUS
  <2>2. obstacles[11] = entry
    BY DEF Obstacles
  <2> QED
    BY <2>1, <2>2, Zenon
<1>7. obstacles[12].when <=> unmanaged
  <2> DEFINE entry == [when |-> unmanaged,
                       verdict |-> Rejected("parser_error")]
  <2>1. entry.when <=> unmanaged
    OBVIOUS
  <2>2. obstacles[12] = entry
    BY DEF Obstacles
  <2> QED
    BY <2>1, <2>2, Zenon
<1>8. obstacles[14].when <=> ObservedAt(p) = Invalid
  <2> DEFINE entry == [when |-> ObservedAt(p) = Invalid,
                       verdict |-> Rejected("parser_error")]
  <2>1. entry.when <=> ObservedAt(p) = Invalid
    OBVIOUS
  <2>2. obstacles[14] = entry
    BY DEF Obstacles
  <2> QED
    BY <2>1, <2>2, Zenon
<1>9. obstacles[1].when <=> p.wlan = None
  <2> DEFINE entry == [when |-> p.wlan = None, verdict |-> Ignored("not_ieee80211")]
  <2>1. entry.when <=> p.wlan = None
    OBVIOUS
  <2>2. obstacles[1] = entry
    BY DEF Obstacles
  <2> QED
    BY <2>1, <2>2, Zenon
<1> QED
  BY <1>1, <1>2, <1>3, <1>4, <1>5, <1>6, <1>7, <1>8, <1>9, Zenon

(* A packet that meets no obstacle gives a receiver and a transmitter that *)
(* can be read.                                                            *)
LEMMA AddressedPacket ==
    ASSUME NEW p, NEW code, NEW radio, NEW management,
           \A i \in 1 .. 14 : ~Obstacles(p, code, radio, management)[i].when
    PROVE  NormalizeMac(Receiver(p)) # Invalid /\ NormalizeMac(Transmitter(p)) # Invalid
<1> DEFINE obstacles == Obstacles(p, code, radio, management)
<1>1. ~obstacles[9].when /\ ~obstacles[10].when /\ ~obstacles[11].when
  OBVIOUS
<1> QED
  BY <1>1, ObstacleConditions, Zenon

(* The addresses that a packet gives are kept, or one of them is lost.     *)
LEMMA AddressesKept ==
    ASSUME NEW p \in Packets, NormalizeMac(Receiver(p)) # Invalid,
           NormalizeMac(Transmitter(p)) # Invalid
    PROVE  (\A names \in AddressNames :
               Field(p.wlan, names) # Missing => Field(p.wlan, names).mac # None)
           <=> /\ Addresses(p).destination # Invalid
               /\ Addresses(p).source # Invalid
               /\ Addresses(p).bssid # Invalid
<1> DEFINE Given(names) ==
               Field(p.wlan, names) # Missing => Field(p.wlan, names).mac # None
<1>1. /\ Addresses(p).destination
         = OptionalMac(Field(p.wlan, <<"da", "addr1">>), NormalizeMac(Receiver(p)))
      /\ Addresses(p).source
         = OptionalMac(Field(p.wlan, <<"sa", "addr2">>), NormalizeMac(Transmitter(p)))
      /\ Addresses(p).bssid = OptionalMac(Field(p.wlan, <<"bssid", "addr3">>), None)
  BY DEF Addresses
<1>2. \A names \in AddressNames :
         DOMAIN names = 1 .. 2 /\ Range(names) \subseteq AddressFields
  BY DEF AddressNames, AddressFields, Range
<1>3. ASSUME NEW names \in AddressNames, NEW fallback, fallback # Invalid
      PROVE  OptionalMac(Field(p.wlan, names), fallback) # Invalid <=> Given(names)
  BY <1>2, <1>3, AddressLost
<1>4. /\ <<"da", "addr1">> \in AddressNames
      /\ <<"sa", "addr2">> \in AddressNames
      /\ <<"bssid", "addr3">> \in AddressNames
      /\ \A names \in AddressNames :
            names = <<"da", "addr1">> \/ names = <<"sa", "addr2">>
            \/ names = <<"bssid", "addr3">>
  BY Zenon DEF AddressNames
<1>5. /\ Addresses(p).destination # Invalid <=> Given(<<"da", "addr1">>)
      /\ Addresses(p).source # Invalid <=> Given(<<"sa", "addr2">>)
      /\ Addresses(p).bssid # Invalid <=> Given(<<"bssid", "addr3">>)
  <2> HIDE DEF Given
  <2> QED
    BY <1>1, <1>3, <1>4, AddressAssumption
<1>6. (\A names \in AddressNames : Given(names)) <=>
         /\ Given(<<"da", "addr1">>)
         /\ Given(<<"sa", "addr2">>)
         /\ Given(<<"bssid", "addr3">>)
  <2> HIDE DEF Given
  <2> QED
    BY <1>4, Zenon
<1> QED
  BY <1>5, <1>6, Zenon

(* What CompleteMeansComplete says of one frame.                           *)
Whole(f, p) ==
    f.status = "complete"
    <=> /\ \A v \in Needed(f.subtype) : Has(f, v)
        /\ f.sequence.number # None
        /\ \A names \in AddressNames :
              LET text == Field(p.wlan, names)
              IN  text # Missing => text.mac # None
        /\ SsidText(p) # Missing => f.management.ssid_state # "absent"

(* What the packet gave and the subtype needs, and nothing malformed: that *)
(* is a complete frame.                                                    *)
LEMMA CompleteFrame ==
    ASSUME NEW o, NEW p \in Packets, NEW mode, NEW code, NEW subtype,
           subtype = SubtypeByCode[code],
           NEW management, management = Management(p, subtype, o),
           NEW f,
           f = FrameOf(p, mode, code, Radio(p), management, Malformed(p, subtype, o)),
           ValidFrame(f),
           NormalizeMac(Receiver(p)) # Invalid, NormalizeMac(Transmitter(p)) # Invalid
    PROVE  Whole(f, p)
<1> DEFINE malformed == Malformed(p, subtype, o)
           read == Addresses(p)
           kept == [receiver |-> read.receiver, transmitter |-> read.transmitter,
                    destination |-> Kept(read.destination),
                    source |-> Kept(read.source), bssid |-> Kept(read.bssid),
                    role |-> RoleHint(subtype)]
           lost == malformed
                   \cup MissingSubtypeValues(subtype, kept.bssid, Radio(p), management)
           privacy == ParseBool(Field(Or(p.wlan_mgt, p.wlan), <<"privacy">>))
           found == SecurityFound(p, subtype, privacy, o)
<1>1. /\ f.status = IF lost = {} THEN "complete" ELSE "partial"
      /\ f.subtype = subtype
      /\ f.addresses = MacAddresses(kept)
      /\ f.sequence = SequenceInfo(Sequence(p))
      /\ f.radio = Radio(p)
      /\ f.management = management
  BY DEF FrameOf
<1>2. /\ f.addresses # Invalid /\ f.sequence # Invalid /\ f.management # Invalid
  BY DEF ValidFrame
<1>3. f.addresses.bssid = Kept(read.bssid)
  <2>1. f.addresses.bssid = NormalizeOptionalMac(kept.bssid)
    BY <1>1, <1>2 DEF MacAddresses
  <2>2. kept.bssid = Kept(read.bssid)
    OBVIOUS
  <2> QED
    BY <2>1, <2>2, BssidKept
<1>4. f.sequence = Sequence(p)
  BY <1>1, <1>2 DEF SequenceInfo
<1>5. /\ management.ssid_state = SsidFields(p, subtype).ssid_state
      /\ management.security = IF found = Invalid THEN None ELSE found
  BY <1>1, <1>2, ManagementMade
<1>6. lost = {} <=> /\ malformed = {}
                    /\ \A v \in Needed(f.subtype) : Has(f, v)
  <2>1. kept.bssid = f.addresses.bssid
    BY <1>3
  <2>2. (\A v \in Needed(f.subtype) : Has(f, v)) <=>
        MissingSubtypeValues(subtype, f.addresses.bssid, f.radio, f.management) = {}
    BY <1>1, NeededPresent
  <2> HIDE DEF malformed, kept
  <2> QED
    BY <1>1, <2>1, <2>2
<1>7. (\A v \in Needed(f.subtype) : Has(f, v)) => found # Invalid
  <2> SUFFICES ASSUME found = Invalid, \A v \in Needed(f.subtype) : Has(f, v)
               PROVE  FALSE
    OBVIOUS
  <2>1. Announces(subtype)
    BY AddressAssumption DEF SecurityFound
  <2>2. "security" \in Needed(f.subtype)
    BY <1>1, <2>1 DEF Announces, Needed
  <2>3. f.management.security # None
    BY <2>2 DEF Has
  <2> QED
    BY <1>1, <1>5, <2>3
<1>8. malformed = {} <=>
         /\ \A names \in AddressNames :
               Field(p.wlan, names) # Missing => Field(p.wlan, names).mac # None
         /\ Sequence(p).number # None
         /\ ~(SsidText(p) # Missing /\ SsidText(p).length > 32)
         /\ found # Invalid
  BY AddressesKept, NothingMalformed
<1>9. ~(SsidText(p) # Missing /\ SsidText(p).length > 32)
      <=> (SsidText(p) # Missing => f.management.ssid_state # "absent")
  BY <1>1, <1>5, SsidAbsent
<1> HIDE DEF malformed, found, lost
<1> QED
  BY <1>1, <1>4, <1>6, <1>7, <1>8, <1>9 DEF Whole

(* An accepted frame is complete exactly when it has what its subtype      *)
(* needs, its sequence control, and every address and SSID the packet      *)
(* gave, for any packets whose address texts denote addresses              *)
(* (parse_status, parse_warnings).                                         *)
THEOREM CompleteIsComplete == Spec => []CompleteMeansComplete
<1>1. Origin => CompleteMeansComplete
  <2> SUFFICES ASSUME Origin, NEW mode \in Modes, AcceptedIn(mode)
               PROVE  Whole(FrameIn(mode), packet)
    BY Zenon DEF CompleteMeansComplete, Whole
  <2>1. PICK o \in Orders : result[mode] = Parsed(packet, mode, o)
    BY DEF Origin, AcceptedIn
  <2>2. packet \in Packets
    BY DEF Origin
  <2> DEFINE r == result[mode]
             f == r.frame
             code == ParseInt(Field(packet.wlan, <<"fc_subtype">>))
             subtype == SubtypeByCode[code]
             management == Management(packet, subtype, o)
  <2>3. /\ f = FrameOf(packet, mode, code, Radio(packet), management,
                       Malformed(packet, subtype, o))
        /\ ValidFrame(f)
        /\ \A i \in 1 .. 14 : ~Obstacles(packet, code, Radio(packet), management)[i].when
    <3>1. r.disposition = "accepted"
      BY DEF AcceptedIn
    <3>2. r = Parsed(packet, mode, o)
      BY <2>1
    <3> HIDE DEF r
    <3> QED
      BY ONLY <3>1, <3>2, AcceptedFrame
  <2>4. /\ NormalizeMac(Receiver(packet)) # Invalid
        /\ NormalizeMac(Transmitter(packet)) # Invalid
    <3> HIDE DEF management
    <3> QED
      BY ONLY <2>3, AddressedPacket
  <2>5. Whole(f, packet)
    <3> HIDE DEF f, code
    <3> QED
      BY ONLY <2>2, <2>3, <2>4, CompleteFrame
  <2> QED
    BY <2>5 DEF FrameIn
<1> QED
  BY <1>1, ResultsAreParsed, PTL

-----------------------------------------------------------------------------
(* Errors.                                                                 *)

(* Model values are no records.                                            *)
IsRecord(v) == v = [k \in DOMAIN v |-> v[k]]
NoRecords == ~IsRecord(None) /\ ~IsRecord(Invalid)

Layers == {"self", "frame_info", "radiotap", "wlan_radio", "wlan", "wlan_mgt"}

(* What is read from two layers is in one of them.                         *)
LEMMA FirstValue ==
    ASSUME NEW a, NEW b, NEW name, FirstField(<<a, b>>, name) # Missing
    PROVE  \E layer \in {a, b} :
              /\ layer # None /\ name \in DOMAIN layer
              /\ FirstField(<<a, b>>, name) = layer[name]
<1> DEFINE layers == <<a, b>>
           having == {i \in DOMAIN layers : Field(layers[i], <<name>>) # Missing}
<1>1. having # {} /\ FirstField(layers, name) = layers[Min(having)][name]
  BY Zenon DEF FirstField
<1>2. having \in SUBSET (1 .. 2)
  OBVIOUS
<1>3. Min(having) \in having
  <2> HIDE DEF having
  <2> QED
    BY <1>1, <1>2, LeastPosition
<1> DEFINE layer == layers[Min(having)]
<1>4. layer \in {a, b} /\ Field(layer, <<name>>) # Missing
  BY <1>3
<1>5. layer # None /\ name \in DOMAIN layer
  <2> DEFINE names == <<name>>
  <2>1. DOMAIN names = 1 .. 1 /\ Range(names) = {name}
    BY DEF Range
  <2> HIDE DEF layer, names
  <2>2. \E k \in Range(names) : layer # None /\ k \in DOMAIN layer
    <3>1. Field(layer, names) # Missing
      BY <1>4 DEF names
    <3> QED
      BY <2>1, <3>1, FieldValue
  <2> QED
    BY <2>1, <2>2
<1> QED
  BY <1>1, <1>4, <1>5

(* A number that is read is an integer.                                    *)
LEMMA NumberRead ==
    ASSUME NEW p \in Packets, NEW l \in Layers, NEW n \in NumberFields
    PROVE  ParseInt(Field(p[l], <<n>>)) \in Int \cup {None}
<1> DEFINE names == <<n>>
<1>1. DOMAIN names = 1 .. 1 /\ Range(names) = {n}
  BY DEF Range
<1> HIDE DEF names
<1>2. CASE Field(p[l], names) = Missing
  BY <1>2 DEF ParseInt, names
<1>3. CASE Field(p[l], names) # Missing
  <2>1. p[l] # None /\ n \in DOMAIN p[l] /\ Field(p[l], names) = p[l][n]
    BY <1>1, <1>3, FieldValue
  <2>2. Field(p[l], names) \in Int \cup {Garbled}
    BY <2>1, KindAssumption DEF Layers
  <2> QED
    BY <2>2 DEF ParseInt, names
<1> QED
  BY <1>2, <1>3

(* So is a number that is read from the first of two layers.               *)
LEMMA FirstNumber ==
    ASSUME NEW p \in Packets, NEW k \in Layers, NEW l \in Layers, NEW n \in NumberFields
    PROVE  ParseInt(FirstField(<<p[k], p[l]>>, n)) \in Int \cup {None}
<1> DEFINE v == FirstField(<<p[k], p[l]>>, n)
<1>1. CASE v = Missing
  BY <1>1 DEF ParseInt
<1>2. CASE v # Missing
  <2>1. PICK layer \in {p[k], p[l]} : layer # None /\ n \in DOMAIN layer /\ v = layer[n]
    <3> HIDE DEF v
    <3> QED
      BY <1>2, FirstValue DEF v
  <2>2. v \in Int \cup {Garbled}
    BY <2>1, KindAssumption DEF Layers
  <2> HIDE DEF v
  <2> QED
    BY <2>2 DEF ParseInt, v
<1> QED
  BY <1>1, <1>2

(* No radio value costs the frame.                                         *)
LEMMA RadioAccepted ==
    ASSUME NEW p \in Packets, NoRecords
    PROVE  Radio(p) # Invalid
<1> DEFINE value(name) == ParseInt(FirstField(<<p.wlan_radio, p.radiotap>>, name))
           frequency == value("frequency")
           channel == IF value("channel") = None /\ frequency # None
                      THEN FrequencyToChannel(frequency) ELSE value("channel")
           atLeast(v, low) == IF v # None /\ v >= low THEN v ELSE None
           r == [channel |-> Bounded(channel, 1, 233),
                 frequency |-> atLeast(frequency, 1),
                 signal |-> Bounded(value("signal"), -127, 0),
                 noise |-> Bounded(value("noise"), -127, 0),
                 rate |-> atLeast(value("rate"), 1),
                 antenna |-> atLeast(value("antenna"), 0),
                 fcs |-> FcsStatus(p)]
<1>1. Radio(p) = RadioMetadata(r)
  BY Zenon DEF Radio
<1>2. /\ frequency \in Int \cup {None}
      /\ value("rate") \in Int \cup {None}
      /\ value("antenna") \in Int \cup {None}
  <2>1. "wlan_radio" \in Layers /\ "radiotap" \in Layers
    BY DEF Layers
  <2>2. {"frequency", "rate", "antenna"} \subseteq NumberFields
    BY DEF NumberFields
  <2> QED
    BY <2>1, <2>2, FirstNumber
<1>3. IsRecord(r)
  <2> HIDE DEF value, channel
  <2> QED
    BY DEF IsRecord
<1>4. \A v, low, high : InRange(Bounded(v, low, high), low, high)
  BY DEF InRange, Bounded
<1>5. \A v \in Int \cup {None} :
         Positive(atLeast(v, 1)) /\ NotNegative(atLeast(v, 0))
  BY DEF Positive, NotNegative
<1>6. RadioMetadata(r) = r
  <2>1. /\ r.channel = Bounded(channel, 1, 233)
        /\ r.frequency = atLeast(frequency, 1)
        /\ r.signal = Bounded(value("signal"), -127, 0)
        /\ r.noise = Bounded(value("noise"), -127, 0)
        /\ r.rate = atLeast(value("rate"), 1)
        /\ r.antenna = atLeast(value("antenna"), 0)
    <3> HIDE DEF value, channel, atLeast
    <3> QED
      OBVIOUS
  <2> HIDE DEF r, value, channel, frequency, atLeast
  <2>2. /\ InRange(r.channel, 1, 233)
        /\ InRange(r.signal, -127, 0)
        /\ InRange(r.noise, -127, 0)
    BY <1>4, <2>1
  <2>3. Positive(r.frequency) /\ Positive(r.rate) /\ NotNegative(r.antenna)
    BY <1>2, <1>5, <2>1
  <2> QED
    BY <2>2, <2>3, Zenon DEF RadioMetadata
<1> HIDE DEF r
<1> QED
  BY <1>1, <1>3, <1>6 DEF NoRecords

(* The bytes of an SSID have a length.                                     *)
LEMMA SsidBytes ==
    ASSUME NEW p \in Packets, SsidText(p) # Missing
    PROVE  SsidText(p) # None /\ SsidText(p).length \in Nat
<1> DEFINE layer == Or(p.wlan_mgt, p.wlan)
<1>1. layer \in {p["wlan_mgt"], p["wlan"]}
  BY DEF Or
<1> HIDE DEF layer
<1>2. PICK name \in {"ssid_raw", "ssid"} : SsidText(p) = FirstField(<<layer, p.wlan>>, name)
  BY DEF SsidText, layer
<1>3. PICK l \in {layer, p.wlan} :
         l # None /\ name \in DOMAIN l /\ SsidText(p) = l[name]
  BY <1>2, FirstValue
<1>4. l \in {p["wlan_mgt"], p["wlan"]}
  BY <1>1
<1>5. name \in BytesFields \cap DOMAIN l
  BY <1>3 DEF BytesFields
<1>6. l[name] # None /\ l[name].length \in Nat
  BY <1>3, <1>4, <1>5, KindAssumption
<1> QED
  BY <1>3, <1>6

(* The SSID fields that are found agree with each other.                   *)
LEMMA SsidAgrees ==
    ASSUME NEW p \in Packets, NEW subtype, NEW m,
           m.ssid = SsidFields(p, subtype).ssid,
           m.ssid_hex = SsidFields(p, subtype).ssid_hex,
           m.ssid_state = SsidFields(p, subtype).ssid_state
    PROVE  SsidConsistent(m) /\ m.ssid_state \in SsidStates
<1> DEFINE bytes == SsidText(p)
           found == SsidFields(p, subtype)
           fields(ssid, hex, state) == [ssid |-> ssid, ssid_hex |-> hex, ssid_state |-> state]
<1>1. found =
         IF bytes = Missing \/ bytes.length > 32 THEN fields(None, None, "absent")
         ELSE IF bytes.length = 0
              THEN fields(None, bytes,
                          IF subtype = "probe_request" THEN "wildcard" ELSE "hidden")
         ELSE IF bytes.utf8 THEN fields(bytes, bytes, "present")
         ELSE fields(None, bytes, "invalid_utf8")
  BY Zenon DEF SsidFields
<1>2. bytes # Missing => bytes # None /\ bytes.length \in Nat
  BY SsidBytes
<1> HIDE DEF found, bytes
<1>3. CASE bytes = Missing \/ bytes.length > 32
  <2>1. found = fields(None, None, "absent")
    BY <1>1, <1>3
  <2>2. m.ssid = None /\ m.ssid_hex = None /\ m.ssid_state = "absent"
    BY <2>1 DEF found
  <2> QED
    BY <2>2 DEF SsidConsistent, HexKind, SsidStates
<1>4. CASE bytes # Missing /\ ~(bytes.length > 32) /\ bytes.length = 0
  <2>1. PICK state \in {"wildcard", "hidden"} : found = fields(None, bytes, state)
    BY <1>1, <1>4
  <2>2. m.ssid = None /\ m.ssid_hex = bytes /\ m.ssid_state = state
    BY <2>1 DEF found
  <2>3. HexKind(m.ssid_hex) = "empty" /\ m.ssid_hex.length <= 32
    BY <1>2, <1>4, <2>2 DEF HexKind
  <2> QED
    BY <2>2, <2>3 DEF SsidConsistent, SsidStates
<1>5. CASE bytes # Missing /\ ~(bytes.length > 32) /\ bytes.length # 0
  <2>1. \/ found = fields(bytes, bytes, "present")
        \/ found = fields(None, bytes, "invalid_utf8")
    BY <1>1, <1>5
  <2>2. /\ m.ssid_hex = bytes
        /\ \/ m.ssid = bytes /\ m.ssid_state = "present"
           \/ m.ssid = None /\ m.ssid_state = "invalid_utf8"
    BY <2>1 DEF found
  <2>3. HexKind(m.ssid_hex) = "bytes" /\ m.ssid_hex.length <= 32 /\ bytes # None
    BY <1>2, <1>5, <2>2 DEF HexKind
  <2> QED
    BY <2>2, <2>3 DEF SsidConsistent, SsidStates
<1> QED
  BY <1>3, <1>4, <1>5

(* What BeyondContract says of the management fields, and of the sequence  *)
(* control.                                                                *)
ManagementBeyond(p) ==
    LET number(name) == ParseInt(Field(Or(p.wlan_mgt, p.wlan), <<name>>))
    IN  \/ \E n \in Numbers : Or(number(n), 0) < 0
        \/ number("advertised_channel") # None /\ ~ValidChannel(number("advertised_channel"))

SequenceBeyond(p) ==
    LET sequence == <<ParseInt(Field(p.wlan, <<"seq">>)), ParseInt(Field(p.wlan, <<"frag">>))>>
    IN  None \notin Range(sequence) /\ sequence \notin (0 .. 4095) \X (0 .. 15)

(* What is beyond the contract is beyond it in one of three ways.          *)
LEMMA BeyondParts ==
    ASSUME NEW p
    PROVE  BeyondContract(p) <=>
              ManagementBeyond(p) \/ SequenceBeyond(p) \/ ObservedAt(p) = Invalid
  BY Zenon DEF BeyondContract, ManagementBeyond, SequenceBeyond

(* Management fields are refused for a number the contract has no room     *)
(* for, and for nothing else.                                              *)
LEMMA ManagementRefused ==
    ASSUME NEW p \in Packets, NEW subtype, NEW o, NoRecords
    PROVE  Management(p, subtype, o) = Invalid <=> ManagementBeyond(p)
<1> DEFINE layer == Or(p.wlan_mgt, p.wlan)
           number(name) == ParseInt(Field(layer, <<name>>))
           privacy == ParseBool(Field(layer, <<"privacy">>))
           found == SecurityFound(p, subtype, privacy, o)
           security == IF found = Invalid THEN None ELSE found
           ssid == SsidFields(p, subtype)
           stable == [advertised_channel |-> number("advertised_channel"),
                      beacon_interval |-> number("beacon_interval"),
                      privacy |-> privacy,
                      security |-> IF security = None THEN None ELSE security.fingerprint,
                      ssid_hex |-> ssid.ssid_hex]
           ie == IeFingerprint(layer, stable)
           fields == [advertised_channel |-> number("advertised_channel"),
                      reason |-> number("reason"),
                      status |-> number("status"),
                      auth_algorithm |-> number("auth_algorithm"),
                      auth_sequence |-> number("auth_sequence"),
                      beacon_interval |-> number("beacon_interval"),
                      ssid |-> ssid.ssid,
                      ssid_hex |-> ssid.ssid_hex,
                      ssid_state |-> ssid.ssid_state,
                      privacy |-> privacy,
                      ie_fingerprint |-> ie,
                      security |-> security]
           Codes == {"reason", "status", "auth_algorithm", "auth_sequence",
                     "beacon_interval"}
<1>1. Management(p, subtype, o) = ManagementFields(fields)
  BY Zenon DEF Management
<1>2. /\ \A n \in Numbers : fields[n] = number(n)
      /\ fields.ssid = ssid.ssid /\ fields.ssid_hex = ssid.ssid_hex
      /\ fields.ssid_state = ssid.ssid_state
      /\ fields.security = security
      /\ IsRecord(fields)
  <2> HIDE DEF number, privacy, security, ssid, ie
  <2> QED
    BY DEF Numbers, IsRecord
<1>3. \A n \in Numbers : number(n) \in Int \cup {None}
  <2>1. layer \in {p["wlan_mgt"], p["wlan"]}
    BY DEF Or
  <2>2. PICK l \in {"wlan_mgt", "wlan"} : layer = p[l]
    BY <2>1
  <2>3. Numbers \subseteq NumberFields /\ l \in Layers
    BY DEF Numbers, NumberFields, Layers
  <2> HIDE DEF layer
  <2> QED
    BY <2>2, <2>3, NumberRead
<1>4. security # Invalid
  BY AddressAssumption
<1>5. SsidConsistent(fields)
  <2> HIDE DEF fields
  <2> QED
    BY <1>2, SsidAgrees
<1>6. ManagementBeyond(p) <=>
         \/ \E n \in Numbers : Or(number(n), 0) < 0
         \/ number("advertised_channel") # None
            /\ ~ValidChannel(number("advertised_channel"))
  BY Zenon DEF ManagementBeyond
<1> HIDE DEF fields, number, security, Codes
<1>7. Numbers = Codes \cup {"advertised_channel"}
  BY DEF Numbers, Codes
<1>8. \A n \in Numbers : NotNegative(number(n)) <=> ~(Or(number(n), 0) < 0)
  BY <1>3 DEF NotNegative, Or
<1>9. InRange(number("advertised_channel"), 1, 233) <=>
         ~ (number("advertised_channel") # None
            /\ ~ValidChannel(number("advertised_channel")))
  BY DEF InRange, ValidChannel
<1>10. InRange(number("advertised_channel"), 1, 233)
       => ~(Or(number("advertised_channel"), 0) < 0)
  BY <1>3, <1>7 DEF InRange, Or
<1>11. ManagementBeyond(p) <=>
         \/ ~InRange(number("advertised_channel"), 1, 233)
         \/ \E n \in Codes : ~NotNegative(number(n))
  BY <1>6, <1>7, <1>8, <1>9, <1>10
<1>12. ManagementFields(fields) =
          IF ~ManagementBeyond(p) THEN fields ELSE Invalid
  <2>1. /\ InRange(fields.advertised_channel, 1, 233)
            <=> InRange(number("advertised_channel"), 1, 233)
        /\ \A n \in Codes : fields[n] = number(n)
    BY <1>2, <1>7
  <2>2. (\A n \in Codes : NotNegative(fields[n])) <=> \A n \in Codes : NotNegative(number(n))
    BY <2>1
  <2>3. (/\ SsidConsistent(fields)
         /\ InRange(fields.advertised_channel, 1, 233)
         /\ \A n \in Codes : NotNegative(fields[n])
         /\ fields.security # Invalid) <=> ~ManagementBeyond(p)
    BY <1>2, <1>4, <1>5, <1>11, <2>1, <2>2
  <2> QED
    BY <2>3, Zenon DEF ManagementFields, Codes
<1> QED
  BY <1>1, <1>2, <1>12 DEF NoRecords

(* A pair is in a product exactly if its members are in the factors.       *)
LEMMA PairIn ==
    ASSUME NEW S, NEW T, NEW a, NEW b
    PROVE  <<a, b>> \in S \X T <=> a \in S /\ b \in T
  OBVIOUS

(* The sequence control is refused for a number out of its range only.     *)
LEMMA SequenceRefused ==
    ASSUME NEW p, NoRecords
    PROVE  SequenceInfo(Sequence(p)) = Invalid <=> SequenceBeyond(p)
<1> DEFINE number == ParseInt(Field(p.wlan, <<"seq">>))
           fragment == ParseInt(Field(p.wlan, <<"frag">>))
<1>1. Range(<<number, fragment>>) = {number, fragment}
  <2> HIDE DEF number, fragment
  <2> QED
    BY DEF Range
<1>2. CASE None \in {number, fragment}
  <2>1. Sequence(p) = [number |-> None, fragment |-> None]
    BY <1>2, Zenon DEF Sequence
  <2>2. SequenceInfo(Sequence(p)) = Sequence(p) /\ IsRecord(Sequence(p))
    BY <2>1 DEF SequenceInfo, InRange, IsRecord
  <2>3. ~SequenceBeyond(p)
    BY <1>1, <1>2 DEF SequenceBeyond
  <2> QED
    BY <2>2, <2>3 DEF NoRecords
<1>3. CASE None \notin {number, fragment}
  <2>1. Sequence(p) = [number |-> number, fragment |-> fragment]
    BY <1>3, Zenon DEF Sequence
  <2>2. SequenceBeyond(p) <=> ~(number \in 0 .. 4095 /\ fragment \in 0 .. 15)
    <3> DEFINE sequence == <<number, fragment>>
    <3>1. SequenceBeyond(p) <=> /\ None \notin Range(sequence)
                                /\ sequence \notin (0 .. 4095) \X (0 .. 15)
      BY Zenon DEF SequenceBeyond
    <3> HIDE DEF number, fragment
    <3>2. sequence \in (0 .. 4095) \X (0 .. 15)
          <=> number \in 0 .. 4095 /\ fragment \in 0 .. 15
      BY ONLY PairIn
    <3>3. None \notin Range(sequence)
      BY <1>1, <1>3
    <3> HIDE DEF sequence
    <3> QED
      BY ONLY <3>1, <3>2, <3>3
  <2> HIDE DEF number, fragment
  <2>3. IsRecord(Sequence(p))
    BY <2>1 DEF IsRecord
  <2>4. SequenceInfo(Sequence(p)) = IF ~SequenceBeyond(p) THEN Sequence(p) ELSE Invalid
    BY <1>3, <2>1, <2>2 DEF SequenceInfo, InRange
  <2> QED
    BY <2>3, <2>4 DEF NoRecords
<1> QED
  BY <1>2, <1>3

(* No length costs the frame.                                              *)
LEMMA LengthsAgree ==
    ASSUME NEW p \in Packets
    PROVE  LET lengths == FrameLengths(p)
           IN  0 <= lengths.captured /\ lengths.captured <= lengths.original
<1> DEFINE given(name) == ParseInt(FirstField(<<p.frame_info, p.self>>, name))
           counted == IF RawPacket(p) = Missing THEN None ELSE RawPacket(p).length
           captured == Or(given("cap_len"), counted)
           original == Or(given("len"), captured)
           positive(v) == IF Or(v, 0) > 0 THEN v ELSE 0
           kept == positive(Or(captured, original))
<1>1. FrameLengths(p) =
         [captured |-> kept,
          original |-> IF kept > positive(original) THEN kept ELSE positive(original)]
  BY Zenon DEF FrameLengths
<1>2. given("cap_len") \in Int \cup {None} /\ given("len") \in Int \cup {None}
  <2>1. /\ "frame_info" \in Layers /\ "self" \in Layers
        /\ "cap_len" \in NumberFields /\ "len" \in NumberFields
    BY DEF Layers, NumberFields
  <2> QED
    BY <2>1, FirstNumber
<1>3. counted \in Int \cup {None}
  <2> DEFINE names == <<"raw_packet">>
  <2>1. DOMAIN names = 1 .. 1 /\ Range(names) = {"raw_packet"}
    BY DEF Range
  <2> HIDE DEF names
  <2>2. ASSUME Field(p.self, names) # Missing
        PROVE  Field(p.self, names).length \in Nat
    <3>1. /\ p["self"] # None /\ "raw_packet" \in DOMAIN p["self"]
          /\ Field(p.self, names) = p["self"]["raw_packet"]
      BY <2>1, <2>2, FieldValue
    <3>2. "raw_packet" \in BytesFields
      BY DEF BytesFields
    <3>3. p["self"]["raw_packet"].length \in Nat
      BY <3>1, <3>2, KindAssumption
    <3> QED
      BY <3>1, <3>3
  <2>3. RawPacket(p) = Field(p.self, names)
    BY Zenon DEF RawPacket, names
  <2> QED
    BY <2>2, <2>3
<1> HIDE DEF given, counted
<1>4. captured \in Int \cup {None} /\ original \in Int \cup {None}
  BY <1>2, <1>3 DEF Or
<1> HIDE DEF captured, original
<1>5. \A v \in Int \cup {None} : positive(v) \in Nat
  <2> SUFFICES ASSUME NEW v \in Int \cup {None} PROVE positive(v) \in Nat
    OBVIOUS
  <2>1. CASE v = None
    BY <2>1 DEF Or
  <2>2. CASE v # None
    BY <2>2 DEF Or
  <2> QED
    BY <2>1, <2>2
<1>6. Or(captured, original) \in Int \cup {None}
  BY <1>4 DEF Or
<1> HIDE DEF positive
<1>7. kept \in Nat /\ positive(original) \in Nat
  BY <1>4, <1>5, <1>6
<1> HIDE DEF kept
<1> QED
  BY <1>1, <1>7

(* No address that is kept costs the frame, and all that are kept are in   *)
(* one notation.                                                           *)
LEMMA AddressesAccepted ==
    ASSUME NEW p \in Packets, NEW subtype, NEW read, read = Addresses(p), NoRecords,
           NormalizeMac(Receiver(p)) # Invalid, NormalizeMac(Transmitter(p)) # Invalid,
           NEW kept,
           kept = [receiver |-> read.receiver, transmitter |-> read.transmitter,
                   destination |-> Kept(read.destination),
                   source |-> Kept(read.source), bssid |-> Kept(read.bssid),
                   role |-> RoleHint(subtype)]
    PROVE  /\ MacAddresses(kept) # Invalid
           /\ \A k \in {"receiver", "transmitter", "destination", "source", "bssid"} :
                 NormalMac(MacAddresses(kept)[k])
<1> DEFINE Normal(a) == a # Invalid /\ a # None /\ a.mac # None /\ a.notation = "colons"
<1>1. ASSUME NEW text, NormalizeMac(text) # Invalid
      PROVE  Normal(NormalizeMac(text))
  <2>1. NormalizeMac(text) = [mac |-> text.mac, notation |-> "colons"] /\ text.mac # None
    BY <1>1 DEF NormalizeMac
  <2>2. IsRecord(NormalizeMac(text))
    BY <2>1 DEF IsRecord
  <2> QED
    BY <1>1, <2>1, <2>2 DEF NoRecords
<1>2. ASSUME NEW a, Normal(a) PROVE Normal(NormalizeMac(a))
  <2>1. NormalizeMac(a) = [mac |-> a.mac, notation |-> "colons"]
    BY <1>2 DEF NormalizeMac
  <2>2. IsRecord(NormalizeMac(a))
    BY <2>1 DEF IsRecord
  <2> QED
    BY <1>2, <2>1, <2>2 DEF NoRecords
<1>3. ASSUME NEW text, NEW fallback, Normal(fallback) \/ fallback = None
      PROVE  LET a == NormalizeOptionalMac(Kept(OptionalMac(text, fallback)))
             IN  a = None \/ Normal(a)
  <2> DEFINE a == Kept(OptionalMac(text, fallback))
  <2>1. a = None \/ Normal(a)
    <3>1. CASE text = Missing
      BY <1>3, <3>1, AddressAssumption DEF OptionalMac, Kept
    <3>2. CASE text # Missing /\ NormalizeMac(text) = Invalid
      BY <3>2 DEF OptionalMac, Kept
    <3>3. CASE text # Missing /\ NormalizeMac(text) # Invalid
      BY <1>1, <3>3 DEF OptionalMac, Kept
    <3> QED
      BY <3>1, <3>2, <3>3
  <2> HIDE DEF a
  <2>2. NormalizeOptionalMac(a) = None \/ Normal(NormalizeOptionalMac(a))
    BY <1>2, <2>1 DEF NormalizeOptionalMac
  <2> QED
    BY <2>2 DEF a
<1> DEFINE n == [receiver |-> NormalizeMac(kept.receiver),
                 transmitter |-> NormalizeMac(kept.transmitter),
                 destination |-> NormalizeOptionalMac(kept.destination),
                 source |-> NormalizeOptionalMac(kept.source),
                 bssid |-> NormalizeOptionalMac(kept.bssid),
                 role |-> kept.role]
<1>4. MacAddresses(kept) = IF Invalid \in Range(n) THEN Invalid ELSE n
  BY Zenon DEF MacAddresses
<1>5. /\ n.receiver = NormalizeMac(NormalizeMac(Receiver(p)))
      /\ n.transmitter = NormalizeMac(NormalizeMac(Transmitter(p)))
      /\ n.destination = NormalizeOptionalMac(Kept(read.destination))
      /\ n.source = NormalizeOptionalMac(Kept(read.source))
      /\ n.bssid = NormalizeOptionalMac(Kept(read.bssid))
      /\ n.role = RoleHint(subtype)
  BY DEF Addresses
<1>6. /\ read.destination
         = OptionalMac(Field(p.wlan, <<"da", "addr1">>), NormalizeMac(Receiver(p)))
      /\ read.source
         = OptionalMac(Field(p.wlan, <<"sa", "addr2">>), NormalizeMac(Transmitter(p)))
      /\ read.bssid = OptionalMac(Field(p.wlan, <<"bssid", "addr3">>), None)
  BY DEF Addresses
<1>7. Normal(NormalizeMac(Receiver(p))) /\ Normal(NormalizeMac(Transmitter(p)))
  BY <1>1
<1>8. DOMAIN n = {"receiver", "transmitter", "destination", "source", "bssid", "role"}
  OBVIOUS
<1> HIDE DEF n, Normal
<1>9. Normal(n.receiver) /\ Normal(n.transmitter)
  BY <1>2, <1>5, <1>7
<1>10. /\ n.destination = None \/ Normal(n.destination)
       /\ n.source = None \/ Normal(n.source)
       /\ n.bssid = None \/ Normal(n.bssid)
  BY <1>3, <1>5, <1>6, <1>7
<1>11. n.role # Invalid
  BY <1>5, AddressAssumption DEF RoleHint
<1>12. \A k \in {"receiver", "transmitter", "destination", "source", "bssid"} :
          n[k] = None \/ Normal(n[k])
  BY <1>9, <1>10
<1>13. Invalid \notin Range(n)
  BY <1>8, <1>11, <1>12, AddressAssumption DEF Range, Normal
<1> QED
  <2>1. MacAddresses(kept) = n
    BY <1>4, <1>13
  <2>2. n # Invalid
    <3>1. IsRecord(n)
      BY DEF IsRecord, n
    <3> QED
      BY <3>1 DEF NoRecords
  <2> QED
    BY <1>12, <2>1, <2>2 DEF Normal, NormalMac

(* A frame made of parts that are accepted is accepted, unless its         *)
(* sequence control has a number out of range.                             *)
LEMMA FrameRefused ==
    ASSUME NEW p \in Packets, NEW mode, NEW code, NEW subtype, NEW management,
           NEW malformed, NoRecords,
           NEW f, f = FrameOf(p, mode, code, Radio(p), management, malformed),
           code \in DOMAIN SubtypeByCode, management # Invalid,
           ObservedAt(p) # Invalid,
           NormalizeMac(Receiver(p)) # Invalid, NormalizeMac(Transmitter(p)) # Invalid
    PROVE  ValidFrame(f) <=> ~SequenceBeyond(p)
<1> DEFINE read == Addresses(p)
           lengths == FrameLengths(p)
           kept == [receiver |-> read.receiver, transmitter |-> read.transmitter,
                    destination |-> Kept(read.destination),
                    source |-> Kept(read.source), bssid |-> Kept(read.bssid),
                    role |-> RoleHint(SubtypeByCode[code])]
<1>1. /\ f["addresses"] = MacAddresses(kept)
      /\ f["sequence"] = SequenceInfo(Sequence(p))
      /\ f["radio"] = Radio(p)
      /\ f["management"] = management
      /\ f.packet_number = 1
      /\ f.captured_length = lengths.captured
      /\ f.original_length = lengths.original
      /\ f.subtype_code = code
      /\ f.subtype = SubtypeByCode[code]
      /\ f.observed_at = ObservedAt(p)
  BY DEF FrameOf
<1>2. MacAddresses(kept) # Invalid
  BY AddressesAccepted
<1>3. Radio(p) # Invalid
  BY RadioAccepted
<1>4. SequenceInfo(Sequence(p)) = Invalid <=> SequenceBeyond(p)
  BY SequenceRefused
<1>5. lengths.captured >= 0 /\ lengths.captured <= lengths.original
  BY LengthsAgree
<1> HIDE DEF kept, lengths
<1>6. (\A k \in {"addresses", "sequence", "radio", "management"} : f[k] # Invalid)
      <=> ~SequenceBeyond(p)
  BY <1>1, <1>2, <1>3, <1>4
<1>7. /\ f.packet_number >= 1
      /\ f.captured_length >= 0 /\ f.captured_length <= f.original_length
      /\ f.subtype_code \in DOMAIN SubtypeByCode
      /\ SubtypeByCode[f.subtype_code] = f.subtype
      /\ f.observed_at # Invalid
  BY <1>1, <1>5
<1> QED
  BY <1>6, <1>7, Zenon DEF ValidFrame

(* What each obstacle answers.                                             *)
LEMMA ObstacleAnswers ==
    ASSUME NEW p, NEW code, NEW radio, NEW management, NEW i \in 1 .. 14,
           NEW v, v = Obstacles(p, code, radio, management)[i].verdict
    PROVE  /\ v.disposition \in {"ignored", "rejected"}
           /\ v.frame = None
           /\ v.reason \in Reasons
           /\ v.reason = "parser_error" => i \in {7, 12, 14}
  BY DEF Obstacles, Ignored, Rejected, Reasons

(* A packet that meets no obstacle: what it gave.                          *)
LEMMA Unobstructed ==
    ASSUME NEW p, NEW code, NEW radio, NEW management,
           \A i \in 1 .. 14 : ~Obstacles(p, code, radio, management)[i].when
    PROVE  /\ code \in DOMAIN SubtypeByCode
           /\ management # Invalid
           /\ FcsStatus(p) # "invalid"
           /\ ObservedAt(p) # Invalid
           /\ NormalizeMac(Receiver(p)) # Invalid
           /\ NormalizeMac(Transmitter(p)) # Invalid
<1> DEFINE obstacles == Obstacles(p, code, radio, management)
           parsed == code \in DOMAIN SubtypeByCode
<1>1. /\ ~obstacles[1].when /\ ~obstacles[5].when /\ ~obstacles[8].when
      /\ ~obstacles[12].when /\ ~obstacles[14].when
  OBVIOUS
<1>2. /\ obstacles[1].when <=> p.wlan = None
      /\ obstacles[5].when <=> ~parsed
      /\ obstacles[8].when <=> FcsStatus(p) = "invalid"
      /\ obstacles[12].when <=> parsed /\ p.wlan # None /\ management = Invalid
      /\ obstacles[14].when <=> ObservedAt(p) = Invalid
  BY ObstacleConditions
<1> HIDE DEF obstacles
<1>3. parsed /\ management # Invalid /\ FcsStatus(p) # "invalid" /\ ObservedAt(p) # Invalid
  BY <1>1, <1>2, Zenon
<1> QED
  BY <1>3, AddressedPacket

(* What parse makes of a packet, before the result is looked at.           *)
LEMMA ParsedParts ==
    ASSUME NEW o, NEW p \in Packets, NEW mode, NoRecords,
           NEW r, r = Parsed(p, mode, o)
    PROVE  \/ /\ r.disposition \in {"ignored", "rejected"}
              /\ r.frame = None /\ r.reason \in Reasons
              /\ r.reason = "parser_error" => BeyondContract(p)
           \/ /\ r.disposition = "accepted"
              /\ r.reason = None
              /\ ~BeyondContract(p)
              /\ \E code \in DOMAIN SubtypeByCode :
                    r.frame = FrameOf(p, mode, code, Radio(p),
                                      Management(p, SubtypeByCode[code], o),
                                      Malformed(p, SubtypeByCode[code], o))
              /\ FcsStatus(p) # "invalid"
              /\ NormalizeMac(Receiver(p)) # Invalid
              /\ NormalizeMac(Transmitter(p)) # Invalid
<1> DEFINE code == ParseInt(Field(p.wlan, <<"fc_subtype">>))
           subtype == SubtypeByCode[code]
           management == Management(p, subtype, o)
           malformed == Malformed(p, subtype, o)
           obstacles == Obstacles(p, code, Radio(p), management)
           f == FrameOf(p, mode, code, Radio(p), management, malformed)
<1>1. r = Verdict(obstacles, f)
  BY Zenon DEF Parsed, Judged
<1>2. DOMAIN obstacles = 1 .. 14
  BY ObstaclesRefuse
<1>3. \/ \E i \in 1 .. 14 : obstacles[i].when /\ r = obstacles[i].verdict
      \/ (\A i \in 1 .. 14 : ~obstacles[i].when)
         /\ ~ValidFrame(f) /\ r = Rejected("parser_error")
      \/ (\A i \in 1 .. 14 : ~obstacles[i].when)
         /\ ValidFrame(f) /\ r = Accepted(f)
  <2> HIDE DEF obstacles, f
  <2> QED
    BY <1>1, <1>2, VerdictParts
<1>4. management = Invalid <=> ManagementBeyond(p)
  BY ManagementRefused
<1>5. ASSUME NEW i \in 1 .. 14, obstacles[i].when, r = obstacles[i].verdict
      PROVE  /\ r.disposition \in {"ignored", "rejected"}
             /\ r.frame = None /\ r.reason \in Reasons
             /\ r.reason = "parser_error" => BeyondContract(p)
  <2>1. /\ r.disposition \in {"ignored", "rejected"}
        /\ r.frame = None /\ r.reason \in Reasons
        /\ r.reason = "parser_error" => i \in {7, 12, 14}
    BY <1>5, ObstacleAnswers
  <2>2. /\ obstacles[7].when <=> Radio(p) = Invalid
        /\ obstacles[12].when =>  management = Invalid
        /\ obstacles[14].when <=> ObservedAt(p) = Invalid
    BY ObstacleConditions
  <2>3. Radio(p) # Invalid
    BY RadioAccepted
  <2> HIDE DEF obstacles, management
  <2>4. i \in {7, 12, 14} => BeyondContract(p)
    <3>1. CASE i = 7
      BY <1>5, <2>2, <2>3, <3>1
    <3>2. CASE i = 12
      BY <1>4, <1>5, <2>2, <3>2, BeyondParts
    <3>3. CASE i = 14
      BY <1>5, <2>2, <3>3, BeyondParts
    <3> QED
      BY <3>1, <3>2, <3>3
  <2> QED
    BY <2>1, <2>4
<1>6. ASSUME \A i \in 1 .. 14 : ~obstacles[i].when
      PROVE  /\ ~ManagementBeyond(p) /\ ObservedAt(p) # Invalid
             /\ code \in DOMAIN SubtypeByCode
             /\ FcsStatus(p) # "invalid"
             /\ NormalizeMac(Receiver(p)) # Invalid
             /\ NormalizeMac(Transmitter(p)) # Invalid
             /\ ValidFrame(f) <=> ~SequenceBeyond(p)
  <2>1. /\ code \in DOMAIN SubtypeByCode
        /\ management # Invalid
        /\ FcsStatus(p) # "invalid"
        /\ ObservedAt(p) # Invalid
        /\ NormalizeMac(Receiver(p)) # Invalid
        /\ NormalizeMac(Transmitter(p)) # Invalid
    <3> HIDE DEF management, code
    <3> QED
      BY <1>6, Unobstructed
  <2>2. ValidFrame(f) <=> ~SequenceBeyond(p)
    <3>1. f = FrameOf(p, mode, code, Radio(p), management, malformed)
      OBVIOUS
    <3> HIDE DEF f, management, code, malformed
    <3> QED
      BY <2>1, <3>1, FrameRefused
  <2> QED
    BY <1>4, <2>1, <2>2, Zenon
<1>7. CASE \E i \in 1 .. 14 : obstacles[i].when /\ r = obstacles[i].verdict
  <2> HIDE DEF obstacles
  <2> QED
    BY <1>5, <1>7
<1>8. CASE /\ \A i \in 1 .. 14 : ~obstacles[i].when
           /\ ~ValidFrame(f) /\ r = Rejected("parser_error")
  <2> HIDE DEF obstacles, f
  <2>1. BeyondContract(p)
    BY <1>6, <1>8, BeyondParts
  <2> QED
    BY <1>8, <2>1 DEF Rejected, Reasons
<1>9. CASE /\ \A i \in 1 .. 14 : ~obstacles[i].when
           /\ ValidFrame(f) /\ r = Accepted(f)
  <2>1. /\ ~ManagementBeyond(p) /\ ObservedAt(p) # Invalid
        /\ code \in DOMAIN SubtypeByCode
        /\ FcsStatus(p) # "invalid"
        /\ NormalizeMac(Receiver(p)) # Invalid
        /\ NormalizeMac(Transmitter(p)) # Invalid
        /\ ~SequenceBeyond(p)
    <3> HIDE DEF obstacles, f, code
    <3> QED
      BY <1>6, <1>9
  <2>2. ~BeyondContract(p)
    BY <2>1, BeyondParts
  <2>3. r.disposition = "accepted" /\ r.reason = None /\ r.frame = f
    <3> HIDE DEF f
    <3> QED
      BY <1>9 DEF Accepted
  <2>4. \E c \in DOMAIN SubtypeByCode :
           r.frame = FrameOf(p, mode, c, Radio(p), Management(p, SubtypeByCode[c], o),
                             Malformed(p, SubtypeByCode[c], o))
    <3> HIDE DEF code
    <3> QED
      BY <2>1, <2>3
  <2> QED
    BY <2>1, <2>2, <2>3, <2>4
<1> QED
  BY <1>3, <1>7, <1>8, <1>9

(* An accepted frame has its values from the contract's vocabulary.        *)
LEMMA FrameVocabulary ==
    ASSUME NEW o, NEW p \in Packets, NEW mode, NEW code \in DOMAIN SubtypeByCode,
           NEW malformed, NoRecords,
           NEW management, management = Management(p, SubtypeByCode[code], o),
           management # Invalid,
           NEW f, f = FrameOf(p, mode, code, Radio(p), management, malformed),
           FcsStatus(p) # "invalid",
           NormalizeMac(Receiver(p)) # Invalid, NormalizeMac(Transmitter(p)) # Invalid
    PROVE  /\ f # None
           /\ \A k \in {"receiver", "transmitter", "destination", "source", "bssid"} :
                 NormalMac(f.addresses[k])
           /\ f.radio.fcs \in FcsStatuses \ {"invalid"}
           /\ f.management.ssid_state \in SsidStates
           /\ f.subtype \in Subtypes
<1> DEFINE read == Addresses(p)
           kept == [receiver |-> read.receiver, transmitter |-> read.transmitter,
                    destination |-> Kept(read.destination),
                    source |-> Kept(read.source), bssid |-> Kept(read.bssid),
                    role |-> RoleHint(SubtypeByCode[code])]
<1>1. /\ f.addresses = MacAddresses(kept)
      /\ f.radio = Radio(p)
      /\ f.management = management
      /\ f.subtype = SubtypeByCode[code]
  BY DEF FrameOf
<1>2. f # None
  <2>1. IsRecord(f)
    BY SMTT(30) DEF FrameOf, IsRecord
  <2> QED
    BY <2>1 DEF NoRecords
<1>3. \A k \in {"receiver", "transmitter", "destination", "source", "bssid"} :
         NormalMac(f.addresses[k])
  <2>1. \A k \in {"receiver", "transmitter", "destination", "source", "bssid"} :
           NormalMac(MacAddresses(kept)[k])
    BY AddressesAccepted
  <2> HIDE DEF kept
  <2> QED
    BY <1>1, <2>1
<1>4. f.radio.fcs \in FcsStatuses \ {"invalid"}
  <2>1. PICK r : Radio(p) = RadioMetadata(r) /\ r.fcs = FcsStatus(p)
    BY RadioMade
  <2>2. Radio(p) = r
    BY <2>1, RadioAccepted DEF RadioMetadata
  <2>3. FcsStatus(p) \in FcsStatuses
    BY DEF FcsStatus, FcsStatuses
  <2> QED
    BY <1>1, <2>1, <2>2, <2>3
<1>5. f.management.ssid_state \in SsidStates
  <2>1. management.ssid_state = SsidFields(p, SubtypeByCode[code]).ssid_state
    BY ManagementMade
  <2> DEFINE fields == SsidFields(p, SubtypeByCode[code])
             m == [ssid |-> fields.ssid, ssid_hex |-> fields.ssid_hex,
                   ssid_state |-> fields.ssid_state]
  <2>2. m.ssid_state \in SsidStates
    <3>1. /\ m.ssid = fields.ssid /\ m.ssid_hex = fields.ssid_hex
          /\ m.ssid_state = fields.ssid_state
      OBVIOUS
    <3> HIDE DEF m
    <3> QED
      BY <3>1, SsidAgrees
  <2> QED
    BY <1>1, <2>1, <2>2
<1>6. f.subtype \in Subtypes
  BY <1>1 DEF Subtypes, Range
<1> QED
  BY <1>2, <1>3, <1>4, <1>5, <1>6

(* Every result has a frame or a reason, and the frame's addresses are in  *)
(* one notation and its values from the contract's vocabulary              *)
(* (ParserResult, NormalizedWirelessFrame).                                *)
THEOREM TypeCorrect ==
    ASSUME NoRecords
    PROVE  Spec => []TypeOK
<1>1. Origin => TypeOK
  <2> SUFFICES ASSUME Origin, NEW mode \in Modes, Done(mode)
               PROVE  /\ result[mode].disposition \in Dispositions
                      /\ result[mode].reason \in Reasons \cup {None}
                      /\ (result[mode].disposition = "accepted")
                         <=> (result[mode].reason = None)
                      /\ (result[mode].disposition = "accepted")
                         <=> (result[mode].frame # None)
                      /\ AcceptedIn(mode) =>
                            /\ \A k \in {"receiver", "transmitter", "destination",
                                         "source", "bssid"} :
                                  NormalMac(FrameIn(mode).addresses[k])
                            /\ FrameIn(mode).radio.fcs \in FcsStatuses \ {"invalid"}
                            /\ FrameIn(mode).management.ssid_state \in SsidStates
                            /\ FrameIn(mode).subtype \in Subtypes
    BY Zenon DEF TypeOK, AcceptedIn
  <2>1. PICK o \in Orders : result[mode] = Parsed(packet, mode, o)
    BY DEF Origin
  <2>2. packet \in Packets
    BY DEF Origin
  <2> DEFINE r == result[mode]
  <2>3. r = Parsed(packet, mode, o)
    BY <2>1
  <2> HIDE DEF r
  <2>4. CASE /\ r.disposition \in {"ignored", "rejected"}
             /\ r.frame = None /\ r.reason \in Reasons
    BY <2>4, AddressAssumption DEF Dispositions, AcceptedIn, r
  <2>5. CASE /\ r.disposition = "accepted" /\ r.reason = None
             /\ \E code \in DOMAIN SubtypeByCode :
                   r.frame = FrameOf(packet, mode, code, Radio(packet),
                                     Management(packet, SubtypeByCode[code], o),
                                     Malformed(packet, SubtypeByCode[code], o))
             /\ ~BeyondContract(packet)
             /\ FcsStatus(packet) # "invalid"
             /\ NormalizeMac(Receiver(packet)) # Invalid
             /\ NormalizeMac(Transmitter(packet)) # Invalid
    <3>1. PICK code \in DOMAIN SubtypeByCode :
             r.frame = FrameOf(packet, mode, code, Radio(packet),
                               Management(packet, SubtypeByCode[code], o),
                               Malformed(packet, SubtypeByCode[code], o))
      BY <2>5
    <3>2. Management(packet, SubtypeByCode[code], o) # Invalid
      BY <2>2, <2>5, BeyondParts, ManagementRefused
    <3> DEFINE f == r.frame
               management == Management(packet, SubtypeByCode[code], o)
               malformed == Malformed(packet, SubtypeByCode[code], o)
    <3>3. /\ f # None
          /\ \A k \in {"receiver", "transmitter", "destination", "source", "bssid"} :
                NormalMac(f.addresses[k])
          /\ f.radio.fcs \in FcsStatuses \ {"invalid"}
          /\ f.management.ssid_state \in SsidStates
          /\ f.subtype \in Subtypes
      BY <2>2, <2>5, <3>1, <3>2, FrameVocabulary
    <3> QED
      BY <2>5, <3>3, AddressAssumption DEF Dispositions, FrameIn, r
  <2> QED
    BY <2>2, <2>3, <2>4, <2>5, ParsedParts
<1> QED
  BY <1>1, ResultsAreParsed, PTL

(* parser_error means a number or a time the contract has no room for, and *)
(* nothing with one is accepted, for any packets whose fields have the     *)
(* kinds the dissector gives them (PacketParser.parse, the constructors).  *)
THEOREM ErrorsAreDeserved ==
    ASSUME NoRecords
    PROVE  Spec => []ErrorsDeserved
<1>1. Origin => ErrorsDeserved
  <2> SUFFICES ASSUME Origin, NEW mode \in Modes, Done(mode)
               PROVE  /\ result[mode].reason = "parser_error" => BeyondContract(packet)
                      /\ AcceptedIn(mode) => ~BeyondContract(packet)
    BY Zenon DEF ErrorsDeserved, AcceptedIn
  <2>1. PICK o \in Orders : result[mode] = Parsed(packet, mode, o)
    BY DEF Origin
  <2>2. packet \in Packets
    BY DEF Origin
  <2> DEFINE r == result[mode]
  <2>3. r = Parsed(packet, mode, o)
    BY <2>1
  <2> HIDE DEF r
  <2>4. \/ /\ r.disposition \in {"ignored", "rejected"}
           /\ r.reason = "parser_error" => BeyondContract(packet)
        \/ r.reason = None /\ ~BeyondContract(packet)
    BY <2>2, <2>3, ParsedParts
  <2>5. None # "parser_error"
    BY AddressAssumption DEF Reasons
  <2> QED
    BY <2>4, <2>5 DEF AcceptedIn, r
<1> QED
  BY <1>1, ResultsAreParsed, PTL
=============================================================================
