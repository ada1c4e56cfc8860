----------------------------- MODULE FrameModels -----------------------------
(***************************************************************************)
(* The records of wids/capture/frame_models.py that the parser makes: the  *)
(* vocabulary, and what each constructor normalizes and refuses.  A        *)
(* constructor that raises ValueError returns Invalid.                     *)
(*                                                                         *)
(* A MAC address is a text that denotes an address in some notation.  The  *)
(* bytes of an SSID have a length and may or may not be UTF-8; their text  *)
(* is their identity.  A digest stands for what it was made from.          *)
(***************************************************************************)
EXTENDS Channels, Sequences, FiniteSets, Functions

CONSTANT Invalid

-----------------------------------------------------------------------------
(* Vocabulary *)

SubtypeByCode == [code \in 0 .. 15 |->
    << "association_request", "association_response", "reassociation_request",
       "reassociation_response", "probe_request", "probe_response", "reserved_6",
       "reserved_7", "beacon", "atim", "disassociation", "authentication",
       "deauthentication", "action", "action_no_ack", "reserved_15" >>[code + 1]]
Subtypes == Range(SubtypeByCode)

FcsStatuses == {"valid", "invalid", "not_present", "unknown"}
SsidStates == {"present", "hidden", "wildcard", "invalid_utf8", "absent"}
Protocols == {"wpa", "wpa2", "wpa3"}
Classifications ==
    {"open", "wep_or_legacy", "wpa", "wpa2", "wpa3", "mixed", "unknown"}
Dispositions == {"accepted", "ignored", "rejected"}
Reasons ==
    {"not_ieee80211", "out_of_scope_frame_type", "unsupported_subtype",
     "truncated_management_header", "missing_receiver_address",
     "missing_transmitter_address", "invalid_mac_address", "invalid_fcs",
     "malformed_required_field", "parser_error"}

RoleHint(subtype) ==
    CASE subtype \in {"beacon", "probe_response"} -> "access_point"
      [] subtype = "probe_request" -> "station"
      [] OTHER -> "unknown"

Sha256(content) == [digest |-> content]

-----------------------------------------------------------------------------
(* Constructors *)

InRange(v, low, high) == v = None \/ v \in low .. high
NotNegative(v) == v = None \/ v >= 0
Positive(v) == v = None \/ v > 0

(* Deviation: the notation is left as it is.                               *)
NormalizeMacAsGiven(text) == IF text.mac = None THEN Invalid ELSE text

(* normalize_mac: uppercase pairs with colons, from any notation.          *)
NormalizeMac(text) ==
    IF text.mac = None THEN Invalid ELSE [mac |-> text.mac, notation |-> "colons"]

NormalizeOptionalMac(text) == IF text = None THEN None ELSE NormalizeMac(text)

MacAddresses(a) ==
    LET normal == [receiver |-> NormalizeMac(a.receiver),
                   transmitter |-> NormalizeMac(a.transmitter),
                   destination |-> NormalizeOptionalMac(a.destination),
                   source |-> NormalizeOptionalMac(a.source),
                   bssid |-> NormalizeOptionalMac(a.bssid),
                   role |-> a.role]
    IN  IF Invalid \in Range(normal) THEN Invalid ELSE normal

SequenceInfo(s) ==
    IF InRange(s.number, 0, 4095) /\ InRange(s.fragment, 0, 15) THEN s ELSE Invalid

RadioMetadata(r) ==
    IF /\ InRange(r.channel, 1, 233)
       /\ Positive(r.frequency)
       /\ InRange(r.signal, -127, 0)
       /\ InRange(r.noise, -127, 0)
       /\ Positive(r.rate)
       /\ NotNegative(r.antenna)
    THEN r ELSE Invalid

(* sorted(set(names)): one sequence for each set of names.                 *)
Arranged(S) == CHOOSE s \in [1 .. Cardinality(S) -> S] : Range(s) = S
Canonical(names) == Arranged(Range(names))

(* Deviation: names in the order they were found in.                       *)
CanonicalProfileAsGiven(p) == p

CanonicalProfile(p) ==
    [p EXCEPT !.protocols = Canonical(@), !.pairwise = Canonical(@),
              !.akms = Canonical(@)]

CanonicalPayload(p) == [k \in DOMAIN p \ {"fingerprint"} |-> p[k]]

(* Deviation: the fingerprint of the values as they were given.            *)
FingerprintUnsorted(p) == Sha256(CanonicalPayload(p))
Fingerprint(p) == Sha256(CanonicalPayload(CanonicalProfile(p)))

SecurityProfile(p) ==
    IF p.fingerprint \notin {None, Fingerprint(p)} THEN Invalid
    ELSE [CanonicalProfile(p) EXCEPT !.fingerprint = Fingerprint(p)]

(* Each state of the SSID fixes whether there is text, and which bytes.    *)
HexKind(hex) ==
    IF hex = None THEN "none" ELSE IF hex.length = 0 THEN "empty" ELSE "bytes"

SsidConsistent(m) ==
    /\ m.ssid_hex # None => m.ssid_hex.length <= 32
    /\ LET text == m.ssid # None
           hex == HexKind(m.ssid_hex)
       IN  CASE m.ssid_state = "present" -> text /\ hex = "bytes"
             [] m.ssid_state \in {"hidden", "wildcard"} -> ~text /\ hex = "empty"
             [] m.ssid_state = "invalid_utf8" -> ~text /\ hex = "bytes"
             [] m.ssid_state = "absent" -> ~text /\ hex = "none"

ManagementFields(m) ==
    IF /\ SsidConsistent(m)
       /\ InRange(m.advertised_channel, 1, 233)
       /\ \A k \in {"reason", "status", "auth_algorithm", "auth_sequence",
                    "beacon_interval"} : NotNegative(m[k])
       /\ m.security # Invalid
    THEN m ELSE Invalid

(* NormalizedWirelessFrame, given the results of the other constructors.   *)
ValidFrame(f) ==
    /\ \A k \in {"addresses", "sequence", "radio", "management"} : f[k] # Invalid
    /\ f.packet_number >= 1
    /\ f.captured_length >= 0 /\ f.captured_length <= f.original_length
    /\ f.subtype_code \in DOMAIN SubtypeByCode
    /\ SubtypeByCode[f.subtype_code] = f.subtype
    /\ f.observed_at # Invalid

Frame(f) == IF ValidFrame(f) THEN f ELSE Invalid

(* from_json(to_json(f)): the values are written as they are, and reading  *)
(* them calls every constructor again.                                     *)
RebuiltManagement(m) ==
    ManagementFields(
        [m EXCEPT !.security = IF @ = None THEN None ELSE SecurityProfile(@)])

Rebuilt(f) ==
    Frame([f EXCEPT
        !.addresses = MacAddresses(@),
        !.sequence = SequenceInfo(@),
        !.radio = RadioMetadata(@),
        !.management = RebuiltManagement(@)])

(* semantic_dict: what a replay and a live capture have in common.         *)
Semantics(f) ==
    [k \in DOMAIN f \ {"ingested_at", "capture_source", "interface_name"} |-> f[k]]

-----------------------------------------------------------------------------
(* ParserResult *)

Accepted(f) == [disposition |-> "accepted", frame |-> f, reason |-> None]
Ignored(reason) == [disposition |-> "ignored", frame |-> None, reason |-> reason]
Rejected(reason) == [disposition |-> "rejected", frame |-> None, reason |-> reason]
=============================================================================
