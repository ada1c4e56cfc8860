---------------------------- MODULE PacketParser ----------------------------
(***************************************************************************)
(* PacketParser of wids/capture/packet_parser.py: one packet, as the       *)
(* dissector shows it, becomes an accepted frame, an ignored packet or a   *)
(* rejected one.  The same packet is parsed once live and once from its    *)
(* evidence file, in two processes: Python iterates the set of protocols   *)
(* in an order that depends on the process.                                *)
(*                                                                         *)
(* A packet has layers, a layer is a function from field names to values   *)
(* or None.  Names that the code only ever tries together are one field.   *)
(* A value is a number, a truth value, a text as FrameModels has it, or    *)
(* Garbled: a text in which the parse finds nothing.                       *)
(***************************************************************************)
EXTENDS FrameModels, FiniteSetsExt, TLC

CONSTANTS Packets,  \* the packets the dissector may deliver
          Orders,   \* how a process iterates each set of protocols
          Missing, Garbled

(* The lists of names in a layer. *)
Lists == {"akm_suites", "rsn_akm", "wpa_akm", "pairwise_ciphers", "rsn_pairwise",
          "wpa_pairwise"}

(* The addresses in a layer. *)
AddressFields == {"ra", "ta", "da", "sa", "bssid", "addr1", "addr2", "addr3"}

\* A text that denotes an address is normalized to an address.
ASSUME AddressAssumption ==
    /\ Invalid \notin {None, "access_point", "station", "unknown"}
    /\ None \notin Reasons
    /\ \A p \in Packets : p.wlan # None =>
          \A n \in AddressFields \cap DOMAIN p.wlan :
              p.wlan[n] # Missing /\ p.wlan[n].mac # None =>
                  NormalizeMac(p.wlan[n]) \notin {None, Invalid}

(* The numbers in a layer, and the values that have a length.              *)
NumberFields ==
    {"frequency", "channel", "signal", "noise", "rate", "antenna", "cap_len", "len",
     "seq", "frag", "advertised_channel", "reason", "status", "auth_algorithm",
     "auth_sequence", "beacon_interval"}
BytesFields == {"ssid_raw", "ssid", "raw_packet"}

\* The dissector gives integers and bytes where it gives anything.
ASSUME KindAssumption ==
    \A p \in Packets :
        \A l \in {"self", "frame_info", "radiotap", "wlan_radio", "wlan", "wlan_mgt"} :
            p[l] # None =>
                /\ \A n \in NumberFields \cap DOMAIN p[l] : p[l][n] \in Int \cup {Garbled}
                /\ \A n \in BytesFields \cap DOMAIN p[l] :
                      p[l][n] # None /\ p[l][n].length \in Nat

ASSUME ParserAssumption ==
    /\ Orders \subseteq [SUBSET Protocols -> Seq(Protocols)]
    /\ \A o \in Orders : \A S \in SUBSET Protocols : Range(o[S]) = S
    \* What the dissector lists is finite.
    /\ \A p \in Packets : \A l \in {"wlan", "wlan_mgt"} : p[l] # None =>
          \A n \in Lists \cap DOMAIN p[l] : IsFiniteSet(DOMAIN p[l][n])

VARIABLES packet,   \* the packet at hand
          result    \* mode -> what parse returned, or None

vars == <<packet, result>>

Modes == {"live", "replay"}

-----------------------------------------------------------------------------
(* Reading the dissector's fields *)

(* The value under the first of the names the layer has.                   *)
Field(layer, names) ==
    LET present == {i \in DOMAIN names : layer # None /\ names[i] \in DOMAIN layer}
    IN  IF present = {} THEN Missing ELSE layer[names[Min(present)]]

(* The value in the first of the layers that has the field.                *)
FirstField(layers, name) ==
    LET having == {i \in DOMAIN layers : Field(layers[i], <<name>>) # Missing}
    IN  IF having = {} THEN Missing ELSE layers[Min(having)][name]

ParseInt(v) == IF v \in {Missing, Garbled} THEN None ELSE v
ParseBool(v) == IF v \in {Missing, Garbled} THEN None ELSE v
FieldValues(v) == IF v = Missing THEN <<>> ELSE v

Or(v, default) == IF v = None THEN default ELSE v
Bounded(v, low, high) == IF v # None /\ v \in low .. high THEN v ELSE None

-----------------------------------------------------------------------------
(* Parts of the frame *)

RawPacket(p) == Field(p.self, <<"raw_packet">>)

(* Deviation: the lengths as the dissector gives them.                     *)
FrameLengthsAsGiven(p) ==
    LET given(name) == ParseInt(FirstField(<<p.frame_info, p.self>>, name))
        positive(v) == IF Or(v, 0) > 0 THEN v ELSE 0
    IN  [captured |-> positive(Or(given("cap_len"), given("len"))),
         original |-> positive(Or(given("len"), given("cap_len")))]

FrameLengths(p) ==
    LET given(name) == ParseInt(FirstField(<<p.frame_info, p.self>>, name))
        counted == IF RawPacket(p) = Missing THEN None ELSE RawPacket(p).length
        captured == Or(given("cap_len"), counted)
        original == Or(given("len"), captured)
        positive(v) == IF Or(v, 0) > 0 THEN v ELSE 0
        kept == positive(Or(captured, original))
    IN  [captured |-> kept,
         original |-> IF kept > positive(original) THEN kept ELSE positive(original)]

Truncated(p) ==
    \/ ParseBool(FirstField(<<p.self, p.frame_info>>, "truncated")) = TRUE
    \/ FrameLengths(p).captured \in 1 .. 23

(* A text is the set of the words it contains: "invalid" contains "valid". *)
FcsStatus(p) ==
    LET reporters == <<p.radiotap, p.wlan>>
        text == FirstField(reporters, "fcs_status")
        words == IF text = Missing THEN {} ELSE text
    IN  IF \/ ParseBool(FirstField(reporters, "bad_fcs")) = TRUE
           \/ words \cap {"bad", "invalid", "failed"} # {}
        THEN "invalid"
        ELSE IF words \cap {"good", "valid", "passed"} # {} THEN "valid"
        ELSE IF {"not", "present"} \subseteq words THEN "not_present"
        ELSE "unknown"

(* A value the contract has no room for is dropped.                        *)
Radio(p) ==
    LET value(name) == ParseInt(FirstField(<<p.wlan_radio, p.radiotap>>, name))
        frequency == value("frequency")
        channel == IF value("channel") = None /\ frequency # None
                   THEN FrequencyToChannel(frequency) ELSE value("channel")
        atLeast(v, low) == IF v # None /\ v >= low THEN v ELSE None
    IN  RadioMetadata(
          [channel |-> Bounded(channel, 1, 233),
           frequency |-> atLeast(frequency, 1),
           signal |-> Bounded(value("signal"), -127, 0),
           noise |-> Bounded(value("noise"), -127, 0),
           rate |-> atLeast(value("rate"), 1),
           antenna |-> atLeast(value("antenna"), 0),
           fcs |-> FcsStatus(p)])

(* Deviation: an address that cannot be read is one that is missing.       *)
OptionalMacForgiving(text, fallback) ==
    IF text = Missing \/ NormalizeMac(text) = Invalid THEN fallback ELSE NormalizeMac(text)

OptionalMac(text, fallback) ==
    IF text = Missing THEN fallback ELSE NormalizeMac(text)

Flags == {"to_ds", "from_ds", "more_fragments", "retry", "power_management",
          "more_data", "protected", "order"}

FrameFlags(wlan) == [f \in Flags |-> Or(ParseBool(Field(wlan, <<f>>)), FALSE)]

(* The digest of the frame: its own bytes if the dissector has them, or    *)
(* those of the packet behind the radiotap header.                         *)
FrameDigest(p) ==
    LET own == Field(p.self, <<"wlan_raw">>)
        raw == RawPacket(p)
        header == IF p.radiotap # None /\ raw.header \in 4 .. raw.length - 1
                  THEN raw.header ELSE 0
    IN  CASE own # Missing /\ own.length > 0 -> Sha256(own)
          [] ~(own # Missing /\ own.length > 0) /\ raw # Missing /\ raw.length > 0 ->
                Sha256([id |-> raw.id, length |-> raw.length - header])
          [] OTHER -> None

(* In days; what a datetime can hold ends with the year 9999.              *)
Representable == -719162 .. 2932896

ObservedAt(p) ==
    LET sniffed == Field(p.self, <<"sniff_time">>)
        epoch == ParseInt(FirstField(<<p.self, p.frame_info>>, "sniff_timestamp"))
    IN  IF sniffed # Missing /\ sniffed.datetime THEN sniffed.day
        ELSE IF epoch # None
             THEN IF epoch \in Representable THEN epoch ELSE Invalid
        ELSE IF sniffed # Missing THEN ParseInt(sniffed.day)
        ELSE None

-----------------------------------------------------------------------------
(* Management fields *)

Announces(subtype) == subtype \in {"beacon", "probe_response"}

(* The raw bytes, or else the displayed text's; never unreadable.          *)
SsidText(p) ==
    LET layers == <<Or(p.wlan_mgt, p.wlan), p.wlan>>
    IN  IF FirstField(layers, "ssid_raw") # Missing THEN FirstField(layers, "ssid_raw")
        ELSE FirstField(layers, "ssid")

SsidFields(p, subtype) ==
    LET bytes == SsidText(p)
        fields(ssid, hex, state) == [ssid |-> ssid, ssid_hex |-> hex, ssid_state |-> state]
    IN  IF bytes = Missing \/ bytes.length > 32 THEN fields(None, None, "absent")
        ELSE IF bytes.length = 0
             THEN fields(None, bytes,
                         IF subtype = "probe_request" THEN "wildcard" ELSE "hidden")
        ELSE IF bytes.utf8 THEN fields(bytes, bytes, "present")
        ELSE fields(None, bytes, "invalid_utf8")

CipherTypes ==
    0 :> "use_group" @@ 1 :> "wep_40" @@ 2 :> "tkip" @@ 4 :> "ccmp_128"
    @@ 5 :> "wep_104" @@ 6 :> "bip_cmac_128" @@ 8 :> "gcmp_128" @@ 9 :> "gcmp_256"
    @@ 10 :> "ccmp_256" @@ 11 :> "bip_gmac_128" @@ 12 :> "bip_gmac_256"
    @@ 13 :> "bip_cmac_256"
AkmTypes ==
    1 :> "ieee8021x" @@ 2 :> "psk" @@ 3 :> "ft_ieee8021x" @@ 4 :> "ft_psk"
    @@ 5 :> "ieee8021x_sha256" @@ 6 :> "psk_sha256" @@ 8 :> "sae" @@ 9 :> "ft_sae"
    @@ 11 :> "ieee8021x_suite_b" @@ 12 :> "ieee8021x_suite_b_192" @@ 18 :> "owe"

(* A suite is written as a name or with a number; the first number of the  *)
(* text counts, even if it belongs to a vendor's prefix.                   *)
CanonicalSuite(suite, table) ==
    IF suite.token \in Range(table) THEN suite.token
    ELSE IF suite.number \in DOMAIN table THEN table[suite.number]
    ELSE "unlisted"

Suites(layer, names, table) ==
    LET values == FieldValues(Field(layer, names))
    IN  [i \in DOMAIN values |-> CanonicalSuite(values[i], table)]

Wpa3Akms == {"sae", "ft_sae", "owe"}

ProtocolsOf(layer, akms) ==
    LET has(names) == Field(layer, names) # Missing
        rsn == has(<<"rsn_version", "rsn_group", "rsn_pairwise", "rsn_akm">>)
        wpa == has(<<"wpa_version", "wpa_group", "wpa_pairwise", "wpa_akm">>)
    IN  (Range(FieldValues(Field(layer, <<"security_protocols">>))) \cap Protocols)
        \cup (IF wpa THEN {"wpa"} ELSE {})
        \cup (IF rsn /\ akms \cap Wpa3Akms # {} THEN {"wpa3"} ELSE {})
        \cup (IF rsn /\ (akms = {} \/ ~(akms \subseteq Wpa3Akms)) THEN {"wpa2"} ELSE {})

(* None if nothing classifies the network, Invalid for an unknown class.   *)
Classification(layer, privacy, protocols) ==
    LET direct == Field(layer, <<"security_classification">>)
    IN  CASE direct # Missing -> IF direct \in Classifications THEN direct ELSE Invalid
          [] direct = Missing /\ Cardinality(protocols) > 1 -> "mixed"
          [] direct = Missing /\ Cardinality(protocols) = 1 -> CHOOSE p \in protocols : TRUE
          [] OTHER -> IF privacy = None THEN None
                      ELSE IF privacy THEN "wep_or_legacy" ELSE "open"

(* The RSN suites hide those of WPA when a network announces both.         *)
SecurityOf(layer, privacy, order) ==
    LET akms == Suites(layer, <<"akm_suites", "rsn_akm", "wpa_akm">>, AkmTypes)
        group == Suites(layer, <<"group_cipher", "rsn_group", "wpa_group">>, CipherTypes)
        protocols == ProtocolsOf(layer, Range(akms))
        class == Classification(layer, privacy, protocols)
    IN  IF class \in {None, Invalid} THEN class
        ELSE SecurityProfile(
               [classification |-> class,
                protocols |-> order[protocols],
                group |-> IF group = <<>> THEN None ELSE Head(group),
                pairwise |-> Suites(layer, <<"pairwise_ciphers", "rsn_pairwise",
                                             "wpa_pairwise">>, CipherTypes),
                akms |-> akms,
                pmf_capable |-> ParseBool(Field(layer, <<"pmf_capable">>)),
                pmf_required |-> ParseBool(Field(layer, <<"pmf_required">>)),
                fingerprint |-> None])

(* The stable bytes the dissector made, or the values of the frame.        *)
IeFingerprint(layer, values) ==
    LET stable == Field(layer, <<"stable_information_elements">>)
    IN  IF stable # Missing THEN Sha256(stable)
        ELSE IF \A k \in DOMAIN values : values[k] = None THEN None
        ELSE Sha256(values)

(* Invalid is the malformed RSN element, however it is noticed.            *)
SecurityFound(p, subtype, privacy, order) ==
    LET layer == Or(p.wlan_mgt, p.wlan)
        found == SecurityOf(layer, privacy, order)
    IN  IF ~Announces(subtype) THEN None
        ELSE IF ParseBool(Field(layer, <<"malformed_rsn">>)) = TRUE THEN Invalid
        ELSE IF found = None /\ p.wlan_mgt # None
             THEN SecurityOf(p.wlan, privacy, order)
        ELSE found

Management(p, subtype, order) ==
    LET layer == Or(p.wlan_mgt, p.wlan)
        number(name) == ParseInt(Field(layer, <<name>>))
        privacy == ParseBool(Field(layer, <<"privacy">>))
        found == SecurityFound(p, subtype, privacy, order)
        security == IF found = Invalid THEN None ELSE found
        ssid == SsidFields(p, subtype)
        stable == [advertised_channel |-> number("advertised_channel"),
                   beacon_interval |-> number("beacon_interval"),
                   privacy |-> privacy,
                   security |-> IF security = None THEN None ELSE security.fingerprint,
                   ssid_hex |-> ssid.ssid_hex]
    IN  ManagementFields(
          [advertised_channel |-> number("advertised_channel"),
           reason |-> number("reason"),
           status |-> number("status"),
           auth_algorithm |-> number("auth_algorithm"),
           auth_sequence |-> number("auth_sequence"),
           beacon_interval |-> number("beacon_interval"),
           ssid |-> ssid.ssid,
           ssid_hex |-> ssid.ssid_hex,
           ssid_state |-> ssid.ssid_state,
           privacy |-> privacy,
           ie_fingerprint |-> IeFingerprint(layer, stable),
           security |-> security])

-----------------------------------------------------------------------------
(* The frame and its warnings *)

Receiver(p) == Field(p.wlan, <<"ra", "addr1">>)
Transmitter(p) == Field(p.wlan, <<"ta", "addr2">>)

Addresses(p) ==
    [receiver |-> NormalizeMac(Receiver(p)),
     transmitter |-> NormalizeMac(Transmitter(p)),
     destination |-> OptionalMac(Field(p.wlan, <<"da", "addr1">>), NormalizeMac(Receiver(p))),
     source |-> OptionalMac(Field(p.wlan, <<"sa", "addr2">>), NormalizeMac(Transmitter(p))),
     bssid |-> OptionalMac(Field(p.wlan, <<"bssid", "addr3">>), None)]

(* One number without the other is dropped.                                *)
Sequence(p) ==
    LET number == ParseInt(Field(p.wlan, <<"seq">>))
        fragment == ParseInt(Field(p.wlan, <<"frag">>))
    IN  IF None \in {number, fragment} THEN [number |-> None, fragment |-> None]
        ELSE [number |-> number, fragment |-> fragment]

MissingSubtypeValues(subtype, bssid, radio, management) ==
    LET leaves == subtype \in {"deauthentication", "disassociation"}
        auth == subtype = "authentication"
        conditions ==
          [missing_bssid |-> (Announces(subtype) \/ leaves \/ auth) /\ bssid = None,
           missing_ssid_element |->
               /\ Announces(subtype) \/ subtype = "probe_request"
               /\ management.ssid_state = "absent",
           missing_channel |->
               /\ Announces(subtype)
               /\ management.advertised_channel = None
               /\ radio.channel = None,
           missing_security_profile |-> Announces(subtype) /\ management.security = None,
           missing_beacon_interval |->
               subtype = "beacon" /\ management.beacon_interval = None,
           missing_authentication_algorithm |-> auth /\ management.auth_algorithm = None,
           missing_authentication_sequence |-> auth /\ management.auth_sequence = None,
           missing_reason_code |-> leaves /\ management.reason = None]
    IN  {w \in DOMAIN conditions : conditions[w]}

(* What the packet has in a form that cannot be used.                      *)
Malformed(p, subtype, order) ==
    LET addresses == Addresses(p)
        privacy == ParseBool(Field(Or(p.wlan_mgt, p.wlan), <<"privacy">>))
        conditions ==
          [invalid_destination_address |-> addresses.destination = Invalid,
           invalid_source_address |-> addresses.source = Invalid,
           invalid_bssid |-> addresses.bssid = Invalid,
           missing_sequence_control |-> Sequence(p).number = None,
           invalid_ssid_length |-> SsidText(p) # Missing /\ SsidText(p).length > 32,
           malformed_rsn_ie |-> SecurityFound(p, subtype, privacy, order) = Invalid]
    IN  {w \in DOMAIN conditions : conditions[w]}

Kept(text) == IF text = Invalid THEN None ELSE text

(* What the envelope brings and semantic_dict keeps is taken to be equal in*)
(* both passes: the capture session id, left out here, the packet number   *)
(* and the reference to the evidence.                                      *)
FrameOf(p, mode, code, radio, management, malformed) ==
    LET subtype == SubtypeByCode[code]
        read == Addresses(p)
        addresses == [receiver |-> read.receiver, transmitter |-> read.transmitter,
                      destination |-> Kept(read.destination),
                      source |-> Kept(read.source), bssid |-> Kept(read.bssid),
                      role |-> RoleHint(subtype)]
        lost == malformed
                \cup MissingSubtypeValues(subtype, addresses.bssid, radio, management)
        mismatch == /\ None \notin {radio.channel, management.advertised_channel}
                    /\ radio.channel # management.advertised_channel
        lengths == FrameLengths(p)
    IN  [capture_source |-> IF mode = "live" THEN "live" ELSE "pcap",
         interface_name |-> IF mode = "live" THEN "wlan0mon" ELSE None,
         ingested_at |-> mode,
         packet_number |-> 1,
         observed_at |-> ObservedAt(p),
         captured_length |-> lengths.captured,
         original_length |-> lengths.original,
         subtype |-> subtype,
         subtype_code |-> code,
         addresses |-> MacAddresses(addresses),
         sequence |-> SequenceInfo(Sequence(p)),
         flags |-> FrameFlags(p.wlan),
         radio |-> radio,
         management |-> management,
         evidence |-> [pcap_reference |-> "evidence", frame_sha256 |-> FrameDigest(p)],
         status |-> IF lost = {} THEN "complete" ELSE "partial",
         warnings |-> lost \cup (IF mismatch THEN {"channel_mismatch"} ELSE {})]

-----------------------------------------------------------------------------
(* The verdict: the first obstacle in the order of the code *)

Obstacles(p, code, radio, management) ==
    LET type == ParseInt(Field(p.wlan, <<"fc_type">>))
        when(condition, verdict) == [when |-> condition, verdict |-> verdict]
        addressed == Missing \notin {Receiver(p), Transmitter(p)}
        parsed == code \in DOMAIN SubtypeByCode
    IN  << when(p.wlan = None, Ignored("not_ieee80211")),
           when(type = None, Rejected("malformed_required_field")),
           when(type # 0, Ignored("out_of_scope_frame_type")),
           when(code = None, Rejected("malformed_required_field")),
           when(~parsed, Ignored("unsupported_subtype")),
           when(Truncated(p), Rejected("truncated_management_header")),
           when(radio = Invalid, Rejected("parser_error")),
           when(FcsStatus(p) = "invalid", Rejected("invalid_fcs")),
           when(Receiver(p) = Missing, Rejected("missing_receiver_address")),
           when(Transmitter(p) = Missing, Rejected("missing_transmitter_address")),
           when(addressed /\ Invalid \in {NormalizeMac(Receiver(p)),
                                          NormalizeMac(Transmitter(p))},
                Rejected("invalid_mac_address")),
           when(parsed /\ p.wlan # None /\ management = Invalid,
                Rejected("parser_error")),
           when(ObservedAt(p) = None, Rejected("malformed_required_field")),
           when(ObservedAt(p) = Invalid, Rejected("parser_error")) >>

Verdict(obstacles, frame) ==
    LET met == {i \in DOMAIN obstacles : obstacles[i].when}
    IN  CASE met # {} -> obstacles[Min(met)].verdict
          [] met = {} /\ ~ValidFrame(frame) -> Rejected("parser_error")
          [] OTHER -> Accepted(frame)

Judged(p, mode, code, radio, management, malformed) ==
    Verdict(Obstacles(p, code, radio, management),
            FrameOf(p, mode, code, radio, management, malformed))

Parsed(p, mode, order) ==
    LET code == ParseInt(Field(p.wlan, <<"fc_subtype">>))
        subtype == SubtypeByCode[code]
    IN  Judged(p, mode, code, Radio(p), Management(p, subtype, order),
               Malformed(p, subtype, order))

-----------------------------------------------------------------------------
Init == packet \in Packets /\ result = [m \in Modes |-> None]

Parse(mode) ==
    /\ result[mode] = None
    /\ \E order \in Orders : result' = [result EXCEPT ![mode] = Parsed(packet, mode, order)]
    /\ UNCHANGED packet

Next == \E m \in Modes : Parse(m)

Spec == Init /\ [][Next]_vars

-----------------------------------------------------------------------------
(* Correctness *)

Done(mode) == result[mode] # None
AcceptedIn(mode) == Done(mode) /\ result[mode].disposition = "accepted"
FrameIn(mode) == result[mode].frame

NormalMac(a) == a # None => a.mac # None /\ a.notation = "colons"

(* Every result has a frame or a reason, and the frame's addresses are in  *)
(* one notation and its values from the contract's vocabulary              *)
(* (ParserResult, NormalizedWirelessFrame).                                *)
TypeOK ==
    /\ \A m \in Modes : Done(m) =>
          /\ result[m].disposition \in Dispositions
          /\ result[m].reason \in Reasons \cup {None}
          /\ (result[m].disposition = "accepted") <=> (result[m].reason = None)
          /\ (result[m].disposition = "accepted") <=> (result[m].frame # None)
    /\ \A m \in Modes : AcceptedIn(m) =>
          /\ \A k \in {"receiver", "transmitter", "destination", "source", "bssid"} :
                NormalMac(FrameIn(m).addresses[k])
          /\ FrameIn(m).radio.fcs \in FcsStatuses \ {"invalid"}
          /\ FrameIn(m).management.ssid_state \in SsidStates
          /\ FrameIn(m).subtype \in Subtypes

Numbers == {"advertised_channel", "reason", "status", "auth_algorithm",
            "auth_sequence", "beacon_interval"}

(* What the packet says that the contract has no room for.                 *)
BeyondContract(p) ==
    LET number(layer, name) == ParseInt(Field(layer, <<name>>))
        management == Or(p.wlan_mgt, p.wlan)
        sequence == <<number(p.wlan, "seq"), number(p.wlan, "frag")>>
    IN  \/ \E n \in Numbers : Or(number(management, n), 0) < 0
        \/ number(management, "advertised_channel") # None
           /\ ~ValidChannel(number(management, "advertised_channel"))
        \/ None \notin Range(sequence) /\ sequence \notin (0 .. 4095) \X (0 .. 15)
        \/ ObservedAt(p) = Invalid

(* A whole frame is lost to parser_error only for a number or a time that  *)
(* the contract has no room for, and never accepted with one.  No radio    *)
(* value, length or unreadable text costs the frame, though parse turns    *)
(* every exception of its many steps into parser_error                     *)
(* (PacketParser.parse, the constructors of frame_models).                 *)
ErrorsDeserved ==
    \A m \in Modes :
        /\ Done(m) /\ result[m].reason = "parser_error" => BeyondContract(packet)
        /\ AcceptedIn(m) => ~BeyondContract(packet)

AddressNames ==
    {<<"da", "addr1">>, <<"sa", "addr2">>, <<"bssid", "addr3">>}

Needed(subtype) ==
    CASE subtype = "beacon" -> {"bssid", "ssid", "channel", "security", "beacon_interval"}
      [] subtype = "probe_response" -> {"bssid", "ssid", "channel", "security"}
      [] subtype = "probe_request" -> {"ssid"}
      [] subtype = "authentication" -> {"bssid", "auth_algorithm", "auth_sequence"}
      [] subtype \in {"deauthentication", "disassociation"} -> {"bssid", "reason"}
      [] OTHER -> {}

Has(frame, value) ==
    CASE value = "bssid" -> frame.addresses.bssid # None
      [] value = "ssid" -> frame.management.ssid_state # "absent"
      [] value = "channel" ->
            {frame.radio.channel, frame.management.advertised_channel} # {None}
      [] OTHER -> frame.management[value] # None

(* A frame is complete exactly when it has what its subtype needs, its     *)
(* sequence control, and every address and SSID the packet gave: what the  *)
(* parser drops on the way is never passed over in silence                 *)
(* (parse_status, which each of five steps may set to partial).            *)
CompleteMeansComplete ==
    \A m \in Modes : AcceptedIn(m) =>
        ( FrameIn(m).status = "complete"
          <=> /\ \A v \in Needed(FrameIn(m).subtype) : Has(FrameIn(m), v)
              /\ FrameIn(m).sequence.number # None
              /\ \A names \in AddressNames :
                    LET text == Field(packet.wlan, names)
                    IN  text # Missing => text.mac # None
              /\ SsidText(packet) # Missing => FrameIn(m).management.ssid_state # "absent" )

(* An accepted frame written as JSON and read again is the same frame: no  *)
(* constructor refuses or changes what it made, the fingerprint of the     *)
(* security profile included (to_json, from_json).                         *)
RoundTrip ==
    \A m \in Modes : AcceptedIn(m) => Rebuilt(FrameIn(m)) = FrameIn(m)

(* A replay of the evidence gives the verdict and the frame of the live    *)
(* capture, whatever the order in which each process iterates its sets, if *)
(* session id, packet number and evidence reference of the two envelopes   *)
(* are equal (semantic_dict; they are in the test of the repository,       *)
(* test_live_and_replay_are_semantically_equivalent, which runs both in    *)
(* one process).                                                           *)
ReplayEquivalence ==
    (\A m \in Modes : Done(m)) =>
        /\ result["live"].reason = result["replay"].reason
        /\ AcceptedIn("live") =>
              Semantics(FrameIn("live")) = Semantics(FrameIn("replay"))

(* A channel the parser derives from the frequency names that frequency:   *)
(* without a band up to 5895 MHz, apart from the 5 GHz channels numbered   *)
(* below 15, and in its band above.  5960 MHz, which is no centre          *)
(* frequency, is the one exception: it is given channel 2, the channel of  *)
(* 5935 MHz (frequency_to_channel, channel_to_frequency).                  *)
ChannelNamesFrequency ==
    \A m \in Modes : AcceptedIn(m) =>
        LET radio == FrameIn(m).radio
            given == FirstField(<<packet.wlan_radio, packet.radiotap>>, "channel")
            band == CASE radio.frequency \in 5005 .. 5070 -> "5"
                      [] radio.frequency > 5895 -> "6"
                      [] OTHER -> None
        IN  radio.channel # None /\ ParseInt(given) = None /\ radio.frequency # 5960
            => ChannelToFrequency(radio.channel, band) = radio.frequency
=============================================================================
