--------------------------- MODULE MCPacketParser ---------------------------
(***************************************************************************)
(* The packets of the fakes in tests/unit/capture/fakes.py, with one       *)
(* field, or two of a layer, given another value or taken away, and a      *)
(* beacon on every frequency near the ends of the rasters.                 *)
(***************************************************************************)
EXTENDS PacketParser

Text(mac) == [mac |-> mac, notation |-> "dotted"]
Bytes(id, length) == [id |-> id, length |-> length, utf8 |-> TRUE]
Named(token) == [token |-> token, number |-> None]
Numbered(n) == [token |-> "number", number |-> n]

Wlan(code) ==
    [fc_type |-> 0, fc_subtype |-> code, ra |-> Text("station"), ta |-> Text("ap"),
     da |-> Text("station"), sa |-> Text("ap"), bssid |-> Text("ap"),
     seq |-> 931, frag |-> 0, retry |-> FALSE]

RsnFields ==
    [rsn_version |-> 1, rsn_group |-> <<Numbered(4)>>,
     rsn_pairwise |-> <<Numbered(4), Numbered(2)>>, rsn_akm |-> <<Numbered(2)>>,
     pmf_capable |-> TRUE, pmf_required |-> FALSE]

Base(code, fields) ==
    [self |-> [sniff_time |-> [datetime |-> TRUE, day |-> 20000],
               raw_packet |-> [id |-> "frame", length |-> 100, header |-> 36]],
     frame_info |-> [len |-> 100, cap_len |-> 100],
     radiotap |-> [frequency |-> 2437, signal |-> -47, noise |-> -92, rate |-> 1,
                   antenna |-> 0],
     wlan_radio |-> None,
     wlan |-> Wlan(code),
     wlan_mgt |-> fields]

Beacon ==
    Base(8, [ssid_raw |-> Bytes("lab", 8), advertised_channel |-> 6,
             beacon_interval |-> 100, privacy |-> TRUE] @@ RsnFields)
Bases ==
    {Beacon,
     [Beacon EXCEPT !.wlan = @ @@ Beacon.wlan_mgt, !.wlan_mgt = None],
     Base(5, [ssid_raw |-> Bytes("lab", 8)]),
     Base(4, [ssid_raw |-> Bytes("none", 0)]),
     Base(11, [auth_algorithm |-> 0, auth_sequence |-> 1]),
     Base(12, [reason |-> 7])}

(* <<layer, field, value>>; the value Missing takes the field away.        *)
SelfDeviations ==
    {"self"} \X
        ( {"sniff_time"} \X {Missing, [datetime |-> FALSE, day |-> Garbled],
                             [datetime |-> FALSE, day |-> 20000]}
          \cup {"sniff_timestamp"} \X {20000, 3000000, Garbled}
          \cup {"raw_packet"} \X {Missing, [id |-> "frame", length |-> 30, header |-> 36]}
          \cup {"wlan_raw"} \X {[id |-> "own", length |-> 64]}
          \cup {"truncated"} \X {TRUE, Garbled} )
WlanDeviations ==
    {"wlan"} \X
        ( {"fc_type"} \X {Garbled, 2}
          \cup {"fc_subtype"} \X {Missing, 5, 13, 16}
          \cup {"ra", "ta", "sa"} \X {Missing, Text(None)}
          \cup {"da", "bssid"} \X {Missing, Text(None)}
          \cup {"addr1"} \X {Text("other"), Text(None)}
          \cup {"addr2", "addr3"} \X {Text("other")}
          \cup {"seq"} \X {Missing, 4095, 4096}
          \cup {"frag"} \X {Missing, 16}
          \cup {"retry"} \X {TRUE, Garbled}
          \cup {"bad_fcs"} \X {TRUE}
          \cup {"fcs_status"} \X {{"good"}, {"invalid", "valid"}, {"not", "present"}}
          \cup {"ssid"} \X {Bytes("lab", 8)}
          \cup {"privacy"} \X {FALSE}
          \cup {"rsn_version", "wpa_version"} \X {1} )
ManagementDeviations ==
    {"wlan_mgt"} \X
        ( {"ssid_raw"} \X {Missing, Bytes("none", 0), Bytes("lab", 32), Bytes("lab", 33),
                           [id |-> "lab", length |-> 8, utf8 |-> FALSE]}
          \cup {"advertised_channel"} \X {Missing, 11, 0, 234}
          \cup {"beacon_interval", "auth_algorithm", "reason"} \X {Missing, -1}
          \cup {"privacy"} \X {Missing, FALSE}
          \cup {"malformed_rsn"} \X {TRUE}
          \cup {"security_protocols"} \X {<<"wpa3", "wpa2", "wpa">>}
          \cup {"security_classification"} \X {"mixed", "personal"}
          \cup {"rsn_version", "rsn_pairwise", "rsn_group"} \X {Missing}
          \cup {"rsn_akm"} \X {Missing, <<Named("sae"), Numbered(2)>>, <<Numbered(99)>>}
          \cup {"wpa_akm"} \X {<<Named("psk")>>}
          \cup {"stable_information_elements"} \X {Bytes("stable", 11)} )
RadioDeviations ==
    {"radiotap"} \X
        ( {"frequency"} \X {Missing, 0, 2484, 5960}
          \cup {"channel"} \X {0, 11, 234}
          \cup {"signal"} \X {-128, 1}
          \cup {"rate", "antenna"} \X {-1, Garbled}
          \cup {"fcs_status"} \X {{"good"}, {"bad"}} )
InfoDeviations ==
    {"frame_info"} \X
        ( {"len"} \X {Missing, -1, 60} \cup {"cap_len"} \X {Missing, 0, 23, 24} )
Deviations ==
    {SelfDeviations, WlanDeviations, ManagementDeviations, RadioDeviations,
     InfoDeviations}

With(layer, field, value) ==
    IF layer = None THEN None
    ELSE IF value = Missing THEN [f \in DOMAIN layer \ {field} |-> layer[f]]
    ELSE (field :> value) @@ layer

Deviated(p, d) == [p EXCEPT ![d[1]] = With(@, d[2][1], d[2][2])]

Lacking(p) ==
    {[p EXCEPT ![l] = None] : l \in {"wlan", "wlan_mgt", "radiotap", "frame_info"}}
    \cup {[p EXCEPT !.wlan_radio = [channel |-> 6, signal |-> -50]]}

Once(p) == {Deviated(p, d) : d \in UNION Deviations}
Twice(p) == UNION {{Deviated(Deviated(p, d), e) : d, e \in layer} : layer \in Deviations}

(* Around both ends of every raster.                                       *)
Frequencies == 2400 .. 2490 \cup 4900 .. 5100 \cup 5880 .. 6000 \cup 7080 .. 7130

MCPackets ==
    Bases \cup UNION {Once(b) \cup Twice(b) \cup Lacking(b) : b \in Bases}
    \cup {Deviated(Deviated(Beacon, <<"radiotap", <<"frequency", f>> >>),
                   <<"wlan_mgt", <<"advertised_channel", Missing>> >>) : f \in Frequencies}

MCOrders ==
    {[S \in SUBSET Protocols |-> SelectSeq(all, LAMBDA p : p \in S)] :
        all \in {<<"wpa", "wpa2", "wpa3">>, <<"wpa3", "wpa2", "wpa">>}}
=============================================================================
