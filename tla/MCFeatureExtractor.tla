------------------------- MODULE MCFeatureExtractor -------------------------
(* Two windows, one identity whose frames differ in their BSSID, and a     *)
(* frame without sequence control.                                         *)
EXTENDS FeatureExtractor, TLC

CONSTANTS twin, beaconA, beaconB, probe

MCContents == {beaconA, beaconB, probe}
MCCounterKeys == {"beacon", "probe", "bssidA", "bssidB"}
MCSubtypes == {"beacon", "probe"}
MCCountedUnder ==
    beaconA :> {"beacon", "bssidA"} @@ beaconB :> {"beacon", "bssidB"}
        @@ probe :> {"probe"}
MCTransmitters == {"ap", "station"}
MCTransmitterOf == beaconA :> "ap" @@ beaconB :> "ap" @@ probe :> "station"
MCFrames ==
    {[identity |-> twin, content |-> beaconA, retry |-> FALSE],
     [identity |-> twin, content |-> beaconA, retry |-> TRUE],
     [identity |-> twin, content |-> beaconB, retry |-> FALSE],
     [identity |-> NoIdentity, content |-> probe, retry |-> FALSE]}
MCWindows == {1, 3}
=============================================================================
