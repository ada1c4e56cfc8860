------------------------------ MODULE Channels ------------------------------
(***************************************************************************)
(* The channel arithmetic of wids/capture/channel_manager.py.              *)
(***************************************************************************)
EXTENDS Integers

CONSTANT None   \* Python's None, and the result of a call that raises

ASSUME NoneAssumption == None \notin {"2.4", "5", "6"}

-----------------------------------------------------------------------------
ValidChannel(c) == c \in 1 .. 233

(* Where channels are five MHz apart: channel = (frequency - base) / 5.    *)
Rasters ==
    {[first |-> 2412, last |-> 2472, base |-> 2407],
     [first |-> 4910, last |-> 4980, base |-> 4000],
     [first |-> 5005, last |-> 5895, base |-> 5000],
     [first |-> 5955, last |-> 7115, base |-> 5950]}

On(raster, f) == f \in raster.first .. raster.last /\ (f - raster.base) % 5 = 0

(* Deviation: counts from the first frequency of a raster.                 *)
FrequencyToChannelFromFirst(f) ==
    CASE f = 2484 -> 14
      [] f = 5935 -> 2
      [] \E r \in Rasters : On(r, f) ->
            (f - (CHOOSE r \in Rasters : On(r, f)).first) \div 5
      [] OTHER -> None

FrequencyToChannel(f) ==
    CASE f = 2484 -> 14
      [] f = 5935 -> 2
      [] \E r \in Rasters : On(r, f) ->
            (f - (CHOOSE r \in Rasters : On(r, f)).base) \div 5
      [] OTHER -> None

(* Without a band, 2.4 GHz for channels 1 to 14 and 5 GHz above.           *)
DefaultBand(c) == IF c <= 14 THEN "2.4" ELSE "5"

ChannelToFrequency(c, given) ==
    LET band == IF given = None THEN DefaultBand(c) ELSE given
    IN  CASE band = "2.4" /\ c = 14 -> 2484
          [] band = "2.4" /\ c \in 1 .. 13 -> 2407 + 5 * c
          [] band = "5" /\ c \in 182 .. 196 -> 4000 + 5 * c
          [] band = "5" /\ c \in 1 .. 179 -> 5000 + 5 * c
          [] band = "6" /\ c = 2 -> 5935
          [] band = "6" /\ ValidChannel(c) /\ c # 2 -> 5950 + 5 * c
          [] OTHER -> None
=============================================================================
