----------------------------- MODULE MCParts -------------------------------
(***************************************************************************)
(* The services around the engine (LocApi with its adapters, the HAL's     *)
(* settings, the ULP proxy, the contexts, the daemon connection, the NMEA  *)
(* sentences, the emergency data call), the structures under them (list,   *)
(* heap, configuration reader) and the platform's own parts (lights,       *)
(* camera, device trees).                                                  *)
(* They share no state that is modelled, so each behaviour is one of one   *)
(* part, chosen at the start, and the variables of the others rest.        *)
(***************************************************************************)
EXTENDS LocContext, DmnConn, DsNif, LocApi, Hal, Ulp, Lights, CameraWrapper, LocCfg,
        Structures, Nmea, Dtbtool

VARIABLE part

\* Reports with every mixture of two satellites, and with 4, 5 and 9 in turn.
SvLists == UNION {[1..n -> {"GPS", "GLONASS", "other"}] : n \in 0..2}
           \cup {[i \in 1..n |-> IF i % 3 = 0 THEN s ELSE "GPS"] : n \in {4, 5, 9},
                                                                   s \in {"GPS", "GLONASS"}}
SvMasks == {{}, 1..3, {2, 5, 7, 9}, 1..14}

\* Ranks of which some are equal.
Ranks == [i \in Item |-> i \div 2]

\* Two parameters and a string, given in decimal, in hex, as NULL, or not at all.
Param(n, t, flag) == [param_name |-> n, param_type |-> t, flag |-> flag]
Conf     == <<Param("GPS_LOCK", "n", FALSE), Param("SUPL_HOST", "s", FALSE), Param("DRIFT", "f", TRUE)>>
LogConf  == <<Param("DEBUG_LEVEL", "n", FALSE)>>
Dec == {[text |-> "5", hex |-> FALSE, number |-> 5]}
Hex == {[text |-> "0x10", hex |-> TRUE, number |-> 16]}
Null == {[text |-> "NULL", hex |-> FALSE, number |-> 0]}
Given(n, v) == [param_name |-> n, value |-> v]
Lines == {Given("GPS_LOCK", Dec), Given("GPS_LOCK", Hex), Given("GPS_LOCK", {}),
          Given("SUPL_HOST", Null), Given("DRIFT", Hex), Given("DEBUG_LEVEL", Dec)}

\* A light that is off, steady, flashing with periods the chip can just hold, and
\* with others that are too short for it (a division by 0) or for its table;
\* pulsing once and for ever.
Light(c, a, m, on, off) ==
  [color |-> c, alpha |-> a, flashMode |-> m, flashOnMS |-> on, flashOffMS |-> off]
Green == <<0, 255, 0>>
LightStates == {Light(<<0, 0, 0>>, 0, "NONE", 0, 0), Light(Green, 0, "NONE", 0, 0),
                Light(<<255, 0, 0>>, 128, "TIMED", 248, 1), Light(Green, 0, "TIMED", 10, 20),
                Light(Green, 64, "TIMED", 148, 1),
                Light(Green, 0, "HARDWARE", 10, 0)}

\* A picture, one with a long exposure, a recording in 4k and one in HD.
Params(h, s, e, f, v) ==
  [hint |-> h, shutter |-> s, exposure |-> e, flash |-> f, video |-> v,
   preview |-> "none", format |-> "none", app |-> FALSE]
Settings == {Params(FALSE, "none", "none", "auto", "none"), Params(FALSE, "1000", "0", "auto", "none"),
             Params(TRUE, "1000", "1000", "auto", "4096x2160"), Params(TRUE, "0", "0", "on", "1280x720")}

Texts == {"none", "0", "1000", "auto", "on", "off", "4096x2160", "1280x720", "nv12-venus"}

\* Trees of both versions whose boards overlap, and one without a board.
Trees == {[msm |-> <<>>, board |-> <<>>],
          [msm |-> <<<<1, 8, 1>>, <<1, 8, 0>>>>, board |-> <<>>],
          [msm |-> <<<<2, 1>>>>, board |-> <<<<8, 1>>, <<8, 0>>>>],
          [msm |-> <<<<1, 1>>, <<1, 0>>, <<1, 1>>>>, board |-> <<<<7, 0>>, <<8, 0>>>>]}

services == <<vars, apiVars, settingVars, ulpVars, serverVars, nmeaVars, dsVars>>
platform_parts == <<listVars, heapVars, cfgVars, lightVars, camVars, dtbVars>>

Parts == {"LocApi", "Hal", "Ulp", "LocContext", "DmnConn", "Nmea", "DsNif",
          "LinkedList", "LocHeap", "LocCfg", "Lights", "CameraWrapper", "Dtbtool"}

\* A part that does not move starts in one of its initial states.
Resting ==
  /\ IF part = "Hal" THEN TRUE ELSE sGnssType = "GNSS_MSM" /\ measures = TRUE
                                      /\ conf = [ver |-> "v1", mode |-> Assisted, caps |-> Masked(Assisted)]
  /\ IF part = "LocContext" THEN TRUE
     ELSE platform = [mpq |-> FALSE, lbs |-> FALSE, v02 |-> "works", rpc |-> "absent"]
  /\ IF part = "DmnConn" THEN TRUE ELSE creator = [by |-> "pthread_create", works |-> TRUE]
  /\ IF part = "Nmea" THEN TRUE ELSE inSession = "none"
  /\ IF part = "Lights" THEN TRUE ELSE device = "find7"
  /\ IF part = "Dtbtool" THEN TRUE
     ELSE dir = [f \in FileName |-> [tree |-> CHOOSE t \in Trees : TRUE, size |-> 32]]

MCInit == /\ part \in Parts /\ Resting
          /\ Init /\ ApiInit /\ HalInit /\ UlpInit /\ ServerInit /\ NmeaInit
          /\ ListInit /\ HeapInit /\ CfgInit /\ LightsInit /\ CameraInit /\ DtbInit /\ DsInit

Services ==
  \/ part = "LocContext" /\ Next /\ UNCHANGED <<apiVars, settingVars, ulpVars, serverVars, nmeaVars, dsVars>>
  \/ part = "LocApi" /\ ApiNext /\ UNCHANGED <<vars, settingVars, ulpVars, serverVars, nmeaVars, dsVars>>
  \/ part = "Hal" /\ HalNext /\ UNCHANGED <<vars, apiVars, ulpVars, serverVars, nmeaVars, dsVars>>
  \/ part = "Ulp" /\ UlpNext /\ UNCHANGED <<vars, apiVars, settingVars, serverVars, nmeaVars, dsVars>>
  \/ part = "DmnConn" /\ ServerNext /\ UNCHANGED <<vars, apiVars, settingVars, ulpVars, nmeaVars, dsVars>>
  \/ part = "Nmea" /\ NmeaNext /\ UNCHANGED <<vars, apiVars, settingVars, ulpVars, serverVars, dsVars>>
  \/ part = "DsNif" /\ DsNext /\ UNCHANGED <<vars, apiVars, settingVars, ulpVars, serverVars, nmeaVars>>

PhoneParts ==
  \/ part = "LinkedList" /\ ListNext /\ UNCHANGED <<heapVars, cfgVars, lightVars, camVars, dtbVars>>
  \/ part = "LocHeap" /\ HeapNext /\ UNCHANGED <<listVars, cfgVars, lightVars, camVars, dtbVars>>
  \/ part = "LocCfg" /\ CfgNext /\ UNCHANGED <<listVars, heapVars, lightVars, camVars, dtbVars>>
  \/ part = "Lights" /\ LightsNext /\ UNCHANGED <<listVars, heapVars, cfgVars, camVars, dtbVars>>
  \/ part = "CameraWrapper" /\ CameraNext /\ UNCHANGED <<listVars, heapVars, cfgVars, lightVars, dtbVars>>
  \/ part = "Dtbtool" /\ DtbNext /\ UNCHANGED <<listVars, heapVars, cfgVars, lightVars, camVars>>

MCNext == /\ UNCHANGED part
          /\ \/ Services /\ UNCHANGED platform_parts
             \/ PhoneParts /\ UNCHANGED services

MCSpec == MCInit /\ [][MCNext]_<<part, services, platform_parts>>

-----------------------------------------------------------------------------
\* The type invariants of the parts.
PartsTypeOK ==
  /\ TypeOK /\ ApiTypeOK /\ HalTypeOK /\ UlpTypeOK /\ ServerTypeOK /\ NmeaTypeOK /\ DsTypeOK
  /\ ListTypeOK /\ HeapTypeOK /\ CfgTypeOK /\ LightsTypeOK
  /\ CameraTypeOK /\ DtbTypeOK
=============================================================================
