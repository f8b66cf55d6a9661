---------------------------- MODULE PartsProofs ----------------------------
(***************************************************************************)
(* The parts run side by side: a behaviour of the run on MCParts is a      *)
(* behaviour of every part, of which all but one never leave their initial *)
(* state, so what is proved of each part holds of them together.           *)
(***************************************************************************)
EXTENDS MCParts, ServicesProofs, DeviceProofs

\* The step of a part is a step of it and leaves the others as they are.
LEMMA ServicesMove ==
  ASSUME [MCNext]_<<part, services, platform_parts>>
  PROVE  /\ [Next]_vars /\ [ApiNext]_apiVars /\ [HalNext]_settingVars /\ [UlpNext]_ulpVars
         /\ [ServerNext]_serverVars /\ [NmeaNext]_nmeaVars /\ [DsNext]_dsVars
<1>1. CASE UNCHANGED services
  BY <1>1 DEF services
<1>2. CASE Services
  BY <1>2 DEF Services
<1> QED BY <1>1, <1>2 DEF MCNext

LEMMA PlatformMoves ==
  ASSUME [MCNext]_<<part, services, platform_parts>>
  PROVE  /\ [StructuresNext]_<<listVars, heapVars>> /\ [CfgNext]_cfgVars
         /\ [LightsNext]_lightVars /\ [CameraNext]_camVars /\ [DtbNext]_dtbVars
<1>1. CASE UNCHANGED platform_parts
  BY <1>1 DEF platform_parts
<1>2. CASE PhoneParts
  BY <1>2 DEF PhoneParts, StructuresNext
<1> QED BY <1>1, <1>2 DEF MCNext

\* The services.
LEMMA ServicesBehave ==
  MCSpec => /\ Spec /\ ApiSpec /\ HalSpec /\ UlpSpec
            /\ ServerSpec /\ NmeaSpec /\ DsSpec
<1>1. MCInit => /\ Init /\ ApiInit /\ HalInit /\ UlpInit
                /\ ServerInit /\ NmeaInit /\ DsInit
  BY DEF MCInit
<1> QED BY <1>1, ServicesMove, PTL
        DEF MCSpec, Spec, ApiSpec, HalSpec, UlpSpec, ServerSpec, NmeaSpec, DsSpec

\* The structures and the parts of the platform.
LEMMA PlatformBehaves ==
  MCSpec => StructuresSpec /\ CfgSpec /\ LightsSpec /\ CameraSpec /\ DtbSpec
<1>1. MCInit => StructuresInit /\ CfgInit /\ LightsInit /\ CameraInit /\ DtbInit
  BY DEF MCInit, StructuresInit
<1> QED BY <1>1, PlatformMoves, PTL
        DEF MCSpec, StructuresSpec, CfgSpec, LightsSpec, CameraSpec, DtbSpec

-----------------------------------------------------------------------------
\* Whatever part moves, the state of every part is well typed: of all but two
\* without more, of the contexts if "no thread" is not the name of a thread, and
\* of the lights if a light that flashes is lit.
THEOREM PartsTyped ==
  ASSUME Nobody \notin Caller, ColoursFlash
  PROVE  MCSpec => []PartsTypeOK
<1>1. Spec => []TypeOK
  BY TypeCorrect
<1> QED BY <1>1, ServicesBehave, PlatformBehaves, ApiTypes, HalTypes, UlpTypes, ServerTypes,
           SentencesAreWhole, DsTypes, StructuresSafe, ConfIsRead, LightsTypes, CameraSafe,
           DtbTableIsRight, PTL DEF PartsTypeOK

\* Nor does any part break a promise of another: under the same two conditions
\* every invariant of the parts that is checked on a few values holds in every
\* state of the parts side by side.
THEOREM PartsSound ==
  ASSUME Nobody \notin Caller, ColoursFlash
  PROVE  MCSpec => /\ [](EventsCovered /\ AdaptersServed)
                   /\ [](SettingsArrive /\ CapabilitiesTold /\ UlpInStep)
                   /\ [](ContextsShared /\ DaemonsServed /\ SentencesWhole)
                   /\ [](RetriesBounded /\ CallTracked /\ FallbackHasHandle)
                   /\ [](StructuresKept /\ ConfRead /\ LedShows /\ CamerasSafe /\ DtbTable)
<1>1. MCSpec => /\ [](EventsCovered /\ AdaptersServed)
                /\ [](SettingsArrive /\ CapabilitiesTold /\ UlpInStep)
  BY ServicesBehave, NoneDeaf, NoneMissed, SettingsReach, CapabilitiesRight, UlpKeepsStep, PTL
<1>2. MCSpec => /\ [](ContextsShared /\ DaemonsServed /\ SentencesWhole)
                /\ [](RetriesBounded /\ CallTracked /\ FallbackHasHandle)
  BY ServicesBehave, SharedSafe, DaemonsAreServed, SentencesAreWhole, RetriesStayBounded,
     CallStaysTracked, FallbacksHaveHandles, PTL
<1>3. MCSpec => [](StructuresKept /\ ConfRead /\ LedShows /\ CamerasSafe /\ DtbTable)
  BY PlatformBehaves, StructuresSafe, ConfIsRead, LightsSafe, CameraSafe, DtbTableIsRight, PTL
<1> QED BY <1>1, <1>2, <1>3
=============================================================================
