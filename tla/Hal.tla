-------------------------------- MODULE Hal ---------------------------------
(***************************************************************************)
(* The GPS HAL's entry points and the settings they leave in the engine    *)
(* (loc.cpp; loc_eng_init, loc_eng_reinit, loc_eng_agps_init, the server,  *)
(* network and configuration calls of loc_eng.cpp; the power vote of       *)
(* LocEngAdapter).  The framework's thread makes the calls and sends       *)
(* messages; the message task handles them, and after a crash sends every  *)
(* setting again from what the process remembers.                          *)
(*                                                                         *)
(* `ver' stands for the settings reinit sends alike: SUPL_VER, LPP_PROFILE *)
(* and A_GLONASS_POS_PROTOCOL_SELECT; the sensor settings of sap.conf are  *)
(* read once and never change, so they are one message that arrives or     *)
(* does not.  A handler that reads settings and then sends them is two     *)
(* steps, and so is a configuration update, which writes gps_conf and puts *)
(* most of it back: what one thread does between the two steps of the      *)
(* other is recorded, setting by setting, in `behind' and `misread'.       *)
(***************************************************************************)
EXTENDS Naturals, Sequences

CONSTANTS
  Ver, Host,     \* values of the settings and of the SUPL server
  GnssType,      \* the targets to consider, of getTargetGnssType
  MaxFrameworkCalls,      \* bound on the framework's calls after the first loc_init
  MaxRestarts    \* bound on the engine's crashes

VARIABLES
  conf, tmp,     \* gps_conf, and the copy a running update will put back
  sGnssType,
  adapter,       \* loc_eng_data.adapter exists
  suplHost,      \* supl_host_buf, NoHost while supl_host_set is 0
  agps, nif,     \* agps_status_cb is set, agnss_nif exists
  agpsStatus,
  vote,          \* mPowerVote: the right to vote, and the vote
  queue,         \* the messages for the message task
  resend,        \* what the handler at work has read and not yet sent
  engine,        \* the settings the engine holds
  engineRuns, measures, \* it runs; it supports measurements
  capsTold, ulpTold,  \* capabilities told to the framework and to the ULP
  behind,        \* history: settings whose last value may never be sent, or be
                 \* followed by an older one
  misread,       \* history: messages that saw a configuration being replaced
  server, early, \* history: the server last given, and that it came before loc_init
  callsMade, restarted

settingVars == <<conf, tmp, sGnssType, adapter, suplHost, agps, nif, agpsStatus, vote, queue,
          resend, engine, engineRuns, measures, capsTold, ulpTold, behind, misread,
          server, early, callsMade, restarted>>
halVars  == <<sGnssType, adapter, suplHost, agps, nif, agpsStatus>>
settingTaskVars == <<resend, engineRuns, measures, capsTold, ulpTold, misread, restarted>>
givenVars       == <<server, early>>

NoHost   == "none"

ASSUME HostAssumption == NoHost \notin Host

NoCopy   == [ver |-> "none"]
Nothing  == [kind |-> "none"]
NotTold  == {"untold"}
Assisted == {"MSA", "MSB"}
Changeable  == {"ver", "url", "data", "power"}   \* the settings a call can change
Fresh    == [ver |-> "default", sensors |-> FALSE, url |-> NoHost, data |-> FALSE, power |-> FALSE]

\* The targets whose engine works alone: it has no assisted modes.
Standalone   == {"GNSS_GSS", "GNSS_AUTO", "GNSS_QCA1530"}
Masked(caps) == IF sGnssType \in Standalone THEN caps \ Assisted ELSE caps

\* getCarrierCapabilities: SUPL_MODE takes modes away from CAPABILITIES.
getCarrierCapabilities(c) == c.caps \ (Assisted \ c.mode)

Msg(kind, value) == [kind |-> kind, value |-> value]
Send(ms) == queue' = queue \o ms

\* get_gps_interface has read the configuration once and masked it.
HalInit ==
  /\ sGnssType \in GnssType /\ measures \in BOOLEAN
  /\ conf \in [ver : Ver, mode : {Assisted}, caps : {Masked(Assisted)}]
  /\ tmp = NoCopy /\ adapter = FALSE /\ suplHost = NoHost
  /\ agps = FALSE /\ nif = FALSE /\ agpsStatus = FALSE
  /\ vote = [right |-> FALSE, up |-> FALSE]
  /\ queue = <<>> /\ resend = Nothing
  /\ engine = Fresh /\ engineRuns = TRUE
  /\ capsTold = NotTold /\ ulpTold = NotTold
  /\ behind = {} /\ misread = {} /\ server = NoHost /\ early = FALSE
  /\ callsMade = 0 /\ restarted = 0

-----------------------------------------------------------------------------
(* The framework's calls.                                                   *)

FrameworkCall == tmp = NoCopy /\ callsMade < MaxFrameworkCalls /\ callsMade' = callsMade + 1

\* A handler has read the setting and is about to send it: written now, the
\* new value is sent before the old one.
AboutToSend(k) ==
  /\ resend # Nothing
  /\ IF k = "power" THEN resend.kind = "up"
     ELSE \E i \in DOMAIN resend.msgs : resend.msgs[i].kind = k
Writes(k) == behind' = IF AboutToSend(k) THEN behind \cup {k} ELSE behind \ {k}

\* requestPowerVote: the engine hears a vote only while it runs, and only from
\* a process with the right to vote.
Vote(v) == engine' = IF v.right /\ engineRuns THEN [engine EXCEPT !.power = v.up] ELSE engine

\* The first call builds the adapter and clears everything else, the SUPL
\* host included.
loc_eng_init ==
  IF adapter THEN UNCHANGED <<suplHost, agps, nif, queue>>
  ELSE /\ suplHost' = NoHost /\ agps' = FALSE /\ nif' = FALSE
       /\ Send(<<Msg("init", 0)>>)

\* Every call claims the power vote again.
loc_init ==
  /\ ~vote.up /\ tmp = NoCopy /\ adapter' = TRUE
  /\ loc_eng_init
  /\ vote' = [right |-> sGnssType = "GNSS_QCA1530", up |-> TRUE]
  /\ Vote(vote') /\ Writes("power")
  /\ UNCHANGED <<conf, tmp, sGnssType, agpsStatus, settingTaskVars, givenVars, callsMade>>

loc_cleanup ==
  /\ FrameworkCall /\ vote.up
  /\ vote' = [vote EXCEPT !.up = FALSE] /\ Vote(vote') /\ Writes("power")
  /\ UNCHANGED <<conf, tmp, queue, halVars, settingTaskVars, givenVars>>

\* For the server that came early.
loc_eng_agps_reinit == IF suplHost = NoHost THEN <<>> ELSE <<Msg("url", suplHost)>>

loc_eng_agps_init ==
  /\ FrameworkCall /\ adapter /\ ~agps
  /\ agps' = TRUE /\ nif' = (conf.caps \cap Assisted # {})
  /\ Send(IF nif' THEN loc_eng_agps_reinit ELSE <<>>)
  /\ UNCHANGED <<conf, tmp, sGnssType, adapter, suplHost, agpsStatus, vote, engine, behind, givenVars,
                 settingTaskVars>>

loc_eng_set_server_proxy(h) ==
  /\ FrameworkCall /\ suplHost' = h /\ Writes("url")
  /\ server' = h /\ early' = ~adapter
  /\ Send(IF adapter THEN <<Msg("url", h)>> ELSE <<>>)
  /\ UNCHANGED <<conf, tmp, sGnssType, adapter, agps, nif, agpsStatus, vote, engine, settingTaskVars>>

\* loc_agps_ril_update_network_availability: remembered even before loc_init,
\* and sent then only with the name of an APN.
update_network_availability(on, apn) ==
  /\ FrameworkCall /\ agpsStatus' = on
  /\ IF adapter /\ ~apn THEN behind' = behind \cup {"data"} ELSE Writes("data")
  /\ Send(IF adapter /\ apn THEN <<Msg("data", on)>> ELSE <<>>)
  /\ UNCHANGED <<conf, tmp, sGnssType, adapter, suplHost, agps, nif, vote, engine, givenVars,
                 settingTaskVars>>

\* loc_eng_configuration_update: the new text is read over gps_conf and what
\* changed is sent ...
configuration_update(new) ==
  /\ FrameworkCall /\ conf' = new /\ tmp' = conf
  /\ IF new.ver # conf.ver THEN Writes("ver") ELSE UNCHANGED behind
  /\ Send(IF ~adapter THEN <<>>
          ELSE (IF new.ver # conf.ver THEN <<Msg("ver", new.ver)>> ELSE <<>>)
            \o (IF new.mode # conf.mode THEN <<Msg("mode", 0)>> ELSE <<>>))
  /\ UNCHANGED <<halVars, vote, engine, givenVars, settingTaskVars>>

\* Mutant: the target's mask is not applied to the new capabilities.
RestoreUnmasked ==
  /\ tmp # NoCopy /\ tmp' = NoCopy
  /\ conf' = [tmp EXCEPT !.ver = conf.ver, !.caps = conf.caps]
  /\ UNCHANGED <<halVars, vote, queue, engine, behind, givenVars, callsMade, settingTaskVars>>

\* ... then all but a few settings are put back, and the target's mask applied.
configuration_restore ==
  /\ tmp # NoCopy /\ tmp' = NoCopy
  /\ conf' = [tmp EXCEPT !.ver = conf.ver, !.caps = Masked(@)]
  /\ UNCHANGED <<halVars, vote, queue, engine, behind, givenVars, callsMade, settingTaskVars>>

-----------------------------------------------------------------------------
(* The message task.                                                        *)

\* Mutant: the state of the network is not among what is sent again.
ReinitWithoutData == <<Msg("gnss", 0), Msg("ver", conf.ver), Msg("sensors", TRUE)>>

\* What it sends, with the values it reads.
loc_eng_reinit == <<Msg("gnss", 0), Msg("ver", conf.ver), Msg("sensors", TRUE), Msg("data", agpsStatus)>>

\* LocEngInit and LocEngUp read the settings ...
ReadSettings ==
  /\ resend = Nothing /\ queue # <<>> /\ Head(queue).kind \in {"init", "up"}
  /\ queue' = Tail(queue)
  /\ resend' = [kind |-> Head(queue).kind, vote |-> vote,
                msgs |-> loc_eng_reinit \o (IF Head(queue).kind = "init" THEN <<Msg("caps", 0)>>
                                    ELSE IF agps THEN loc_eng_agps_reinit ELSE <<>>)]
  /\ behind' = behind \ {k \in Changeable : AboutToSend(k)'}
  /\ UNCHANGED <<conf, tmp, halVars, vote, engine, engineRuns, measures, capsTold, ulpTold,
                 misread, givenVars, callsMade, restarted>>

\* ... and send them, a restarted engine being voted for again.
SendSettings ==
  /\ resend # Nothing /\ resend' = Nothing
  /\ Send(resend.msgs)
  /\ IF resend.kind = "up" THEN Vote(resend.vote) ELSE UNCHANGED engine
  /\ UNCHANGED <<conf, tmp, halVars, vote, engineRuns, measures, capsTold, ulpTold,
                 behind, misread, givenVars, callsMade, restarted>>

\* The messages that set one thing in the engine; a dead engine ignores them.
Apply(m) == engine' = IF engineRuns THEN [engine EXCEPT ![m.kind] = m.value] ELSE engine

\* The capabilities gain what a running engine says it supports, ...
LocEngGnssConstellationConfig ==
  /\ conf' = IF measures /\ engineRuns THEN [conf EXCEPT !.caps = @ \cup {"MEASUREMENTS"}] ELSE conf
  /\ misread' = IF capsTold = NotTold /\ (tmp # NoCopy \/ ~engineRuns)
                THEN misread \cup {"gnss"} ELSE misread
  /\ UNCHANGED <<capsTold, ulpTold>>

\* A message reads the capabilities; during an update it reads the new text's.
Reads(kind) == misread' = IF tmp # NoCopy THEN misread \cup {kind} ELSE misread \ {kind}

\* ... are told to the framework, ...
LocEngSetCapabilities == capsTold' = conf.caps /\ Reads("caps") /\ UNCHANGED <<conf, ulpTold>>

\* ... and, with the modes SUPL_MODE leaves, to the ULP.
LocEngSuplMode ==
  ulpTold' = getCarrierCapabilities(conf) /\ Reads("mode") /\ UNCHANGED <<conf, capsTold>>

ProcSetting ==
  /\ resend = Nothing /\ queue # <<>> /\ queue' = Tail(queue)
  /\ LET m == Head(queue) IN
     \/ /\ m.kind \in {"ver", "sensors", "url", "data"} /\ Apply(m)
        /\ UNCHANGED <<conf, capsTold, ulpTold, misread>>
     \/ /\ \/ m.kind = "gnss" /\ LocEngGnssConstellationConfig
           \/ m.kind = "caps" /\ LocEngSetCapabilities
           \/ m.kind = "mode" /\ LocEngSuplMode
        /\ UNCHANGED engine
  /\ UNCHANGED <<tmp, halVars, vote, resend, engineRuns, measures, behind, givenVars, callsMade,
                 restarted>>

-----------------------------------------------------------------------------
(* The engine crashes, losing its settings, and comes back.                 *)

EngineCrash ==
  /\ engineRuns /\ adapter /\ restarted < MaxRestarts
  /\ engineRuns' = FALSE /\ engine' = Fresh
  /\ UNCHANGED <<conf, tmp, halVars, vote, queue, resend, measures, capsTold, ulpTold,
                 behind, misread, givenVars, callsMade, restarted>>

EngineRestart ==
  /\ ~engineRuns /\ engineRuns' = TRUE /\ restarted' = restarted + 1
  /\ Send(<<Msg("up", 0)>>)
  /\ UNCHANGED <<conf, tmp, halVars, vote, resend, engine, measures, capsTold, ulpTold,
                 behind, misread, givenVars, callsMade>>

HalNext ==
  \/ loc_init \/ loc_cleanup \/ loc_eng_agps_init \/ configuration_restore
  \/ \E h \in Host : loc_eng_set_server_proxy(h)
  \/ \E on, apn \in BOOLEAN : update_network_availability(on, apn)
  \/ \E new \in [ver : Ver, mode : {{}, Assisted}, caps : {Assisted}] : configuration_update(new)
  \/ ReadSettings \/ SendSettings \/ ProcSetting
  \/ EngineCrash \/ EngineRestart

HalSpec == HalInit /\ [][HalNext]_settingVars

-----------------------------------------------------------------------------
HalTypeOK ==
  /\ conf.ver \in Ver /\ conf.caps \subseteq Assisted \cup {"MEASUREMENTS"}
  /\ suplHost \in Host \cup {NoHost} /\ (agps => adapter) /\ (nif => agps)
  /\ engine \in [ver : Ver \cup {"default"}, sensors : BOOLEAN, url : Host \cup {NoHost}, data : BOOLEAN, power : BOOLEAN]
  /\ behind \subseteq Changeable /\ misread \subseteq {"gnss", "caps", "mode"}

SettingsAtRest == queue = <<>> /\ resend = Nothing /\ tmp = NoCopy /\ adapter /\ engineRuns

(* With every message handled and the engine running, it holds what the     *)
(* process remembers, setting by setting: the sensor settings always, the   *)
(* configuration, the network's state and the power vote unless they are    *)
(* behind.  So a setting that was lost in a crash, given while the engine   *)
(* was down or, the server apart, before loc_init reaches the engine in the *)
(* end, and one that fell behind does so with the next write or restart.    *)
(* The server last given is the engine's once AGPS is initialised, if it    *)
(* was given after loc_init; one given before is forgotten by loc_eng_init, *)
(* although loc_eng_set_server_proxy buffers it for then.                   *)
SettingsArrive ==
  SettingsAtRest =>
    /\ engine.sensors
    /\ "ver" \notin behind => engine.ver = conf.ver
    /\ "data" \notin behind => engine.data = agpsStatus
    /\ "power" \notin behind /\ vote.right => engine.power = vote.up
    /\ "url" \notin behind /\ agps /\ nif => engine.url = IF early THEN NoHost ELSE server

(* The framework is told the capabilities once, after the engine was asked   *)
(* whether it supports measurements.  It hears of them only if they exist,   *)
(* and always if they do, whatever restarts and updates follow, unless the   *)
(* engine was asked while it was down, or the answer or the telling fell     *)
(* between the two writes of a configuration update.                         *)
MeasurementsTold ==
  capsTold # NotTold =>
    /\ "MEASUREMENTS" \in capsTold => measures
    /\ measures /\ misread \cap {"gnss", "caps"} = {} => "MEASUREMENTS" \in capsTold

(* On a target whose engine works alone nobody is told of assisted modes by  *)
(* a message handled outside a configuration update, whatever updates asked  *)
(* for before.                                                               *)
StandaloneTarget ==
  sGnssType \in Standalone =>
    /\ "caps" \notin misread => Assisted \cap capsTold = {}
    /\ "mode" \notin misread => Assisted \cap ulpTold = {}

\* Both: the framework is told what the target and its engine can do.
CapabilitiesTold == MeasurementsTold /\ StandaloneTarget
=============================================================================
