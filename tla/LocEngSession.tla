---------------------------- MODULE LocEngSession ----------------------------
(***************************************************************************)
(* The positioning session of the engine: the flag mNavigating of the      *)
(* LocEngAdapter, the fix criteria, the muting of one session and the      *)
(* engine status, all changed by messages handled one at a time on the     *)
(* MsgTask.  The framework starts and stops sessions, the modem runs them, *)
(* reports fixes and statuses, and may restart in between.                 *)
(***************************************************************************)
EXTENDS Naturals, Sequences

CONSTANTS MaxCalls,     \* calls of the framework
          MaxFixes,     \* fixes the modem reports
          MaxCrashes    \* restarts of the modem

ASSUME BoundsAssumption == {MaxCalls, MaxFixes, MaxCrashes} \subseteq Nat

VARIABLES queue,               \* of the MsgTask
          mNavigating, mFixCriteria,
          mute_session_state, engine_status,
          aiding_data_for_deletion    \* whether a deletion is pending

\* The world around: the modem's session and connection, its reports on
\* their way; what the framework asked for; bounds; how the last start ended.
VARIABLES session, link, reports, wanted, calls, fixes, crashes, outcome

adapter == <<mNavigating, mFixCriteria>>
engine  == <<mute_session_state, engine_status, aiding_data_for_deletion>>
modem   == <<session, link, reports>>
bounds  == <<calls, fixes, crashes>>
vars == <<queue, adapter, engine, modem, wanted, bounds, outcome>>

Recurrence == {"SINGLE", "PERIODIC"}
FixStatus  == {"SUCCESS", "INTERMEDIATE", "FAILURE"}
Status == {"SESSION_BEGIN", "SESSION_END", "ENGINE_ON", "ENGINE_OFF"}

Msg(type) == [type |-> type]
Mode(r)   == [type |-> "PositionMode", recurrence |-> r]
Fix(s)    == [type |-> "Position", status |-> s]
Report(s) == [type |-> "Status", status |-> s]

Message ==
  {Msg(t) : t \in {"StartFix", "StopFix", "DelAidData", "RequestNi",
                   "Down", "Ssr", "Up"}}
    \cup {Mode(r) : r \in Recurrence}
    \cup {Fix(s) : s \in FixStatus} \cup {Report(s) : s \in Status}

Init ==
  /\ queue = <<>>
  /\ mNavigating = FALSE
  /\ mFixCriteria = [mode |-> "INVALID", recurrence |-> "PERIODIC"]
  /\ mute_session_state = "NONE" /\ engine_status = "NONE"
  /\ aiding_data_for_deletion = FALSE
  /\ session = "none" /\ link = "up" /\ reports = <<>>
  /\ wanted = FALSE /\ calls = 0 /\ fixes = 0 /\ crashes = 0
  /\ outcome = "none"

-----------------------------------------------------------------------------
(* The framework.  set_position_mode comes before each start.              *)

Call(msgs) ==
  /\ calls < MaxCalls /\ calls' = calls + 1
  /\ queue' = queue \o msgs
  /\ UNCHANGED <<adapter, engine, modem, fixes, crashes, outcome>>

loc_eng_start ==
  \E r \in Recurrence :
    /\ ~wanted /\ wanted' = TRUE
    /\ Call(<<Mode(r), Msg("StartFix")>>)

loc_eng_stop == wanted /\ wanted' = FALSE /\ Call(<<Msg("StopFix")>>)

\* The fix interval is changed in the middle of a session.
loc_eng_set_position_mode ==
  \E r \in Recurrence : wanted /\ Call(<<Mode(r)>>) /\ UNCHANGED wanted

loc_eng_delete_aiding_data == Call(<<Msg("DelAidData")>>) /\ UNCHANGED wanted

\* A network-initiated request with privacy override.
NiRequested == Call(<<Msg("RequestNi")>>) /\ UNCHANGED wanted

Framework ==
  \/ loc_eng_start \/ loc_eng_stop \/ loc_eng_set_position_mode
  \/ loc_eng_delete_aiding_data \/ NiRequested

-----------------------------------------------------------------------------
(* The modem.                                                              *)

Begins == {<<Report("ENGINE_ON"), Report("SESSION_BEGIN")>>,
           <<Report("SESSION_BEGIN"), Report("ENGINE_ON")>>}
Ends   == <<Report("SESSION_END"), Report("ENGINE_OFF")>>

\* startFix returned SUCCESS.
SessionBegins ==
  /\ link = "up" /\ session' = mFixCriteria.recurrence
  /\ \E b \in Begins : reports' = reports \o b
  /\ UNCHANGED link

\* stopFix; it fails while the modem is away.
SessionEnds ==
  IF session = "none" THEN UNCHANGED modem
  ELSE session' = "none" /\ reports' = reports \o Ends /\ UNCHANGED link

\* A final or failed fix ends a single session.
ModemFix ==
  /\ session # "none" /\ fixes < MaxFixes /\ fixes' = fixes + 1
  /\ \E s \in FixStatus :
       IF session = "SINGLE" /\ s # "INTERMEDIATE"
         THEN session' = "none" /\ reports' = reports \o (<<Fix(s)>> \o Ends)
         ELSE UNCHANGED session /\ reports' = Append(reports, Fix(s))
  /\ UNCHANGED <<queue, adapter, engine, link, wanted, calls, crashes, outcome>>

\* The session is lost; reports under way arrive or are lost with it.
ModemCrashes ==
  /\ link # "down" /\ crashes < MaxCrashes /\ crashes' = crashes + 1
  /\ link' = "down" /\ session' = "none"
  /\ \E late \in {reports, <<>>} : reports' = Append(late, Msg("Down"))
  /\ UNCHANGED <<queue, adapter, engine, wanted, calls, fixes, outcome>>

\* The connection is stale until LocSsrMsg opens it again.
ModemRestarts ==
  /\ link = "down" /\ link' = "stale"
  /\ reports' = reports \o <<Msg("Ssr"), Msg("Up")>>
  /\ UNCHANGED <<queue, adapter, engine, session, wanted, bounds, outcome>>

\* A report of the modem becomes a message.
ModemReports ==
  /\ reports # <<>> /\ reports' = Tail(reports)
  /\ queue' = Append(queue, Head(reports))
  /\ UNCHANGED <<adapter, engine, session, link, wanted, bounds, outcome>>

-----------------------------------------------------------------------------
(* The handlers.  setInSession(false) also forgets the mode.               *)

\* Mutant: the criteria are cleared altogether.
setInSessionClearsAll(inSession) ==
  /\ mNavigating' = inSession
  /\ mFixCriteria' = IF inSession THEN mFixCriteria
                     ELSE [mode |-> "INVALID", recurrence |-> "NONE"]

setInSession(inSession) ==
  /\ mNavigating' = inSession
  /\ mFixCriteria' = IF inSession THEN mFixCriteria
                     ELSE [mFixCriteria EXCEPT !.mode = "INVALID"]

\* The errors after which the engine is to come back to the session later.
Started(modemStarts) ==
  /\ setInSession(TRUE)
  /\ IF modemStarts THEN SessionBegins ELSE UNCHANGED modem
  /\ outcome' = IF modemStarts \/ link # "up" THEN "none" ELSE "failed"
Refused == outcome' = "failed" /\ UNCHANGED <<adapter, modem>>

\* The modem restarts a session it is already running without an error.
loc_eng_start_handler ==
  /\ IF mNavigating THEN UNCHANGED <<adapter, modem, outcome>>
     ELSE \/ link = "up" /\ Started(TRUE)
          \/ session = "none" /\ (Started(FALSE) \/ Refused)
  /\ UNCHANGED engine

\* Mutant: the modem is not told.
StopFlagOnly ==
  /\ IF mNavigating THEN setInSession(FALSE) ELSE UNCHANGED adapter
  /\ UNCHANGED <<modem, engine, outcome>>

loc_eng_stop_handler ==
  /\ IF mNavigating THEN SessionEnds /\ setInSession(FALSE)
     ELSE UNCHANGED <<adapter, modem>>
  /\ UNCHANGED <<engine, outcome>>

\* A session the adapter is in takes its new criteria over.
PositionMode(r) ==
  /\ mFixCriteria' = [mode |-> "SET", recurrence |-> r]
  /\ session' = IF mNavigating /\ session # "none" THEN r ELSE session
  /\ UNCHANGED <<mNavigating, engine, link, reports, outcome>>

\* Whether a fix other than a failure is good enough is the fix's matter.
ReportPosition(status) ==
  /\ \E reported \in IF mute_session_state = "IN_SESSION" THEN {FALSE}
                     ELSE IF status = "FAILURE" THEN {TRUE} ELSE BOOLEAN :
       IF reported /\ mFixCriteria.recurrence = "SINGLE"
         THEN /\ setInSession(FALSE)
              /\ IF status = "INTERMEDIATE" THEN SessionEnds ELSE UNCHANGED modem
              /\ outcome' = "served"
         ELSE UNCHANGED <<adapter, modem, outcome>>
  /\ UNCHANGED engine

update_aiding_data_for_deletion(pending, status) ==
  aiding_data_for_deletion' = (pending /\ status = "ENGINE_ON")

\* Mutant: only the end of a session ends its muting.
MutedToSessionEnd(status) ==
  IF mute_session_state = "WAIT" /\ status \in {"SESSION_BEGIN", "ENGINE_ON"}
    THEN "IN_SESSION"
  ELSE IF mute_session_state = "IN_SESSION" /\ status = "SESSION_END"
    THEN "NONE" ELSE mute_session_state

Muted(status) ==
  CASE /\ mute_session_state = "WAIT"
       /\ status \in {"SESSION_BEGIN", "ENGINE_ON"}  -> "IN_SESSION"
    [] /\ mute_session_state = "IN_SESSION"
       /\ status \in {"SESSION_END", "ENGINE_OFF"}   -> "NONE"
    [] OTHER -> mute_session_state

loc_eng_report_status(status) ==
  /\ mute_session_state' = Muted(status)
  /\ engine_status' =
       IF status \in {"ENGINE_ON", "ENGINE_OFF"} THEN status ELSE engine_status

ReportStatus(status) ==
  /\ loc_eng_report_status(status)
  /\ update_aiding_data_for_deletion(aiding_data_for_deletion, engine_status')
  /\ UNCHANGED <<adapter, modem, outcome>>

DelAidData ==
  /\ update_aiding_data_for_deletion(TRUE, engine_status)
  /\ UNCHANGED <<mute_session_state, engine_status, adapter, modem, outcome>>

loc_eng_mute_one_session ==
  /\ mute_session_state' = "WAIT"
  /\ UNCHANGED <<engine_status, aiding_data_for_deletion, adapter, modem, outcome>>

\* Mutant: nobody is told that the engine is gone.
DownSilent == UNCHANGED <<engine, adapter, modem, outcome>>

loc_eng_handle_engine_down ==
  /\ loc_eng_report_status("ENGINE_OFF")
  /\ UNCHANGED <<aiding_data_for_deletion, adapter, modem, outcome>>

\* Closes the connection, with a session that still uses it, and reopens it.
LocSsrMsg ==
  /\ session' = "none"
  /\ reports' = IF session = "none" THEN reports ELSE reports \o Ends
  /\ link' = IF link = "down" THEN "down" ELSE "up"
  /\ UNCHANGED <<adapter, engine, outcome>>

\* What loc_eng_handle_engine_up sends itself.
Restart == IF mNavigating THEN <<Msg("StartFix")>> ELSE <<>>

\* Mutant: StartFix finds the adapter still in its session.
UpStaysInSession == UNCHANGED <<adapter, engine, modem, outcome>>

loc_eng_handle_engine_up ==
  /\ IF mNavigating THEN setInSession(FALSE) ELSE UNCHANGED adapter
  /\ UNCHANGED <<engine, modem, outcome>>

Proc(m) ==
  \/ m.type = "StartFix" /\ loc_eng_start_handler
  \/ m.type = "StopFix" /\ loc_eng_stop_handler
  \/ m.type = "PositionMode" /\ PositionMode(m.recurrence)
  \/ m.type = "Position" /\ ReportPosition(m.status)
  \/ m.type = "Status" /\ ReportStatus(m.status)
  \/ m.type = "DelAidData" /\ DelAidData
  \/ m.type = "RequestNi" /\ loc_eng_mute_one_session
  \/ m.type = "Down" /\ loc_eng_handle_engine_down
  \/ m.type = "Ssr" /\ LocSsrMsg
  \/ m.type = "Up" /\ loc_eng_handle_engine_up

MsgTask ==
  /\ queue # <<>>
  /\ queue' = Tail(queue) \o (IF Head(queue).type = "Up" THEN Restart ELSE <<>>)
  /\ Proc(Head(queue))
  /\ UNCHANGED <<wanted, bounds>>

Next ==
  \/ Framework \/ MsgTask
  \/ ModemFix \/ ModemCrashes \/ ModemRestarts \/ ModemReports

\* The MsgTask takes what is queued; a modem that went down comes back and
\* its reports arrive.  Nothing obliges the framework or the fixes.
Fairness == WF_vars(MsgTask) /\ WF_vars(ModemRestarts) /\ WF_vars(ModemReports)

Spec == Init /\ [][Next]_vars /\ Fairness

-----------------------------------------------------------------------------
(* Properties.                                                             *)

TypeOK ==
  /\ queue \in Seq(Message) /\ mNavigating \in BOOLEAN
  /\ mFixCriteria \in [mode : {"INVALID", "SET"}, recurrence : Recurrence]
  /\ mute_session_state \in {"NONE", "WAIT", "IN_SESSION"}
  /\ engine_status \in {"NONE", "ENGINE_ON", "ENGINE_OFF"}
  /\ aiding_data_for_deletion \in BOOLEAN
  /\ session \in Recurrence \cup {"none"} /\ link \in {"up", "down", "stale"}
  /\ wanted \in BOOLEAN /\ outcome \in {"none", "served", "failed"}
  /\ {calls, fixes, crashes} \subseteq Nat
  /\ \A k \in DOMAIN reports : reports[k] \in Message

\* Nothing is under way between the framework, the engine and the modem.
Quiet == queue = <<>> /\ reports = <<>> /\ link = "up"

\* A periodic session of the modem, which never ends by itself, belongs to a
\* session of the adapter, or to one that a queued StartFix is bringing back
\* after a restart: otherwise no later stop would reach the modem, because
\* loc_eng_stop_handler stops only what isInSession().
SessionOwned ==
  session = "PERIODIC" =>
    mNavigating \/ Msg("StartFix") \in {queue[k] : k \in DOMAIN queue}

\* Together with the types of the variables.
SessionSound == TypeOK /\ SessionOwned

\* Muting lasts for one session: with no session running and nothing under
\* way no report is muted, however the session ended, the modem crashing
\* included (loc_eng_mute_one_session).
MuteEnds == Quiet /\ session = "none" => mute_session_state # "IN_SESSION"

\* At rest the engine status, which decides when aiding data are deleted, is
\* the modem's: LocEngDown stands in for the ENGINE_OFF a crash swallows.
EngineKnown ==
  Quiet => (engine_status = "ENGINE_ON" <=> session # "none")

\* What the reports of the modem leave behind settles: late ones of an old
\* session and those a crash swallows included.
StatusSettles == MuteEnds /\ EngineKnown

\* A session under way when the modem crashes runs again after the restart,
\* unless the framework stops it, its fix was delivered or the modem refuses
\* it (loc_eng_handle_engine_up).
RestartResumes ==
  (wanted /\ mNavigating /\ link = "down")
    ~> (session # "none" \/ ~wanted \/ outcome # "none")

\* The session is off once a stop and all else is handled: the handling of a
\* restart, "called from the deferred thread to avoid race condition", must
\* not bring back a session the framework stopped.
StopHeeded == Quiet /\ ~wanted => ~mNavigating
==============================================================================
