---------------------------- MODULE EngineProofs ----------------------------
(***************************************************************************)
(* The engine's session and the requests the network initiates.  The modem *)
(* is never left with a periodic session that no stop can reach, for every *)
(* number of calls, fixes and crashes.  The payload of every network-      *)
(* initiated request is handed on or freed once, for every number of       *)
(* requests and every interleaving of the threads, as long as the engine   *)
(* does not restart.                                                       *)
(***************************************************************************)
EXTENDS LocEngSession, LocEngNi, SequenceTheorems, FiniteSetTheorems, TLAPS

-----------------------------------------------------------------------------
(* The positioning session.                                                *)

\* The messages and reports under way, and the state.
QueueType == queue \in Seq(Message) /\ reports \in Seq(Message)

AdapterType ==
  /\ mNavigating \in BOOLEAN
  /\ mFixCriteria \in [mode : {"INVALID", "SET"}, recurrence : Recurrence]

EngineType ==
  /\ mute_session_state \in {"NONE", "WAIT", "IN_SESSION"}
  /\ engine_status \in {"NONE", "ENGINE_ON", "ENGINE_OFF"}
  /\ aiding_data_for_deletion \in BOOLEAN

ModemType == session \in Recurrence \cup {"none"} /\ link \in {"up", "down", "stale"}

OutcomeType == outcome \in {"none", "served", "failed"}

WorldType ==
  /\ wanted \in BOOLEAN
  /\ calls \in Nat /\ fixes \in Nat /\ crashes \in Nat

\* A modem that is away runs nothing.
AwayIsIdle == link # "up" => session = "none"

\* The session of the adapter and the session of the modem are of one kind,
\* so that the fix which ends the one ends the other.
SameKind == mNavigating /\ session # "none" => session = mFixCriteria.recurrence

\* A StartFix is waiting in a queue.
Resuming(q) == \E k \in 1..Len(q) : q[k].type = "StartFix"

Owned == session = "PERIODIC" => mNavigating \/ Resuming(queue)

Types == QueueType /\ AdapterType /\ EngineType /\ ModemType /\ OutcomeType /\ WorldType
IInv  == Types /\ AwayIsIdle /\ SameKind /\ Owned

-----------------------------------------------------------------------------
(* Messages and queues.                                                    *)

LEMMA MessageType ==
  /\ \A t \in {"StartFix", "StopFix", "DelAidData", "RequestNi", "Down", "Ssr", "Up"} :
       Msg(t) \in Message
  /\ \A r \in Recurrence : Mode(r) \in Message
  /\ \A s \in FixStatus : Fix(s) \in Message
  /\ \A s \in Status : Report(s) \in Message
  BY DEF Message

\* What a message carries is of the kind its handler takes.
LEMMA MessageParts ==
  ASSUME NEW m \in Message
  PROVE  /\ m.type = "PositionMode" => m.recurrence \in Recurrence
         /\ m.type = "Position" => m.status \in FixStatus
         /\ m.type = "Status" => m.status \in Status
         /\ m.type = "StartFix" => m = Msg("StartFix")
  BY DEF Message, Msg, Mode, Fix, Report

LEMMA EndsType == Ends \in Seq(Message) /\ Begins \subseteq Seq(Message)
<1>1. \A s \in Status : Report(s) \in Message
  BY MessageType
<1>2. {"ENGINE_ON", "ENGINE_OFF", "SESSION_BEGIN", "SESSION_END"} \subseteq Status
  BY DEF Status
<1> QED BY <1>1, <1>2 DEF Ends, Begins

\* More messages behind do not take the StartFix away, nor does the handling
\* of a message before it.
LEMMA ResumingStays ==
  ASSUME NEW q \in Seq(Message), NEW more \in Seq(Message), Resuming(q)
  PROVE  Resuming(q \o more)
<1>1. PICK k \in 1..Len(q) : q[k].type = "StartFix"
  BY DEF Resuming
<1>2. k \in 1..Len(q \o more) /\ (q \o more)[k] = q[k]
  BY ConcatProperties, LenProperties
<1> QED BY <1>1, <1>2 DEF Resuming

LEMMA ResumingBehind ==
  ASSUME NEW q \in Seq(Message), q # <<>>, Head(q).type # "StartFix", Resuming(q)
  PROVE  Resuming(Tail(q))
<1>1. PICK k \in 1..Len(q) : q[k].type = "StartFix"
  BY DEF Resuming
<1>2. k # 1
  BY <1>1
<1>3. k - 1 \in 1..Len(Tail(q)) /\ Tail(q)[k - 1] = q[k]
  BY <1>2, HeadTailProperties, LenProperties
<1> QED BY <1>1, <1>3 DEF Resuming

-----------------------------------------------------------------------------
LEMMA InitHolds == Init => IInv
<1> SUFFICES ASSUME Init PROVE IInv
  OBVIOUS
<1>1. mNavigating \in BOOLEAN /\ aiding_data_for_deletion \in BOOLEAN /\ wanted \in BOOLEAN
  BY Zenon DEF Init
<1>2. QueueType /\ ModemType /\ OutcomeType /\ WorldType
  BY <1>1 DEF Init, QueueType, ModemType, OutcomeType, WorldType
<1>3. AdapterType /\ EngineType
  BY <1>1 DEF Init, AdapterType, EngineType, Recurrence
<1>4. AwayIsIdle /\ SameKind /\ Owned
  BY DEF Init, AwayIsIdle, SameKind, Owned
<1> QED BY <1>2, <1>3, <1>4 DEF IInv, Types

\* A call of the framework puts messages behind the others and changes nothing
\* the engine has.
LEMMA CallKeeps ==
  ASSUME IInv, NEW posted \in Seq(Message), Call(posted), wanted' \in BOOLEAN
  PROVE  IInv'
<1>1. QueueType'
  BY ConcatProperties DEF IInv, Types, QueueType, Call, modem
<1>2. AdapterType' /\ EngineType' /\ ModemType' /\ OutcomeType' /\ AwayIsIdle' /\ SameKind'
  BY DEF IInv, Types, AdapterType, EngineType, ModemType, OutcomeType, AwayIsIdle, SameKind,
         Call, adapter, engine, modem
<1>3. WorldType'
  BY DEF IInv, Types, WorldType, Call
<1>4. Owned'
  BY ResumingStays DEF IInv, Types, QueueType, Owned, Call, adapter, modem
<1> QED BY <1>1, <1>2, <1>3, <1>4 DEF IInv, Types

LEMMA FrameworkKeeps ==
  ASSUME IInv, Framework
  PROVE  IInv'
<1>1. CASE loc_eng_start
  <2>1. PICK r \in Recurrence : wanted' = TRUE /\ Call(<<Mode(r), Msg("StartFix")>>)
    BY <1>1 DEF loc_eng_start
  <2>2. wanted' \in BOOLEAN
    BY <2>1, Zenon
  <2>3. <<Mode(r), Msg("StartFix")>> \in Seq(Message)
    BY MessageType
  <2> QED BY <2>1, <2>2, <2>3, CallKeeps
<1>2. CASE loc_eng_stop
  <2>1. wanted' \in BOOLEAN
    BY <1>2, Zenon DEF loc_eng_stop
  <2>2. <<Msg("StopFix")>> \in Seq(Message)
    BY MessageType
  <2> QED BY <1>2, <2>1, <2>2, CallKeeps DEF loc_eng_stop
<1>3. CASE loc_eng_set_position_mode
  <2>1. PICK r \in Recurrence : wanted' = wanted /\ Call(<<Mode(r)>>)
    BY <1>3 DEF loc_eng_set_position_mode
  <2>2. <<Mode(r)>> \in Seq(Message)
    BY MessageType
  <2> QED BY <2>1, <2>2, CallKeeps DEF IInv, Types, WorldType
<1>4. CASE loc_eng_delete_aiding_data
  <2>1. <<Msg("DelAidData")>> \in Seq(Message)
    BY MessageType
  <2> QED BY <1>4, <2>1, CallKeeps DEF loc_eng_delete_aiding_data, IInv, Types, WorldType
<1>5. CASE NiRequested
  <2>1. <<Msg("RequestNi")>> \in Seq(Message)
    BY MessageType
  <2> QED BY <1>5, <2>1, CallKeeps DEF NiRequested, IInv, Types, WorldType
<1> QED BY <1>1, <1>2, <1>3, <1>4, <1>5 DEF Framework

-----------------------------------------------------------------------------
(* The modem: it ends sessions by itself and never begins one.             *)

LEMMA FixKeeps ==
  ASSUME IInv, ModemFix
  PROVE  IInv'
<1>1. PICK s \in FixStatus :
        IF session = "SINGLE" /\ s # "INTERMEDIATE"
        THEN session' = "none" /\ reports' = reports \o (<<Fix(s)>> \o Ends)
        ELSE UNCHANGED session /\ reports' = Append(reports, Fix(s))
  BY DEF ModemFix
<1>2. QueueType'
  <2>1. Fix(s) \in Message BY MessageType
  <2>2. <<Fix(s)>> \o Ends \in Seq(Message)
    BY <2>1, EndsType, ConcatProperties
  <2>3. reports \in Seq(Message)
    BY DEF IInv, Types, QueueType
  <2>4. reports \o (<<Fix(s)>> \o Ends) \in Seq(Message)
    BY <2>2, <2>3, ConcatProperties
  <2>5. Append(reports, Fix(s)) \in Seq(Message)
    BY <2>1, <2>3, AppendProperties
  <2>6. reports' \in Seq(Message)
    BY <1>1, <2>4, <2>5
  <2> QED BY <2>6 DEF ModemFix, IInv, Types, QueueType
<1>3. AdapterType' /\ EngineType' /\ OutcomeType' /\ WorldType'
  BY DEF IInv, Types, AdapterType, EngineType, OutcomeType, WorldType, ModemFix, adapter, engine
<1>4. ModemType' /\ AwayIsIdle' /\ SameKind' /\ Owned'
  BY <1>1 DEF IInv, Types, ModemType, AwayIsIdle, SameKind, Owned, ModemFix, adapter
<1> QED BY <1>2, <1>3, <1>4 DEF IInv, Types

LEMMA CrashKeeps ==
  ASSUME IInv, ModemCrashes
  PROVE  IInv'
<1>1. reports' \in Seq(Message)
  <2>1. PICK late \in {reports, <<>>} : reports' = Append(late, Msg("Down"))
    BY DEF ModemCrashes
  <2>2. late \in Seq(Message) /\ Msg("Down") \in Message
    BY MessageType, EmptySeq DEF IInv, Types, QueueType
  <2> QED BY <2>1, <2>2, AppendProperties
<1>2. QueueType' /\ AdapterType' /\ EngineType' /\ OutcomeType' /\ WorldType'
  BY <1>1 DEF IInv, Types, QueueType, AdapterType, EngineType, OutcomeType, WorldType,
              ModemCrashes, adapter, engine
<1>3. ModemType' /\ AwayIsIdle' /\ SameKind' /\ Owned'
  BY DEF ModemType, AwayIsIdle, SameKind, Owned, ModemCrashes
<1> QED BY <1>2, <1>3 DEF IInv, Types

LEMMA RestartKeeps ==
  ASSUME IInv, ModemRestarts
  PROVE  IInv'
<1>1. <<Msg("Ssr"), Msg("Up")>> \in Seq(Message)
  BY MessageType
<1>2. reports' \in Seq(Message)
  BY <1>1, ConcatProperties DEF ModemRestarts, IInv, Types, QueueType
<1>3. QueueType' /\ AdapterType' /\ EngineType' /\ OutcomeType' /\ WorldType'
  BY <1>2 DEF IInv, Types, QueueType, AdapterType, EngineType, OutcomeType, WorldType,
              ModemRestarts, adapter, engine, bounds
<1>4. ModemType' /\ AwayIsIdle' /\ SameKind' /\ Owned'
  BY DEF IInv, Types, ModemType, AwayIsIdle, SameKind, Owned, ModemRestarts, adapter
<1> QED BY <1>3, <1>4 DEF IInv, Types

LEMMA ReportsKeeps ==
  ASSUME IInv, ModemReports
  PROVE  IInv'
<1>1. Head(reports) \in Message /\ reports' \in Seq(Message)
  BY HeadTailProperties DEF ModemReports, IInv, Types, QueueType
<1>2. queue' \in Seq(Message) /\ queue' = queue \o <<Head(reports)>>
  BY <1>1, AppendProperties, AppendIsConcat DEF ModemReports, IInv, Types, QueueType
<1>3. AdapterType' /\ EngineType' /\ OutcomeType' /\ WorldType' /\ ModemType'
  BY DEF IInv, Types, AdapterType, EngineType, OutcomeType, WorldType, ModemType,
         ModemReports, adapter, engine, bounds
<1>4. AwayIsIdle' /\ SameKind'
  BY DEF IInv, AwayIsIdle, SameKind, ModemReports, adapter
<1>5. Owned'
  <2>1. <<Head(reports)>> \in Seq(Message) BY <1>1
  <2> QED BY <1>2, <2>1, ResumingStays DEF IInv, Types, QueueType, Owned, ModemReports, adapter
<1> QED BY <1>1, <1>2, <1>3, <1>4, <1>5 DEF IInv, Types, QueueType

-----------------------------------------------------------------------------
(* The handlers of the MsgTask.                                            *)

\* What a handler leaves, the queue aside.  A periodic session of the modem
\* stays without an owner only if it had none: then a StartFix is behind the
\* message in hand.  Or the handler is the one that sends it.
Handled(m) ==
  /\ AdapterType' /\ EngineType' /\ ModemType' /\ OutcomeType'
  /\ reports' \in Seq(Message)
  /\ AwayIsIdle' /\ SameKind'
  /\ session' = "PERIODIC" /\ ~mNavigating' =>
       /\ session = "PERIODIC"
       /\ mNavigating => m.type = "Up"
       /\ m.type # "StartFix"

LEMMA EndReports ==
  ASSUME IInv, SessionEnds
  PROVE  reports' \in Seq(Message) /\ session' = "none" /\ link' = link
  BY EndsType, ConcatProperties DEF SessionEnds, modem, IInv, Types, QueueType

LEMMA BeginReports ==
  ASSUME IInv, SessionBegins
  PROVE  /\ reports' \in Seq(Message) /\ link = "up" /\ link' = link
         /\ session' = mFixCriteria.recurrence
  BY EndsType, ConcatProperties DEF SessionBegins, IInv, Types, QueueType

\* The session flag is set or cleared, and the kind of session stays.
LEMMA SetInSession ==
  ASSUME AdapterType, NEW b \in BOOLEAN, setInSession(b)
  PROVE  /\ AdapterType' /\ mNavigating' = b
         /\ mFixCriteria'.recurrence = mFixCriteria.recurrence
<1>1. mNavigating' = b
  BY DEF setInSession
<1>2. mFixCriteria' \in [mode : {"INVALID", "SET"}, recurrence : Recurrence]
      /\ mFixCriteria'.recurrence = mFixCriteria.recurrence
  BY DEF setInSession, AdapterType
<1> QED BY <1>1, <1>2, Zenon DEF AdapterType

LEMMA StartFixDone ==
  ASSUME IInv, NEW m, m.type = "StartFix", loc_eng_start_handler
  PROVE  Handled(m)
<1>1. EngineType'
  BY DEF loc_eng_start_handler, engine, IInv, Types, EngineType
<1>2. CASE mNavigating
  BY <1>1, <1>2 DEF loc_eng_start_handler, Handled, IInv, Types, QueueType, AdapterType,
       ModemType, OutcomeType, AwayIsIdle, SameKind, adapter, modem
<1>3. CASE ~mNavigating /\ link = "up" /\ Started(TRUE)
  <2>1. SessionBegins /\ setInSession(TRUE) /\ outcome' = "none"
    BY <1>3 DEF Started
  <2>2. AdapterType' /\ mNavigating' /\ mFixCriteria'.recurrence = mFixCriteria.recurrence
    BY <2>1, SetInSession DEF IInv, Types
  <2> QED BY <1>1, <2>1, <2>2, BeginReports
        DEF Handled, ModemType, OutcomeType, AwayIsIdle, SameKind, IInv, Types, AdapterType
<1>4. CASE ~mNavigating /\ session = "none" /\ Started(FALSE)
  <2>1. UNCHANGED modem /\ setInSession(TRUE) /\ outcome' \in {"none", "failed"}
    BY <1>4 DEF Started
  <2>2. AdapterType' /\ mNavigating'
    BY <2>1, SetInSession DEF IInv, Types
  <2> QED BY <1>1, <1>4, <2>1, <2>2
        DEF Handled, ModemType, OutcomeType, AwayIsIdle, SameKind, IInv, Types, QueueType, modem
<1>5. CASE ~mNavigating /\ session = "none" /\ Refused
  BY <1>1, <1>5 DEF Refused, Handled, ModemType, OutcomeType, AwayIsIdle, SameKind,
       AdapterType, IInv, Types, QueueType, modem, adapter
<1> QED BY <1>2, <1>3, <1>4, <1>5 DEF loc_eng_start_handler

LEMMA StopFixDone ==
  ASSUME IInv, NEW m, m.type = "StopFix", loc_eng_stop_handler
  PROVE  Handled(m)
<1>1. EngineType' /\ OutcomeType'
  BY DEF loc_eng_stop_handler, engine, IInv, Types, EngineType, OutcomeType
<1>2. CASE mNavigating
  <2>1. SessionEnds /\ setInSession(FALSE)
    BY <1>2 DEF loc_eng_stop_handler
  <2>2. AdapterType' /\ ~mNavigating'
    BY <2>1, SetInSession DEF IInv, Types
  <2> QED BY <1>1, <2>1, <2>2, EndReports
        DEF Handled, ModemType, AwayIsIdle, SameKind, IInv, Types
<1>3. CASE ~mNavigating
  BY <1>1, <1>3 DEF loc_eng_stop_handler, Handled, ModemType, AwayIsIdle, SameKind,
       AdapterType, IInv, Types, QueueType, modem, adapter
<1> QED BY <1>2, <1>3

LEMMA PositionModeDone ==
  ASSUME IInv, NEW m, m.type = "PositionMode", m.recurrence \in Recurrence,
         PositionMode(m.recurrence)
  PROVE  Handled(m)
<1>1. EngineType' /\ OutcomeType' /\ reports' \in Seq(Message)
  BY DEF PositionMode, engine, IInv, Types, QueueType, EngineType, OutcomeType
<1>2. AdapterType'
  BY DEF PositionMode, IInv, Types, AdapterType
<1>3. ModemType' /\ AwayIsIdle'
  BY DEF PositionMode, IInv, Types, ModemType, AwayIsIdle
<1>4. SameKind'
  BY DEF PositionMode, SameKind
<1>5. session' = "PERIODIC" /\ ~mNavigating' => session = "PERIODIC" /\ ~mNavigating
  BY DEF PositionMode
<1> QED BY <1>1, <1>2, <1>3, <1>4, <1>5 DEF Handled

LEMMA PositionDone ==
  ASSUME IInv, NEW m, m.type = "Position", ReportPosition(m.status)
  PROVE  Handled(m)
<1>1. EngineType'
  BY DEF ReportPosition, engine, IInv, Types, EngineType
<1>2. CASE UNCHANGED <<adapter, modem, outcome>>
  BY <1>1, <1>2 DEF Handled, ModemType, OutcomeType, AwayIsIdle, SameKind,
       AdapterType, IInv, Types, QueueType, modem, adapter
<1>3. CASE /\ mFixCriteria.recurrence = "SINGLE" /\ setInSession(FALSE)
           /\ IF m.status = "INTERMEDIATE" THEN SessionEnds ELSE UNCHANGED modem
           /\ outcome' = "served"
  <2>1. AdapterType' /\ ~mNavigating'
    BY <1>3, SetInSession DEF IInv, Types
  <2>2. CASE SessionEnds
    BY <1>1, <1>3, <2>1, <2>2, EndReports
      DEF Handled, ModemType, OutcomeType, AwayIsIdle, SameKind, IInv, Types
  <2>3. CASE UNCHANGED modem
    <3>1. session = "PERIODIC" => ~mNavigating
      BY <1>3 DEF IInv, SameKind
    <3> QED BY <1>1, <1>3, <2>1, <2>3, <3>1
          DEF Handled, ModemType, OutcomeType, AwayIsIdle, SameKind, IInv, Types, QueueType, modem
  <2> QED BY <1>3, <2>2, <2>3
<1> QED BY <1>2, <1>3 DEF ReportPosition

\* The handlers that only change what the engine knows.
LEMMA Muting ==
  ASSUME EngineType, NEW s \in Status
  PROVE  Muted(s) \in {"NONE", "WAIT", "IN_SESSION"}
  BY DEF Muted, EngineType

LEMMA StatusDone ==
  ASSUME IInv, NEW m, m.type \in {"Status", "DelAidData", "RequestNi", "Down"},
         \/ m.type = "Status" /\ m.status \in Status /\ ReportStatus(m.status)
         \/ m.type = "DelAidData" /\ DelAidData
         \/ m.type = "RequestNi" /\ loc_eng_mute_one_session
         \/ m.type = "Down" /\ loc_eng_handle_engine_down
  PROVE  Handled(m)
<1>1. mute_session_state' \in {"NONE", "WAIT", "IN_SESSION"}
  BY Muting DEF ReportStatus, DelAidData, loc_eng_mute_one_session, loc_eng_handle_engine_down,
       loc_eng_report_status, IInv, Types, EngineType, Status
<1>2. engine_status' \in {"NONE", "ENGINE_ON", "ENGINE_OFF"}
  BY DEF ReportStatus, DelAidData, loc_eng_mute_one_session, loc_eng_handle_engine_down,
       loc_eng_report_status, IInv, Types, EngineType
<1>3. aiding_data_for_deletion' \in BOOLEAN
  BY Zenon DEF ReportStatus, DelAidData, loc_eng_mute_one_session, loc_eng_handle_engine_down,
       update_aiding_data_for_deletion, IInv, Types, EngineType
<1>4. UNCHANGED <<adapter, modem, outcome>>
  BY DEF ReportStatus, DelAidData, loc_eng_mute_one_session, loc_eng_handle_engine_down
<1> QED BY <1>1, <1>2, <1>3, <1>4
      DEF Handled, EngineType, ModemType, OutcomeType, AwayIsIdle, SameKind, AdapterType, IInv,
          Types, QueueType, modem, adapter

LEMMA SsrDone ==
  ASSUME IInv, NEW m, m.type = "Ssr", LocSsrMsg
  PROVE  Handled(m)
<1>1. reports' \in Seq(Message)
  BY EndsType, ConcatProperties DEF LocSsrMsg, IInv, Types, QueueType
<1> QED BY <1>1 DEF LocSsrMsg, Handled, EngineType, ModemType, OutcomeType, AwayIsIdle, SameKind,
       AdapterType, IInv, Types, adapter, engine

LEMMA UpDone ==
  ASSUME IInv, NEW m, m.type = "Up", loc_eng_handle_engine_up
  PROVE  Handled(m)
<1>1. AdapterType'
  BY SetInSession DEF loc_eng_handle_engine_up, IInv, Types, AdapterType, adapter
<1>2. mNavigating' => mNavigating /\ UNCHANGED adapter
  BY SetInSession DEF loc_eng_handle_engine_up, IInv, Types, adapter
<1> QED BY <1>1, <1>2 DEF loc_eng_handle_engine_up, Handled, EngineType, ModemType, OutcomeType,
       AwayIsIdle, SameKind, IInv, Types, QueueType, modem, engine, adapter

LEMMA ProcDone ==
  ASSUME IInv, NEW m \in Message, Proc(m)
  PROVE  Handled(m)
  BY MessageParts, StartFixDone, StopFixDone, PositionModeDone, PositionDone, StatusDone,
     SsrDone, UpDone DEF Proc

\* The queue after the message in hand: a StartFix behind it is still there,
\* and a restart in a session puts one there.
LEMMA MsgTaskKeeps ==
  ASSUME IInv, MsgTask
  PROVE  IInv'
<1> DEFINE m == Head(queue)
           sent == IF m.type = "Up" THEN Restart ELSE <<>>
<1>1. /\ m \in Message /\ Tail(queue) \in Seq(Message) /\ queue # <<>>
      /\ queue' = Tail(queue) \o sent
  BY HeadTailProperties DEF IInv, Types, QueueType, MsgTask
<1>2. Msg("StartFix") \in Message /\ Msg("StartFix").type = "StartFix"
  BY MessageType DEF Msg
<1>3. sent \in Seq(Message)
  BY <1>2 DEF Restart
<1>4. Handled(m)
  BY <1>1, ProcDone DEF MsgTask
<1>5. QueueType'
  BY <1>1, <1>3, <1>4, ConcatProperties DEF Handled, QueueType
<1>6. WorldType'
  BY DEF MsgTask, bounds, IInv, Types, WorldType
<1>7. Owned'
  <2> SUFFICES ASSUME session' = "PERIODIC", ~mNavigating'
               PROVE  Resuming(queue')
    BY DEF Owned
  <2>1. session = "PERIODIC" /\ (mNavigating => m.type = "Up") /\ m.type # "StartFix"
    BY <1>4 DEF Handled
  <2>2. CASE mNavigating
    <3>1. sent = <<Msg("StartFix")>>
      BY <2>1, <2>2 DEF Restart
    <3>2. queue' = Append(Tail(queue), Msg("StartFix"))
      BY <1>1, <1>2, <3>1, AppendIsConcat
    <3> QED BY <1>1, <1>2, <3>2, AppendProperties, LenProperties DEF Resuming
  <2>3. CASE ~mNavigating
    <3>1. Resuming(queue)
      BY <2>1, <2>3 DEF IInv, Owned
    <3>2. Resuming(Tail(queue))
      BY <1>1, <2>1, <3>1, ResumingBehind DEF IInv, Types, QueueType
    <3> QED BY <1>1, <1>3, <3>2, ResumingStays
  <2> QED BY <2>2, <2>3
<1> QED BY <1>4, <1>5, <1>6, <1>7 DEF IInv, Types, Handled

LEMMA StutterKeeps ==
  ASSUME IInv, UNCHANGED vars
  PROVE  IInv'
  BY DEF vars, adapter, engine, modem, bounds, IInv, Types, QueueType, AdapterType, EngineType,
         ModemType, OutcomeType, WorldType, AwayIsIdle, SameKind, Owned

LEMMA NextKeeps == IInv /\ [Next]_vars => IInv'
  BY FrameworkKeeps, FixKeeps, CrashKeeps, RestartKeeps, ReportsKeeps, MsgTaskKeeps, StutterKeeps
     DEF Next

LEMMA SoundHere == IInv => SessionSound
<1> SUFFICES ASSUME IInv PROVE SessionSound
  OBVIOUS
<1>1. TypeOK
  <2>1. \A k \in DOMAIN reports : reports[k] \in Message
    BY LenProperties, ElementOfSeq DEF IInv, Types, QueueType
  <2> QED BY <2>1 DEF IInv, Types, QueueType, AdapterType, EngineType, ModemType, OutcomeType,
            WorldType, TypeOK
<1>2. SessionOwned
  <2> SUFFICES ASSUME session = "PERIODIC", ~mNavigating
               PROVE  Msg("StartFix") \in {queue[k] : k \in DOMAIN queue}
    BY DEF SessionOwned
  <2>1. PICK k \in 1..Len(queue) : queue[k].type = "StartFix"
    BY DEF IInv, Owned, Resuming
  <2>2. k \in DOMAIN queue /\ queue[k] \in Message
    BY LenProperties, ElementOfSeq DEF IInv, Types, QueueType
  <2>3. queue[k] = Msg("StartFix")
    BY <2>1, <2>2, MessageParts
  <2> QED BY <2>2, <2>3
<1> QED BY <1>1, <1>2 DEF SessionSound

\* Through restarts of the modem, late reports and fixes of an old session, a
\* periodic session the modem runs is the adapter's, or a StartFix is on its
\* way that makes it so: a stop handled after it reaches the modem.
THEOREM SessionSafe == Spec => []SessionSound
<1> QED BY InitHolds, NextKeeps, SoundHere, PTL DEF Spec

-----------------------------------------------------------------------------
(* What the reports under way will leave: they are read from the front of  *)
(* the queue to the last report, each turning something on or off.         *)

\* What becomes of "was" after the messages of q: some member of S turns it on
\* and no member of E comes after it, or it was on and stays so.
After(S, E, was, q) ==
  IF \/ was = "on" /\ \A j \in 1..Len(q) : q[j] \notin E
     \/ \E k \in 1..Len(q) : q[k] \in S /\ \A j \in 1..Len(q) : j >= k => q[j] \notin E
  THEN "on" ELSE "off"

Flag(b) == IF b THEN "on" ELSE "off"

EngineOn   == {Report("ENGINE_ON")}
EngineOff  == {Report("ENGINE_OFF"), Msg("Down")}
SessionOn  == EngineOn \cup {Report("SESSION_BEGIN")}
SessionOff == EngineOff \cup {Report("SESSION_END")}

AfterEngine(was, q) == After(EngineOn, EngineOff, was, q)
AfterMute(was, q)   == After(SessionOn, SessionOff, was, q)

EngineFlag == Flag(engine_status = "ENGINE_ON")
MuteFlag   == Flag(mute_session_state = "IN_SESSION")

\* Once all that is under way is handled the engine status is the modem's,
\* and no session is muted that has ended.
EngineAgrees ==
  AfterEngine(AfterEngine(EngineFlag, queue), reports) = Flag(session # "none")
MuteAgrees ==
  session = "none" => AfterMute(AfterMute(MuteFlag, queue), reports) = "off"

StatusInv == EngineAgrees /\ MuteAgrees

\* One message after the other.
LEMMA AfterConcat ==
  ASSUME NEW S, NEW E, NEW was, NEW q \in Seq(Message), NEW r \in Seq(Message)
  PROVE  After(S, E, was, q \o r) = After(S, E, After(S, E, was, q), r)
<1> DEFINE n == Len(q)
           w == After(S, E, was, q)
           Kept(x) == \A j \in 1..Len(x) : x[j] \notin E
           Turned(x) == \E k \in 1..Len(x) : x[k] \in S /\ \A j \in 1..Len(x) : j >= k => x[j] \notin E
<1>1. /\ Len(q \o r) = n + Len(r) /\ n \in Nat /\ Len(r) \in Nat
      /\ \A j \in 1..n : (q \o r)[j] = q[j]
      /\ \A j \in 1..Len(r) : (q \o r)[n + j] = r[j]
  BY ConcatProperties, LenProperties
<1>2. Kept(q \o r) <=> Kept(q) /\ Kept(r)
  <2>1. ASSUME Kept(q \o r) PROVE Kept(q) /\ Kept(r)
    <3>1. \A j \in 1..n : j \in 1..Len(q \o r) BY <1>1
    <3>2. \A j \in 1..Len(r) : n + j \in 1..Len(q \o r) BY <1>1
    <3> QED BY <1>1, <2>1, <3>1, <3>2
  <2>2. ASSUME Kept(q), Kept(r), NEW j \in 1..Len(q \o r) PROVE (q \o r)[j] \notin E
    <3>1. CASE j <= n
      BY <1>1, <2>2, <3>1
    <3>2. CASE j > n
      <4>1. j - n \in 1..Len(r) /\ n + (j - n) = j BY <1>1, <3>2
      <4> QED BY <1>1, <2>2, <4>1
    <3> QED BY <1>1, <3>1, <3>2
  <2> QED BY <2>1, <2>2
<1>3. Turned(q \o r) <=> Turned(r) \/ (Turned(q) /\ Kept(r))
  <2>1. ASSUME Turned(q \o r) PROVE Turned(r) \/ (Turned(q) /\ Kept(r))
    <3>1. PICK k \in 1..Len(q \o r) :
            (q \o r)[k] \in S /\ \A j \in 1..Len(q \o r) : j >= k => (q \o r)[j] \notin E
      BY <2>1
    <3>2. CASE k > n
      <4>1. k - n \in 1..Len(r) /\ n + (k - n) = k BY <1>1, <3>2
      <4>2. r[k - n] \in S BY <1>1, <3>1, <4>1
      <4>3. \A j \in 1..Len(r) : j >= k - n => r[j] \notin E
        <5> TAKE j \in 1..Len(r)
        <5>1. n + j \in 1..Len(q \o r) /\ (j >= k - n => n + j >= k) BY <1>1
        <5> QED BY <1>1, <3>1, <5>1
      <4> QED BY <4>1, <4>2, <4>3
    <3>3. CASE k <= n
      <4>1. k \in 1..n /\ q[k] \in S BY <1>1, <3>1, <3>3
      <4>2. \A j \in 1..n : j >= k => q[j] \notin E
        <5> TAKE j \in 1..n
        <5>1. j \in 1..Len(q \o r) BY <1>1
        <5> QED BY <1>1, <3>1, <5>1
      <4>3. \A j \in 1..Len(r) : r[j] \notin E
        <5> TAKE j \in 1..Len(r)
        <5>1. n + j \in 1..Len(q \o r) /\ n + j >= k BY <1>1, <3>3
        <5> QED BY <1>1, <3>1, <5>1
      <4> QED BY <4>1, <4>2, <4>3
    <3> QED BY <1>1, <3>2, <3>3
  <2>2. ASSUME Turned(r) PROVE Turned(q \o r)
    <3>1. PICK k \in 1..Len(r) : r[k] \in S /\ \A j \in 1..Len(r) : j >= k => r[j] \notin E
      BY <2>2
    <3>2. n + k \in 1..Len(q \o r) /\ (q \o r)[n + k] \in S BY <1>1, <3>1
    <3>3. \A j \in 1..Len(q \o r) : j >= n + k => (q \o r)[j] \notin E
      <4> SUFFICES ASSUME NEW j \in 1..Len(q \o r), j >= n + k PROVE (q \o r)[j] \notin E
        OBVIOUS
      <4>1. j - n \in 1..Len(r) /\ n + (j - n) = j /\ j - n >= k BY <1>1
      <4> QED BY <1>1, <3>1, <4>1
    <3> QED BY <3>2, <3>3
  <2>3. ASSUME Turned(q), Kept(r) PROVE Turned(q \o r)
    <3>1. PICK k \in 1..n : q[k] \in S /\ \A j \in 1..n : j >= k => q[j] \notin E
      BY <2>3
    <3>2. k \in 1..Len(q \o r) /\ (q \o r)[k] \in S BY <1>1, <3>1
    <3>3. \A j \in 1..Len(q \o r) : j >= k => (q \o r)[j] \notin E
      <4> SUFFICES ASSUME NEW j \in 1..Len(q \o r), j >= k PROVE (q \o r)[j] \notin E
        OBVIOUS
      <4>1. CASE j <= n
        BY <1>1, <3>1, <4>1
      <4>2. CASE j > n
        <5>1. j - n \in 1..Len(r) /\ n + (j - n) = j BY <1>1, <4>2
        <5> QED BY <1>1, <2>3, <5>1
      <4> QED BY <1>1, <4>1, <4>2
    <3> QED BY <3>2, <3>3
  <2> QED BY <2>1, <2>2, <2>3
<1>4. w = IF (was = "on" /\ Kept(q)) \/ Turned(q) THEN "on" ELSE "off"
  BY DEF After
<1>5. After(S, E, was, q \o r) =
        IF (was = "on" /\ Kept(q \o r)) \/ Turned(q \o r) THEN "on" ELSE "off"
  BY DEF After
<1>6. After(S, E, w, r) = IF (w = "on" /\ Kept(r)) \/ Turned(r) THEN "on" ELSE "off"
  BY DEF After
<1> HIDE DEF Kept, Turned, w
<1>7. w = "on" <=> (was = "on" /\ Kept(q)) \/ Turned(q)
  BY <1>4
<1> QED BY <1>2, <1>3, <1>5, <1>6, <1>7 DEF w

LEMMA AfterOne ==
  ASSUME NEW S, NEW E, NEW was, NEW m, S \cap E = {}
  PROVE  After(S, E, was, <<m>>) =
           IF m \in S \/ (was = "on" /\ m \notin E) THEN "on" ELSE "off"
<1>1. Len(<<m>>) = 1 /\ <<m>>[1] = m /\ 1..1 = {1}
  OBVIOUS
<1> QED BY <1>1 DEF After

LEMMA AfterNone ==
  ASSUME NEW S, NEW E, NEW was \in {"on", "off"}
  PROVE  After(S, E, was, <<>>) = was
<1>1. Len(<<>>) = 0 /\ 1..0 = {}
  OBVIOUS
<1> QED BY <1>1 DEF After

LEMMA AfterFlag ==
  ASSUME NEW S, NEW E, NEW was, NEW q
  PROVE  After(S, E, was, q) \in {"on", "off"}
  BY DEF After

\* What is off stays off where it would even if it were on.
LEMMA AfterMonotone ==
  ASSUME NEW S, NEW E, NEW was, NEW q, After(S, E, "on", q) = "off"
  PROVE  After(S, E, was, q) = "off"
  BY DEF After

\* The lesser flag gives the lesser outcome.
AtMost(a, b) == a = "on" => b = "on"

LEMMA AfterAtMost ==
  ASSUME NEW S, NEW E, NEW a, NEW b, AtMost(a, b), NEW q
  PROVE  AtMost(After(S, E, a, q), After(S, E, b, q))
  BY DEF After, AtMost

\* Which messages turn which flag.
LEMMA Turning ==
  ASSUME NEW m \in Message
  PROVE  /\ m \in EngineOn <=> m.type = "Status" /\ m.status = "ENGINE_ON"
         /\ m \in EngineOff <=> m.type = "Down" \/ (m.type = "Status" /\ m.status = "ENGINE_OFF")
         /\ m \in SessionOn <=>
              m.type = "Status" /\ m.status \in {"ENGINE_ON", "SESSION_BEGIN"}
         /\ m \in SessionOff <=>
              m.type = "Down" \/ (m.type = "Status" /\ m.status \in {"ENGINE_OFF", "SESSION_END"})
  BY DEF Message, Msg, Mode, Fix, Report, EngineOn, EngineOff, SessionOn, SessionOff

LEMMA Apart == EngineOn \cap EngineOff = {} /\ SessionOn \cap SessionOff = {}
  BY DEF Msg, Report, EngineOn, EngineOff, SessionOn, SessionOff

\* A sequence of messages may leave both flags alone, turn both off, or turn
\* the engine on.
Both == {"on", "off"}
Neutral(q)  == \A w \in Both : AfterEngine(w, q) = w /\ AfterMute(w, q) = w
Quenches(q) == \A w \in Both : AfterEngine(w, q) = "off" /\ AfterMute(w, q) = "off"
Kindles(q)  == \A w \in Both : AfterEngine(w, q) = "on"

LEMMA FlagsConcat ==
  ASSUME NEW q \in Seq(Message), NEW r \in Seq(Message), NEW w
  PROVE  /\ AfterEngine(w, q \o r) = AfterEngine(AfterEngine(w, q), r)
         /\ AfterMute(w, q \o r) = AfterMute(AfterMute(w, q), r)
  BY AfterConcat DEF AfterEngine, AfterMute

LEMMA NeutralOne ==
  ASSUME NEW m \in Message, m.type \notin {"Status", "Down"}
  PROVE  Neutral(<<m>>)
  BY Turning, AfterOne, Apart DEF Neutral, AfterEngine, AfterMute, Both

LEMMA NeutralTwo ==
  ASSUME NEW q \in Seq(Message), NEW r \in Seq(Message), Neutral(q), Neutral(r)
  PROVE  Neutral(q \o r)
  BY FlagsConcat DEF Neutral

LEMMA QuenchesLast ==
  ASSUME NEW q \in Seq(Message), NEW m \in Message, m \in EngineOff
  PROVE  Quenches(q \o <<m>>)
<1>1. m \in SessionOff
  BY DEF SessionOff
<1>2. <<m>> \in Seq(Message)
  OBVIOUS
<1>3. \A w : AfterEngine(w, <<m>>) = "off" /\ AfterMute(w, <<m>>) = "off"
  BY <1>1, AfterOne, Apart DEF AfterEngine, AfterMute
<1>4. ASSUME NEW w \in Both
      PROVE  AfterEngine(w, q \o <<m>>) = "off" /\ AfterMute(w, q \o <<m>>) = "off"
  <2>1. /\ AfterEngine(w, q \o <<m>>) = AfterEngine(AfterEngine(w, q), <<m>>)
        /\ AfterMute(w, q \o <<m>>) = AfterMute(AfterMute(w, q), <<m>>)
    BY <1>2, FlagsConcat
  <2> QED BY <2>1, <1>3
<1> QED BY <1>4 DEF Quenches

LEMMA EndsQuench == Quenches(Ends)
<1>1. Report("SESSION_END") \in Message /\ Report("ENGINE_OFF") \in Message
  BY MessageType DEF Status
<1>2. Ends = <<Report("SESSION_END")>> \o <<Report("ENGINE_OFF")>>
  BY DEF Ends
<1>3. <<Report("SESSION_END")>> \in Seq(Message) /\ Report("ENGINE_OFF") \in EngineOff
  BY <1>1 DEF EngineOff
<1> QED BY <1>1, <1>2, <1>3, QuenchesLast

LEMMA BeginsKindle == \A b \in Begins : Kindles(b)
<1> DEFINE on    == Report("ENGINE_ON")
           begin == Report("SESSION_BEGIN")
<1>1. on \in Message /\ begin \in Message
  BY MessageType DEF Status
<1>2. on.type = "Status" /\ on.status = "ENGINE_ON" /\ begin.type = "Status"
      /\ begin.status = "SESSION_BEGIN"
  BY DEF Report
<1> HIDE DEF on, begin
<1>3. \A w : AfterEngine(w, <<on>>) = "on"
  BY <1>1, <1>2, AfterOne, Apart, Turning DEF AfterEngine
<1>4. AfterEngine("on", <<begin>>) = "on"
  BY <1>1, <1>2, AfterOne, Apart, Turning DEF AfterEngine
<1>0. <<on>> \in Seq(Message) /\ <<begin>> \in Seq(Message)
  BY <1>1
<1>5. \A w : AfterEngine(w, <<on>> \o <<begin>>) = "on"
  <2> TAKE w
  <2>1. AfterEngine(w, <<on>> \o <<begin>>) = AfterEngine(AfterEngine(w, <<on>>), <<begin>>)
    BY <1>0, FlagsConcat
  <2>2. AfterEngine(w, <<on>>) = "on"
    BY <1>3
  <2> QED BY <2>1, <2>2, <1>4
<1>6. \A w : AfterEngine(w, <<begin>> \o <<on>>) = "on"
  <2> TAKE w
  <2>1. AfterEngine(w, <<begin>> \o <<on>>) = AfterEngine(AfterEngine(w, <<begin>>), <<on>>)
    BY <1>0, FlagsConcat
  <2> QED BY <2>1, <1>3
<1>7. Begins = {<<on>> \o <<begin>>, <<begin>> \o <<on>>}
  BY DEF Begins, on, begin
<1> QED BY <1>5, <1>6, <1>7 DEF Kindles

-----------------------------------------------------------------------------
(* What the steps do to the flags.                                         *)

\* The session and the reports of it change together.
Moved ==
  \E r \in Seq(Message), more \in Seq(Message) :
    /\ reports' = r \o more
    /\ \/ Quenches(more) /\ session' = "none"
       \/ Kindles(more) /\ session' # "none"
       \/ Neutral(more) /\ r = reports /\ (session' = "none" <=> session = "none")

LEMMA MovedKeeps ==
  ASSUME reports \in Seq(Message), NEW e \in Both, NEW u \in Both, NEW v \in Both,
         AtMost(v, u), Moved,
         AfterEngine(e, reports) = Flag(session # "none"),
         session = "none" => AfterMute(u, reports) = "off"
  PROVE  /\ AfterEngine(e, reports') = Flag(session' # "none")
         /\ session' = "none" => AfterMute(v, reports') = "off"
<1>1. PICK r \in Seq(Message), more \in Seq(Message) :
        /\ reports' = r \o more
        /\ \/ Quenches(more) /\ session' = "none"
           \/ Kindles(more) /\ session' # "none"
           \/ Neutral(more) /\ r = reports /\ (session' = "none" <=> session = "none")
  BY DEF Moved
<1>2. /\ AfterEngine(e, reports') = AfterEngine(AfterEngine(e, r), more)
      /\ AfterMute(v, reports') = AfterMute(AfterMute(v, r), more)
  BY <1>1, FlagsConcat
<1>3. AfterEngine(e, r) \in Both /\ AfterMute(v, r) \in Both /\ AfterMute(u, r) \in Both
  BY AfterFlag DEF AfterEngine, AfterMute, Both
<1>4. AtMost(AfterMute(v, r), AfterMute(u, r))
  BY AfterAtMost DEF AfterMute
<1>5. CASE Quenches(more) /\ session' = "none"
  BY <1>2, <1>3, <1>5 DEF Quenches, Flag
<1>6. CASE Kindles(more) /\ session' # "none"
  BY <1>2, <1>3, <1>6 DEF Kindles, Flag
<1>7. CASE Neutral(more) /\ r = reports /\ (session' = "none" <=> session = "none")
  BY <1>2, <1>3, <1>4, <1>7 DEF Neutral, Flag, AtMost, Both
<1> QED BY <1>1, <1>5, <1>6, <1>7

LEMMA StillMoved ==
  ASSUME reports \in Seq(Message), UNCHANGED reports, session' = "none" <=> session = "none"
  PROVE  Moved
<1>1. reports' = reports \o <<>> /\ <<>> \in Seq(Message)
  BY ConcatEmptySeq, EmptySeq
<1>2. Neutral(<<>>)
  BY AfterNone DEF Neutral, AfterEngine, AfterMute, Both
<1> QED BY <1>1, <1>2 DEF Moved

LEMMA FlagsType == EngineFlag \in Both /\ MuteFlag \in Both
  BY DEF EngineFlag, MuteFlag, Flag, Both

\* A step of the modem: its reports move on, the engine's flags do not.
LEMMA ModemStatus ==
  ASSUME IInv, StatusInv, Moved, UNCHANGED <<queue, engine>>
  PROVE  StatusInv'
<1> DEFINE e == AfterEngine(EngineFlag, queue)
           u == AfterMute(MuteFlag, queue)
<1>1. e \in Both /\ u \in Both
  BY AfterFlag DEF AfterEngine, AfterMute, Both
<1>2. AfterEngine(EngineFlag', queue') = e /\ AfterMute(MuteFlag', queue') = u
  BY DEF engine, EngineFlag, MuteFlag
<1>3. reports \in Seq(Message) /\ AtMost(u, u)
  BY DEF IInv, Types, QueueType, AtMost
<1>4. AfterEngine(e, reports) = Flag(session # "none")
      /\ (session = "none" => AfterMute(u, reports) = "off")
  BY DEF StatusInv, EngineAgrees, MuteAgrees
<1> HIDE DEF e, u
<1>5. AfterEngine(e, reports') = Flag(session' # "none")
      /\ (session' = "none" => AfterMute(u, reports') = "off")
  BY <1>1, <1>3, <1>4, MovedKeeps
<1>6. EngineAgrees' <=> AfterEngine(AfterEngine(EngineFlag', queue'), reports') = Flag(session' # "none")
  BY DEF EngineAgrees, AfterEngine, EngineFlag, Flag
<1>7. MuteAgrees' <=>
        (session' = "none" => AfterMute(AfterMute(MuteFlag', queue'), reports') = "off")
  BY DEF MuteAgrees, AfterMute, MuteFlag, Flag
<1> QED BY <1>2, <1>5, <1>6, <1>7 DEF StatusInv

LEMMA StatusInit == Init => StatusInv
<1> SUFFICES ASSUME Init PROVE StatusInv
  OBVIOUS
<1>1. EngineFlag = "off" /\ MuteFlag = "off" /\ queue = <<>> /\ reports = <<>> /\ session = "none"
  BY DEF Init, EngineFlag, MuteFlag, Flag
<1>2. AfterEngine("off", <<>>) = "off" /\ AfterMute("off", <<>>) = "off"
  BY AfterNone DEF AfterEngine, AfterMute
<1>3. Flag(session # "none") = "off"
  BY <1>1 DEF Flag
<1> QED BY <1>1, <1>2, <1>3 DEF StatusInv, EngineAgrees, MuteAgrees

\* Calls of the framework are reports of nothing.
LEMMA CallStatus ==
  ASSUME IInv, StatusInv, NEW posted \in Seq(Message), Neutral(posted), Call(posted)
  PROVE  StatusInv'
<1>1. /\ AfterEngine(EngineFlag, queue \o posted) = AfterEngine(AfterEngine(EngineFlag, queue), posted)
      /\ AfterMute(MuteFlag, queue \o posted) = AfterMute(AfterMute(MuteFlag, queue), posted)
  BY FlagsConcat DEF IInv, Types, QueueType
<1>2. AfterEngine(EngineFlag, queue) \in Both /\ AfterMute(MuteFlag, queue) \in Both
  BY AfterFlag DEF AfterEngine, AfterMute, Both
<1>3. /\ AfterEngine(EngineFlag, queue \o posted) = AfterEngine(EngineFlag, queue)
      /\ AfterMute(MuteFlag, queue \o posted) = AfterMute(MuteFlag, queue)
  BY <1>1, <1>2 DEF Neutral
<1>4. /\ queue' = queue \o posted
      /\ UNCHANGED <<engine_status, mute_session_state, session, reports>>
  BY DEF Call, engine, modem
<1> QED BY <1>3, <1>4
      DEF StatusInv, EngineAgrees, MuteAgrees, EngineFlag, MuteFlag, Flag, AfterEngine, AfterMute

LEMMA FrameworkStatus ==
  ASSUME IInv, StatusInv, Framework
  PROVE  StatusInv'
<1>1. \A t \in {"StartFix", "StopFix", "DelAidData", "RequestNi"} :
        /\ Msg(t) \in Message /\ Neutral(<<Msg(t)>>)
        /\ <<Msg(t)>> \in Seq(Message)
  BY MessageType, NeutralOne DEF Msg
<1>2. \A r \in Recurrence :
        /\ Mode(r) \in Message /\ Neutral(<<Mode(r)>>)
        /\ <<Mode(r)>> \in Seq(Message)
  <2> TAKE r \in Recurrence
  <2>1. Mode(r) \in Message /\ Mode(r).type = "PositionMode"
    BY MessageType DEF Mode
  <2> QED BY <2>1, NeutralOne
<1>3. CASE loc_eng_start
  <2>1. PICK r \in Recurrence : Call(<<Mode(r), Msg("StartFix")>>)
    BY <1>3 DEF loc_eng_start
  <2>2. <<Mode(r), Msg("StartFix")>> = <<Mode(r)>> \o <<Msg("StartFix")>>
    OBVIOUS
  <2>3. <<Mode(r), Msg("StartFix")>> \in Seq(Message) /\ Neutral(<<Mode(r), Msg("StartFix")>>)
    BY <1>1, <1>2, <2>2, NeutralTwo, ConcatProperties
  <2> QED BY <2>1, <2>3, CallStatus
<1>4. CASE loc_eng_set_position_mode
  <2>1. PICK r \in Recurrence : Call(<<Mode(r)>>)
    BY <1>4 DEF loc_eng_set_position_mode
  <2> QED BY <1>2, <2>1, CallStatus
<1>5. CASE loc_eng_stop \/ loc_eng_delete_aiding_data \/ NiRequested
  BY <1>1, <1>5, CallStatus DEF loc_eng_stop, loc_eng_delete_aiding_data, NiRequested
<1> QED BY <1>3, <1>4, <1>5 DEF Framework

LEMMA FixMoves ==
  ASSUME IInv, ModemFix
  PROVE  Moved
<1>1. PICK s \in FixStatus :
        IF session = "SINGLE" /\ s # "INTERMEDIATE"
        THEN session' = "none" /\ reports' = reports \o (<<Fix(s)>> \o Ends)
        ELSE UNCHANGED session /\ reports' = Append(reports, Fix(s))
  BY DEF ModemFix
<1>2. reports \in Seq(Message) /\ Fix(s) \in Message /\ <<Fix(s)>> \in Seq(Message)
      /\ Ends \in Seq(Message)
  BY MessageType, EndsType DEF IInv, Types, QueueType
<1>3. CASE session' = "none" /\ reports' = reports \o (<<Fix(s)>> \o Ends)
  <2>1. reports \o <<Fix(s)>> \in Seq(Message)
    BY <1>2, ConcatProperties
  <2>2. reports' = (reports \o <<Fix(s)>>) \o Ends
    BY <1>2, <1>3, ConcatAssociative
  <2> QED BY <1>2, <1>3, <2>1, <2>2, EndsQuench DEF Moved
<1>4. CASE UNCHANGED session /\ reports' = Append(reports, Fix(s))
  <2>1. reports' = reports \o <<Fix(s)>>
    BY <1>2, <1>4, AppendIsConcat
  <2>2. Neutral(<<Fix(s)>>)
    BY <1>2, NeutralOne DEF Fix
  <2> QED BY <1>2, <1>4, <2>1, <2>2 DEF Moved
<1> QED BY <1>1, <1>3, <1>4

LEMMA CrashMoves ==
  ASSUME IInv, ModemCrashes
  PROVE  Moved
<1>1. PICK late \in {reports, <<>>} : reports' = Append(late, Msg("Down"))
  BY DEF ModemCrashes
<1>2. late \in Seq(Message) /\ Msg("Down") \in Message /\ Msg("Down") \in EngineOff
  BY MessageType, EmptySeq DEF IInv, Types, QueueType, EngineOff
<1>3. <<>> \in Seq(Message) /\ <<Msg("Down")>> \in Seq(Message)
      /\ <<>> \o <<Msg("Down")>> = <<Msg("Down")>>
  BY <1>2, EmptySeq, ConcatEmptySeq
<1>4. reports' = late \o <<Msg("Down")>> /\ Quenches(<<Msg("Down")>>)
  BY <1>1, <1>2, <1>3, AppendIsConcat, QuenchesLast
<1> QED BY <1>2, <1>3, <1>4 DEF Moved, ModemCrashes

LEMMA RestartMoves ==
  ASSUME IInv, ModemRestarts
  PROVE  Moved
<1>1. <<Msg("Ssr")>> \in Seq(Message) /\ <<Msg("Up")>> \in Seq(Message)
      /\ Neutral(<<Msg("Ssr")>>) /\ Neutral(<<Msg("Up")>>)
  BY MessageType, NeutralOne DEF Msg
<1>2. <<Msg("Ssr"), Msg("Up")>> = <<Msg("Ssr")>> \o <<Msg("Up")>>
  OBVIOUS
<1>3. <<Msg("Ssr"), Msg("Up")>> \in Seq(Message) /\ Neutral(<<Msg("Ssr"), Msg("Up")>>)
  BY <1>1, <1>2, NeutralTwo, ConcatProperties
<1> QED BY <1>3 DEF Moved, ModemRestarts, IInv, Types, QueueType

\* A report that becomes a message is the next to be read as before.
LEMMA ReportsStatus ==
  ASSUME IInv, StatusInv, ModemReports
  PROVE  StatusInv'
<1> DEFINE h == Head(reports)
           t == Tail(reports)
<1>1. h \in Message /\ t \in Seq(Message) /\ <<h>> \in Seq(Message) /\ queue \in Seq(Message)
  BY HeadTailProperties DEF ModemReports, IInv, Types, QueueType
<1>2. reports = <<h>> \o t
  <2>1. /\ Len(<<h>> \o t) = Len(reports)
        /\ \A k \in 1..Len(reports) : (<<h>> \o t)[k] = reports[k]
        /\ <<h>> \o t \in Seq(Message) /\ reports \in Seq(Message)
    BY <1>1, HeadTailProperties, ConcatProperties, LenProperties
       DEF ModemReports, IInv, Types, QueueType
  <2> QED BY <2>1, SeqEqual
<1>3. queue' = queue \o <<h>> /\ reports' = t
  BY <1>1, AppendIsConcat DEF ModemReports
<1>4. /\ AfterEngine(AfterEngine(EngineFlag, queue), reports)
           = AfterEngine(AfterEngine(EngineFlag, queue'), reports')
      /\ AfterMute(AfterMute(MuteFlag, queue), reports)
           = AfterMute(AfterMute(MuteFlag, queue'), reports')
  <2> HIDE DEF h, t
  <2>1. /\ AfterEngine(AfterEngine(EngineFlag, queue), <<h>> \o t)
             = AfterEngine(AfterEngine(AfterEngine(EngineFlag, queue), <<h>>), t)
        /\ AfterMute(AfterMute(MuteFlag, queue), <<h>> \o t)
             = AfterMute(AfterMute(AfterMute(MuteFlag, queue), <<h>>), t)
    BY <1>1, FlagsConcat
  <2>2. /\ AfterEngine(EngineFlag, queue \o <<h>>)
             = AfterEngine(AfterEngine(EngineFlag, queue), <<h>>)
        /\ AfterMute(MuteFlag, queue \o <<h>>) = AfterMute(AfterMute(MuteFlag, queue), <<h>>)
    BY <1>1, FlagsConcat
  <2> QED BY <1>2, <1>3, <2>1, <2>2
<1>5. UNCHANGED <<engine_status, mute_session_state, session>>
  BY DEF ModemReports, engine
<1> QED BY <1>4, <1>5
      DEF StatusInv, EngineAgrees, MuteAgrees, EngineFlag, MuteFlag, Flag, AfterEngine, AfterMute

\* A handler leaves the flags the message in hand said, or a lesser one for
\* muting, and moves the session with its reports.
Said(m) ==
  /\ EngineFlag' = AfterEngine(EngineFlag, <<m>>)
  /\ AtMost(MuteFlag', AfterMute(MuteFlag, <<m>>))
  /\ Moved

LEMMA EndsMoved ==
  ASSUME IInv, session' = "none", reports' = reports \o Ends
  PROVE  Moved
  BY EndsType, EndsQuench DEF Moved, IInv, Types, QueueType

LEMMA EndMoves == ASSUME IInv, SessionEnds PROVE Moved
<1>1. CASE session = "none"
  BY <1>1, StillMoved DEF SessionEnds, modem, IInv, Types, QueueType
<1>2. CASE session # "none"
  BY <1>2, EndsMoved DEF SessionEnds
<1> QED BY <1>1, <1>2

LEMMA BeginMoves == ASSUME IInv, SessionBegins PROVE Moved
<1>1. session' # "none"
  BY DEF SessionBegins, IInv, Types, AdapterType, Recurrence
<1> QED BY <1>1, EndsType, BeginsKindle DEF SessionBegins, Moved, IInv, Types, QueueType

LEMMA SameMoves == ASSUME IInv, UNCHANGED modem PROVE Moved
  BY StillMoved DEF modem, IInv, Types, QueueType

LEMMA ProcMoves ==
  ASSUME IInv, NEW m \in Message, Proc(m)
  PROVE  Moved
<1>1. CASE loc_eng_start_handler
  BY <1>1, BeginMoves, SameMoves DEF loc_eng_start_handler, Started, Refused
<1>2. CASE loc_eng_stop_handler
  BY <1>2, EndMoves, SameMoves DEF loc_eng_stop_handler
<1>3. CASE m.type = "PositionMode" /\ PositionMode(m.recurrence)
  <2>1. session' = "none" <=> session = "none"
    BY <1>3, MessageParts DEF PositionMode, Recurrence
  <2> QED BY <1>3, <2>1, StillMoved DEF PositionMode, IInv, Types, QueueType
<1>4. CASE \E s : ReportPosition(s)
  BY <1>4, EndMoves, SameMoves DEF ReportPosition, modem, adapter
<1>5. CASE \/ \E s : ReportStatus(s)
           \/ DelAidData \/ loc_eng_mute_one_session
           \/ loc_eng_handle_engine_down \/ loc_eng_handle_engine_up
  BY <1>5, SameMoves DEF ReportStatus, DelAidData, loc_eng_mute_one_session,
       loc_eng_handle_engine_down, loc_eng_handle_engine_up
<1>6. CASE LocSsrMsg
  <2>1. CASE session = "none"
    BY <1>6, <2>1, StillMoved DEF LocSsrMsg, IInv, Types, QueueType
  <2>2. CASE session # "none"
    BY <1>6, <2>2, EndsMoved DEF LocSsrMsg
  <2> QED BY <2>1, <2>2
<1> QED BY <1>1, <1>2, <1>3, <1>4, <1>5, <1>6 DEF Proc

\* A status, and the stand-in for one when the engine goes down.
LEMMA StatusSaid ==
  ASSUME NEW m \in Message, NEW s \in Status, EngineType, loc_eng_report_status(s),
         \/ m.type = "Status" /\ m.status = s
         \/ m.type = "Down" /\ s = "ENGINE_OFF"
  PROVE  /\ EngineFlag' = AfterEngine(EngineFlag, <<m>>)
         /\ AtMost(MuteFlag', AfterMute(MuteFlag, <<m>>))
<1>1. /\ AfterEngine(EngineFlag, <<m>>) =
           IF m \in EngineOn \/ (EngineFlag = "on" /\ m \notin EngineOff) THEN "on" ELSE "off"
      /\ AfterMute(MuteFlag, <<m>>) =
           IF m \in SessionOn \/ (MuteFlag = "on" /\ m \notin SessionOff) THEN "on" ELSE "off"
  BY AfterOne, Apart DEF AfterEngine, AfterMute
<1>2. /\ m \in EngineOn <=> s = "ENGINE_ON"
      /\ m \in EngineOff <=> s = "ENGINE_OFF"
      /\ m \in SessionOn <=> s \in {"ENGINE_ON", "SESSION_BEGIN"}
      /\ m \in SessionOff <=> s \in {"ENGINE_OFF", "SESSION_END"}
  BY Turning
<1>3. EngineFlag' = IF s = "ENGINE_ON" \/ (EngineFlag = "on" /\ s # "ENGINE_OFF")
                    THEN "on" ELSE "off"
  BY DEF loc_eng_report_status, EngineFlag, Flag, EngineType
<1>4. MuteFlag' = "on" =>
        s \in {"ENGINE_ON", "SESSION_BEGIN"}
          \/ (MuteFlag = "on" /\ s \notin {"ENGINE_OFF", "SESSION_END"})
  BY DEF loc_eng_report_status, MuteFlag, Flag, Muted, EngineType
<1> QED BY <1>1, <1>2, <1>3, <1>4 DEF AtMost

LEMMA ProcSaid ==
  ASSUME IInv, NEW m \in Message, Proc(m)
  PROVE  Said(m)
<1>1. Moved
  BY ProcMoves
<1>2. EngineType
  BY DEF IInv, Types
<1>3. CASE m.type = "Status" /\ ReportStatus(m.status)
  <2>1. m.status \in Status BY <1>3, MessageParts
  <2>2. loc_eng_report_status(m.status) BY <1>3 DEF ReportStatus
  <2> QED BY <1>1, <1>2, <1>3, <2>1, <2>2, StatusSaid DEF Said
<1>4. CASE m.type = "Down" /\ loc_eng_handle_engine_down
  BY <1>1, <1>2, <1>4, StatusSaid DEF Said, loc_eng_handle_engine_down, Status
<1>5. CASE m.type \notin {"Status", "Down"}
  <2>1. AfterEngine(EngineFlag, <<m>>) = EngineFlag /\ AfterMute(MuteFlag, <<m>>) = MuteFlag
    BY <1>5, NeutralOne, FlagsType DEF Neutral
  <2>2. engine_status' = engine_status /\ mute_session_state' \in {mute_session_state, "WAIT"}
    BY <1>5 DEF Proc, loc_eng_start_handler, loc_eng_stop_handler, PositionMode, ReportPosition,
         DelAidData, loc_eng_mute_one_session, LocSsrMsg, loc_eng_handle_engine_up, engine
  <2>3. EngineFlag' = EngineFlag /\ AtMost(MuteFlag', MuteFlag)
    BY <2>2 DEF EngineFlag, MuteFlag, Flag, AtMost
  <2> QED BY <1>1, <2>1, <2>3 DEF Said
<1> QED BY <1>3, <1>4, <1>5 DEF Proc

LEMMA MsgTaskStatus ==
  ASSUME IInv, StatusInv, MsgTask
  PROVE  StatusInv'
<1> DEFINE m == Head(queue)
           t == Tail(queue)
           sent == IF m.type = "Up" THEN Restart ELSE <<>>
           e == AfterEngine(EngineFlag, queue)
           u == AfterMute(MuteFlag, queue)
           v == AfterMute(MuteFlag', queue')
<1>1. m \in Message /\ t \in Seq(Message) /\ <<m>> \in Seq(Message) /\ queue' = t \o sent
  BY HeadTailProperties DEF MsgTask, IInv, Types, QueueType
<1>2. queue = <<m>> \o t
  <2>1. /\ Len(<<m>> \o t) = Len(queue)
        /\ \A k \in 1..Len(queue) : (<<m>> \o t)[k] = queue[k]
        /\ <<m>> \o t \in Seq(Message) /\ queue \in Seq(Message)
    BY <1>1, HeadTailProperties, ConcatProperties, LenProperties
       DEF MsgTask, IInv, Types, QueueType
  <2> QED BY <2>1, SeqEqual
<1>3. sent \in Seq(Message) /\ Neutral(sent)
  <2>1. Msg("StartFix") \in Message /\ Neutral(<<Msg("StartFix")>>)
    BY MessageType, NeutralOne DEF Msg
  <2>2. Neutral(<<>>)
    BY AfterNone DEF Neutral, AfterEngine, AfterMute, Both
  <2> QED BY <2>1, <2>2, EmptySeq DEF Restart
<1>4. Said(m)
  BY <1>1, ProcSaid DEF MsgTask
<1> HIDE DEF m, t, sent
<1>5. /\ e = AfterEngine(AfterEngine(EngineFlag, <<m>>), t)
      /\ u = AfterMute(AfterMute(MuteFlag, <<m>>), t)
  BY <1>1, <1>2, FlagsConcat
<1>6. /\ AfterEngine(EngineFlag', queue') = AfterEngine(EngineFlag', t)
      /\ v = AfterMute(MuteFlag', t)
  <2>1. /\ AfterEngine(EngineFlag', t \o sent) = AfterEngine(AfterEngine(EngineFlag', t), sent)
        /\ AfterMute(MuteFlag', t \o sent) = AfterMute(AfterMute(MuteFlag', t), sent)
    BY <1>1, <1>3, FlagsConcat
  <2>2. AfterEngine(EngineFlag', t) \in Both /\ AfterMute(MuteFlag', t) \in Both
    BY AfterFlag DEF AfterEngine, AfterMute, Both
  <2> QED BY <1>1, <1>3, <2>1, <2>2 DEF Neutral
<1>7. AfterEngine(EngineFlag', queue') = e /\ AtMost(v, u)
  <2>1. AtMost(AfterMute(MuteFlag', t), AfterMute(AfterMute(MuteFlag, <<m>>), t))
    BY <1>4, AfterAtMost DEF Said, AfterMute
  <2> QED BY <1>4, <1>5, <1>6, <2>1 DEF Said
<1>8. e \in Both /\ u \in Both /\ v \in Both
  BY AfterFlag DEF AfterEngine, AfterMute, Both
<1>9. reports \in Seq(Message) /\ Moved
  BY <1>4 DEF Said, IInv, Types, QueueType
<1>10. AfterEngine(e, reports) = Flag(session # "none")
       /\ (session = "none" => AfterMute(u, reports) = "off")
  BY DEF StatusInv, EngineAgrees, MuteAgrees
<1> HIDE DEF e, u, v
<1>11. AfterEngine(e, reports') = Flag(session' # "none")
       /\ (session' = "none" => AfterMute(v, reports') = "off")
  BY <1>7, <1>8, <1>9, <1>10, MovedKeeps
<1>12. EngineAgrees' <=> AfterEngine(AfterEngine(EngineFlag', queue'), reports') = Flag(session' # "none")
  BY DEF EngineAgrees, AfterEngine, EngineFlag, Flag
<1>13. MuteAgrees' <=>
         (session' = "none" => AfterMute(AfterMute(MuteFlag', queue'), reports') = "off")
  BY DEF MuteAgrees, AfterMute, MuteFlag, Flag
<1> QED BY <1>7, <1>11, <1>12, <1>13 DEF StatusInv, v

LEMMA NextStatus == IInv /\ StatusInv /\ [Next]_vars => StatusInv'
<1> SUFFICES ASSUME IInv, StatusInv, [Next]_vars PROVE StatusInv'
  OBVIOUS
<1>1. CASE Framework
  BY <1>1, FrameworkStatus
<1>2. CASE MsgTask
  BY <1>2, MsgTaskStatus
<1>3. CASE ModemFix \/ ModemCrashes \/ ModemRestarts
  <2>1. UNCHANGED <<queue, engine>>
    BY <1>3 DEF ModemFix, ModemCrashes, ModemRestarts
  <2> QED BY <1>3, <2>1, FixMoves, CrashMoves, RestartMoves, ModemStatus
<1>4. CASE ModemReports
  BY <1>4, ReportsStatus
<1>5. CASE UNCHANGED vars
  <2>1. UNCHANGED modem /\ UNCHANGED <<queue, engine>>
    BY <1>5 DEF vars
  <2> QED BY <2>1, SameMoves, ModemStatus
<1> QED BY <1>1, <1>2, <1>3, <1>4, <1>5 DEF Next

LEMMA SettledHere == StatusInv => StatusSettles
<1> SUFFICES ASSUME StatusInv, Quiet
             PROVE  /\ session = "none" => mute_session_state # "IN_SESSION"
                    /\ engine_status = "ENGINE_ON" <=> session # "none"
  BY DEF StatusSettles, MuteEnds, EngineKnown
<1>1. /\ AfterEngine(AfterEngine(EngineFlag, queue), reports) = EngineFlag
      /\ AfterMute(AfterMute(MuteFlag, queue), reports) = MuteFlag
  BY AfterNone, FlagsType DEF Quiet, AfterEngine, AfterMute, Both
<1>2. EngineFlag = Flag(session # "none") /\ (session = "none" => MuteFlag = "off")
  BY <1>1 DEF StatusInv, EngineAgrees, MuteAgrees
<1> QED BY <1>2 DEF EngineFlag, MuteFlag, Flag

\* Whatever crashes, late reports and restarts come between, once nothing is
\* under way the engine status is the modem's and no muting outlives its
\* session.
THEOREM StatusSafe == Spec => []StatusSettles
<1>1. Init => IInv /\ StatusInv
  BY InitHolds, StatusInit
<1>2. IInv /\ StatusInv /\ [Next]_vars => (IInv /\ StatusInv)'
  BY NextKeeps, NextStatus
<1> QED BY <1>1, <1>2, SettledHere, PTL DEF Spec

-----------------------------------------------------------------------------
(* Network-initiated requests.                                             *)

Informing == [req : Request, resp : Response]

SessionType ==
  /\ rawRequest \in [Session -> 0..MaxRequests]
  /\ reqID \in [Session -> 0..MaxRequests]
  /\ resp \in [Session -> Response] /\ respRecvd \in [Session -> BOOLEAN]

PayloadType ==
  /\ reqIDCounter \in 0..MaxRequests
  /\ msgs \in Seq(Informing)
  /\ freed \in [Request -> Nat]

ThreadType ==
  /\ thread \in [Request -> {"none", "starting", "waiting", "leaving", "gone"}]
  /\ serves \in [Request -> Session]
  /\ said \in [Request -> UserResponse \cup {"nothing", "asked"}]

\* A framework thread past its test knows a session and the user's answer, a
\* reset knows which session is next.
ActorType ==
  /\ responder = Idle
       \/ responder \in [at : {"ignoring", "setting"}, s : Session, r : UserResponse]
  /\ reset \in Seq({"free", "forget", "wake"} \X Session)
  /\ restarts \in 0..MaxRestarts

NiTypes == SessionType /\ PayloadType /\ ThreadType /\ ActorType

\* Without a restart nobody resets, and a payload is in one of three places:
\* no two sessions or messages have the same one, none is in a session and a
\* message, and a freed one is in neither.  The counter tells the requests
\* that were accepted from those to come.
InOnePlace ==
  /\ reset = <<>>
  /\ \A s \in Session : rawRequest[s] <= reqIDCounter
  /\ \A s, t \in Session : rawRequest[s] # None /\ rawRequest[s] = rawRequest[t] => s = t
  /\ \A k \in 1..Len(msgs) : msgs[k].req <= reqIDCounter
  /\ \A j, k \in 1..Len(msgs) : msgs[j].req = msgs[k].req => j = k
  /\ \A s \in Session : \A k \in 1..Len(msgs) : msgs[k].req # rawRequest[s]
  /\ \A n \in Request :
       \/ freed[n] = 0
       \/ /\ freed[n] = 1 /\ n <= reqIDCounter
          /\ \A s \in Session : rawRequest[s] # n
          /\ \A k \in 1..Len(msgs) : msgs[k].req # n

\* No accepted request is lost.
Somewhere ==
  \A n \in 1..reqIDCounter :
    \/ freed[n] = 1
    \/ \E s \in Session : rawRequest[s] = n
    \/ \E k \in 1..Len(msgs) : msgs[k].req = n

Once == restarts = 0 => InOnePlace /\ Somewhere
NiInv == NiTypes /\ Once

LEMMA NiInitHolds == NiInit => NiInv
<1> SUFFICES ASSUME NiInit PROVE NiInv
  OBVIOUS
<1> USE NiAssumption
<1>1. SessionType /\ PayloadType
  BY DEF NiInit, SessionType, PayloadType, OfEach, None, Response
<1>2. ThreadType /\ ActorType
  BY DEF NiInit, ThreadType, ActorType, Session
<1>3. InOnePlace /\ Somewhere
  BY DEF NiInit, InOnePlace, Somewhere, OfEach, None
<1> QED BY <1>1, <1>2, <1>3 DEF NiInv, NiTypes, Once

\* Steps that leave the payloads where they are.
LEMMA PayloadsStay ==
  ASSUME Once, UNCHANGED <<rawRequest, reqIDCounter, msgs, freed, reset, restarts>>
  PROVE  Once'
  BY DEF Once, InOnePlace, Somewhere

LEMMA InformsOfOne ==
  ASSUME NEW q \in Seq(Informing), NEW k \in 1..Len(q)
  PROVE  q[k].req \in Request /\ q[k].req \in Nat /\ q[k].req # None
<1>1. q[k] \in Informing
  BY ElementOfSeq
<1> QED BY <1>1 DEF Informing, Request, None

LEMMA AcceptedAreRequests ==
  ASSUME PayloadType, NEW n \in 1..reqIDCounter
  PROVE  n \in Request /\ n # None
  BY NiAssumption DEF PayloadType, Request, None

-----------------------------------------------------------------------------
(* The MsgTask thread.                                                     *)

\* A request is accepted into a session that has none, under a new number.
LEMMA RequestKeeps ==
  ASSUME NiInv, NEW s \in Session, NiRequest(s)
  PROVE  NiInv'
<1> DEFINE n == reqIDCounter + 1
<1> USE NiAssumption
<1>1. n \in Request /\ reqIDCounter' = n /\ reqIDCounter \in Nat /\ rawRequest[s] = None
  BY DEF NiRequest, Busy, NiInv, NiTypes, PayloadType, Request
<1>2. /\ rawRequest' = [rawRequest EXCEPT ![s] = n]
      /\ reqID' = [reqID EXCEPT ![s] = n]
      /\ thread' = [thread EXCEPT ![n] = "starting"]
      /\ serves' = [serves EXCEPT ![n] = s]
      /\ said' = [said EXCEPT ![n] = "asked"]
      /\ UNCHANGED <<resp, respRecvd, msgs, freed, responder, reset, restarts>>
  BY DEF NiRequest
<1>3. SessionType'
  BY <1>1, <1>2 DEF NiInv, NiTypes, SessionType, Request
<1>4. PayloadType'
  BY <1>1, <1>2 DEF NiInv, NiTypes, PayloadType, Request
<1>5. ThreadType' /\ ActorType'
  BY <1>1, <1>2 DEF NiInv, NiTypes, ThreadType, ActorType
<1>6. ASSUME restarts = 0 PROVE InOnePlace' /\ Somewhere'
  <2>1. InOnePlace /\ Somewhere
    BY <1>6 DEF NiInv, Once
  <2>2. \A t \in Session : rawRequest'[t] = IF t = s THEN n ELSE rawRequest[t]
    BY <1>2 DEF NiInv, NiTypes, SessionType
  <2>3. \A t \in Session : rawRequest[t] \in Nat /\ rawRequest[t] <= reqIDCounter
    BY <2>1 DEF InOnePlace, NiInv, NiTypes, SessionType
  <2>4. \A k \in 1..Len(msgs) : msgs[k].req \in Nat \ {0} /\ msgs[k].req <= reqIDCounter
    BY <2>1, InformsOfOne DEF InOnePlace, NiInv, NiTypes, PayloadType, None
  <2>5. InOnePlace'
    <3>1. \A t \in Session : rawRequest'[t] <= reqIDCounter'
      BY <1>1, <2>2, <2>3
    <3>2. \A t, t2 \in Session : rawRequest'[t] # None /\ rawRequest'[t] = rawRequest'[t2] => t = t2
      BY <1>1, <2>1, <2>2, <2>3 DEF InOnePlace
    <3>3. \A k \in 1..Len(msgs) : msgs[k].req <= reqIDCounter'
      BY <1>1, <2>4
    <3>4. \A t \in Session : \A k \in 1..Len(msgs) : msgs[k].req # rawRequest'[t]
      BY <1>1, <2>1, <2>2, <2>4 DEF InOnePlace
    <3>5. \A i \in Request :
            \/ freed[i] = 0
            \/ /\ freed[i] = 1 /\ i <= reqIDCounter'
               /\ \A t \in Session : rawRequest'[t] # i
               /\ \A k \in 1..Len(msgs) : msgs[k].req # i
      BY <1>1, <2>1, <2>2, <2>3 DEF InOnePlace, Request
    <3> QED BY <1>2, <2>1, <3>1, <3>2, <3>3, <3>4, <3>5 DEF InOnePlace
  <2>6. Somewhere'
    <3> SUFFICES ASSUME NEW i \in 1..n
                 PROVE  \/ freed[i] = 1
                        \/ \E t \in Session : rawRequest'[t] = i
                        \/ \E k \in 1..Len(msgs) : msgs[k].req = i
      BY <1>1, <1>2 DEF Somewhere
    <3>1. CASE i = n
      BY <2>2, <3>1
    <3>2. CASE i # n
      <4>1. i \in 1..reqIDCounter BY <1>1, <3>2
      <4>2. i # 0 BY <4>1
      <4> QED BY <1>1, <2>1, <2>2, <4>1, <4>2 DEF Somewhere, None
    <3> QED BY <3>1, <3>2
  <2> QED BY <2>5, <2>6
<1> QED BY <1>2, <1>3, <1>4, <1>5, <1>6 DEF NiInv, NiTypes, Once

\* The message that leaves the queue frees its payload.
LEMMA InformKeeps ==
  ASSUME NiInv, Inform
  PROVE  NiInv'
<1> DEFINE h == Head(msgs).req
<1>1. /\ Head(msgs) \in Informing /\ Tail(msgs) \in Seq(Informing)
      /\ Len(msgs) \in Nat /\ Len(msgs) >= 1 /\ Len(Tail(msgs)) = Len(msgs) - 1
      /\ \A k \in 1..Len(Tail(msgs)) : Tail(msgs)[k] = msgs[k + 1]
      /\ Head(msgs) = msgs[1]
  BY HeadTailProperties, EmptySeq DEF Inform, NiInv, NiTypes, PayloadType
<1>2. h \in Request /\ h = msgs[1].req
  BY <1>1 DEF Informing
<1>3. /\ msgs' = Tail(msgs) /\ freed' = [freed EXCEPT ![h] = @ + 1]
      /\ UNCHANGED <<niSession, reqIDCounter, thread, serves, said, responder, reset, restarts>>
  BY DEF Inform, Free
<1>4. SessionType' /\ ThreadType' /\ ActorType'
  BY <1>3 DEF NiInv, NiTypes, SessionType, ThreadType, ActorType, niSession
<1>5. PayloadType'
  BY <1>1, <1>2, <1>3 DEF NiInv, NiTypes, PayloadType
<1>6. ASSUME restarts = 0 PROVE InOnePlace' /\ Somewhere'
  <2>1. InOnePlace /\ Somewhere
    BY <1>6 DEF NiInv, Once
  <2>2. \A k \in 1..Len(msgs') : k + 1 \in 1..Len(msgs) /\ msgs'[k] = msgs[k + 1] /\ k + 1 # 1
    BY <1>1, <1>3
  <2>3. \A k \in 1..Len(msgs') : msgs'[k].req # h
    BY <1>1, <1>2, <2>1, <2>2 DEF InOnePlace
  <2>4. \A n \in Request : freed'[n] = IF n = h THEN freed[h] + 1 ELSE freed[n]
    BY <1>2, <1>3 DEF NiInv, NiTypes, PayloadType
  <2>5. freed[h] = 0 /\ h <= reqIDCounter /\ \A s \in Session : rawRequest[s] # h
    BY <1>1, <1>2, <2>1 DEF InOnePlace
  <2>6. rawRequest' = rawRequest /\ reqIDCounter' = reqIDCounter /\ reset' = reset
    BY <1>3 DEF niSession
  <2>7. InOnePlace'
    <3>1. \A j, k \in 1..Len(msgs') : msgs'[j].req = msgs'[k].req => j = k
      <4> TAKE j, k \in 1..Len(msgs')
      <4>1. msgs[j + 1].req = msgs[k + 1].req => j + 1 = k + 1
        BY <2>1, <2>2 DEF InOnePlace
      <4> QED BY <2>2, <4>1
    <3>2. \A k \in 1..Len(msgs') : msgs'[k].req <= reqIDCounter
      BY <2>1, <2>2 DEF InOnePlace
    <3>3. \A s \in Session : \A k \in 1..Len(msgs') : msgs'[k].req # rawRequest[s]
      BY <2>1, <2>2 DEF InOnePlace
    <3>4. \A n \in Request :
            \/ freed'[n] = 0
            \/ /\ freed'[n] = 1 /\ n <= reqIDCounter
               /\ \A s \in Session : rawRequest[s] # n
               /\ \A k \in 1..Len(msgs') : msgs'[k].req # n
      BY <2>1, <2>2, <2>3, <2>4, <2>5 DEF InOnePlace
    <3> QED BY <2>1, <2>6, <3>1, <3>2, <3>3, <3>4 DEF InOnePlace
  <2>8. Somewhere'
    <3> SUFFICES ASSUME NEW n \in 1..reqIDCounter
                 PROVE  \/ freed'[n] = 1
                        \/ \E s \in Session : rawRequest[s] = n
                        \/ \E k \in 1..Len(msgs') : msgs'[k].req = n
      BY <2>6 DEF Somewhere
    <3>1. n \in Request
      BY AcceptedAreRequests DEF NiInv, NiTypes
    <3>2. CASE n = h
      BY <1>2, <2>4, <2>5, <3>2
    <3>3. CASE n # h
      <4>1. CASE \E k \in 1..Len(msgs) : msgs[k].req = n
        <5>1. PICK k \in 1..Len(msgs) : msgs[k].req = n
          BY <4>1
        <5>2. k # 1
          BY <1>2, <3>3, <5>1
        <5>3. k - 1 \in 1..Len(msgs') /\ msgs'[k - 1] = msgs[k]
          BY <1>1, <1>3, <5>2
        <5> QED BY <5>1, <5>3
      <4>2. CASE ~\E k \in 1..Len(msgs) : msgs[k].req = n
        BY <2>1, <2>4, <3>1, <3>3, <4>2 DEF Somewhere
      <4> QED BY <4>1, <4>2
    <3> QED BY <3>2, <3>3
  <2> QED BY <2>7, <2>8
<1> QED BY <1>3, <1>4, <1>5, <1>6 DEF NiInv, NiTypes, Once

\* A restart gives up the promise, and a reset is always one's part.
LEMMA ResetIsRestart ==
  ASSUME NiInv, reset # <<>>
  PROVE  restarts # 0
  BY DEF NiInv, Once, InOnePlace

LEMMA ResetKeeps ==
  ASSUME NiInv, EngineRestart \/ ResetFree \/ ResetForget \/ ResetWake
  PROVE  NiInv'
<1> USE NiAssumption
<1> DEFINE Todo == {"free", "forget", "wake"} \X Session
<1>0. reset \in Seq(Todo) /\ restarts \in 0..MaxRestarts
  BY DEF NiInv, NiTypes, ActorType
<1>1. CASE EngineRestart
  <2>1. restarts' # 0 /\ restarts' \in 0..MaxRestarts
    BY <1>0, <1>1 DEF EngineRestart
  <2>2. reset' \in Seq(Todo)
    BY <1>1 DEF EngineRestart, Session
  <2>3. NiTypes'
    BY <1>1, <2>1, <2>2 DEF EngineRestart, NiInv, NiTypes, SessionType, PayloadType, ThreadType,
         ActorType, niSession
  <2> QED BY <2>1, <2>3 DEF NiInv, Once
<1>2. ASSUME reset # <<>>
      PROVE  /\ reset[1] \in Todo /\ reset[1][2] \in Session /\ Tail(reset) \in Seq(Todo)
             /\ restarts # 0
  <2>1. Head(reset) \in Todo /\ Tail(reset) \in Seq(Todo) /\ Head(reset) = reset[1]
    BY <1>0, <1>2, HeadTailProperties
  <2>2. reset[1][2] \in Session
    BY <2>1
  <2> QED BY <1>2, <2>1, <2>2, ResetIsRestart
<1>3. CASE ResetFree
  <2>1. reset # <<>> BY <1>3 DEF ResetFree, ResetIs
  <2> DEFINE s == reset[1][2]
  <2>2. s \in Session /\ Tail(reset) \in Seq(Todo)
    BY <1>2, <2>1
  <2> HIDE DEF s
  <2>3. reset' \in {Tail(reset), << <<"forget", s>>, <<"wake", s>> >> \o Tail(reset)}
        /\ freed' \in {freed, [freed EXCEPT ![rawRequest[s]] = @ + 1]}
        /\ UNCHANGED <<niSession, reqIDCounter, thread, serves, msgs, said, responder, restarts>>
    BY <1>3 DEF ResetFree, Free, s
  <2>4. << <<"forget", s>>, <<"wake", s>> >> \in Seq(Todo)
    BY <2>2
  <2>5. reset' \in Seq(Todo)
    <3>1. << <<"forget", s>>, <<"wake", s>> >> \o Tail(reset) \in Seq(Todo)
      BY <2>2, <2>4, ConcatProperties
    <3> QED BY <2>2, <2>3, <3>1
  <2>6. freed' \in [Request -> Nat]
    <3>1. \A n \in Request : freed[n] + 1 \in Nat
      BY DEF NiInv, NiTypes, PayloadType
    <3> QED BY <2>3, <3>1 DEF NiInv, NiTypes, PayloadType
  <2>7. NiTypes'
    BY <2>3, <2>5, <2>6 DEF NiInv, NiTypes, SessionType, PayloadType, ThreadType, ActorType, niSession
  <2> QED BY <1>2, <2>1, <2>3, <2>7 DEF NiInv, Once
<1>4. CASE ResetForget
  <2>1. reset # <<>> BY <1>4 DEF ResetForget, ResetIs
  <2>2. NiTypes'
    BY <1>2, <1>4, <2>1 DEF ResetForget, None, NiInv, NiTypes, SessionType, PayloadType, ThreadType,
         ActorType
  <2> QED BY <1>2, <1>4, <2>1, <2>2 DEF ResetForget, NiInv, Once
<1>5. CASE ResetWake
  <2>1. reset # <<>> BY <1>5 DEF ResetWake, ResetIs
  <2>2. respRecvd' \in [Session -> BOOLEAN]
    BY <1>2, <1>5, <2>1 DEF ResetWake, NiInv, NiTypes, SessionType
  <2>3. NiTypes'
    BY <1>2, <1>5, <2>1, <2>2 DEF ResetWake, NiInv, NiTypes, SessionType, PayloadType, ThreadType,
         ActorType
  <2> QED BY <1>2, <1>5, <2>1, <2>3 DEF ResetWake, NiInv, Once
<1> QED BY <1>1, <1>3, <1>4, <1>5

-----------------------------------------------------------------------------
(* The framework thread: it never touches a payload.                       *)

LEMMA AnswerType ==
  ASSUME SessionType, NEW s \in Session, NEW r \in Response, Answer(s, r),
         UNCHANGED <<rawRequest, reqID>>
  PROVE  SessionType'
<1>1. resp' \in [Session -> Response]
  BY DEF Answer, SessionType
<1>2. respRecvd' \in [Session -> BOOLEAN]
  BY DEF Answer, SessionType
<1> QED BY <1>1, <1>2 DEF SessionType

LEMMA RespondKeeps ==
  ASSUME NiInv, NEW n \in Request, NEW r \in UserResponse, Respond(n, r)
  PROVE  NiInv'
<1>1. said' \in [Request -> UserResponse \cup {"nothing", "asked"}]
  BY DEF Respond, NiInv, NiTypes, ThreadType
<1>2. responder' = Idle
        \/ responder' \in [at : {"ignoring", "setting"}, s : Session, r : UserResponse]
  BY DEF Respond, Session
<1>3. NiTypes'
  BY <1>1, <1>2 DEF Respond, NiInv, NiTypes, SessionType, PayloadType, ThreadType, ActorType, niSession
<1> QED BY <1>3, PayloadsStay DEF Respond, niSession, NiInv

LEMMA RespondingKeeps ==
  ASSUME NiInv, RespondIgnores \/ RespondSets
  PROVE  NiInv'
<1>1. responder \in [at : {"ignoring", "setting"}, s : Session, r : UserResponse]
  BY DEF RespondIgnores, RespondSets, Idle, NiInv, NiTypes, ActorType
<1>2. /\ UNCHANGED <<rawRequest, reqID, reqIDCounter, thread, serves, msgs, freed, said, reset,
                     restarts>>
      /\ responder' = Idle \/ responder' = [responder EXCEPT !.at = "setting"]
  BY DEF RespondIgnores, RespondSets
<1>3. SessionType'
  BY <1>1, <1>2, AnswerType DEF RespondIgnores, RespondSets, Session, Response, NiInv, NiTypes
<1>4. responder' = Idle
        \/ responder' \in [at : {"ignoring", "setting"}, s : Session, r : UserResponse]
  BY <1>1, <1>2
<1>5. NiTypes'
  BY <1>2, <1>3, <1>4 DEF NiInv, NiTypes, PayloadType, ThreadType, ActorType
<1> QED BY <1>2, <1>5, PayloadsStay DEF NiInv

-----------------------------------------------------------------------------
(* The thread of a request.                                                *)

\* The payload of the session, if there is one, goes into a message or is
\* freed.
LEMMA TakeKeeps ==
  ASSUME NiInv, NEW s \in Session, NEW r \in Response, TakeRequest(s, r),
         UNCHANGED <<reqIDCounter, reset, restarts>>
  PROVE  /\ rawRequest' \in [Session -> 0..MaxRequests]
         /\ PayloadType' /\ Once'
<1> USE NiAssumption
<1> DEFINE n == rawRequest[s]
<1>1. /\ rawRequest' = [rawRequest EXCEPT ![s] = None]
      /\ n \in 0..MaxRequests
  BY DEF TakeRequest, NiInv, NiTypes, SessionType
<1>2. /\ rawRequest' \in [Session -> 0..MaxRequests]
      /\ \A t \in Session : rawRequest'[t] = IF t = s THEN None ELSE rawRequest[t]
  BY <1>1 DEF NiInv, NiTypes, SessionType, None
<1>3. CASE n = None
  <2>1. UNCHANGED <<msgs, freed>>
    BY <1>3 DEF TakeRequest
  <2>2. rawRequest' = rawRequest
    BY <1>1, <1>3 DEF NiInv, NiTypes, SessionType
  <2> QED BY <1>2, <2>1, <2>2, PayloadsStay DEF NiInv, NiTypes, PayloadType
<1>4. CASE n # None /\ r = "IGNORE"
  <2>1. freed' = [freed EXCEPT ![n] = @ + 1] /\ msgs' = msgs /\ n \in Request
    BY <1>1, <1>4 DEF TakeRequest, Free, Request, None
  <2>2. \A i \in Request : freed'[i] = IF i = n THEN freed[n] + 1 ELSE freed[i]
    BY <2>1 DEF NiInv, NiTypes, PayloadType
  <2>3. PayloadType'
    BY <2>1 DEF NiInv, NiTypes, PayloadType
  <2>4. ASSUME restarts = 0 PROVE InOnePlace' /\ Somewhere'
    <3>1. InOnePlace /\ Somewhere
      BY <2>4 DEF NiInv, Once
    <3>2. freed[n] = 0 /\ n <= reqIDCounter /\ \A k \in 1..Len(msgs) : msgs[k].req # n
      BY <2>1, <3>1 DEF InOnePlace
    <3>3. \A t \in Session : rawRequest'[t] # n /\ rawRequest'[t] <= reqIDCounter
      BY <1>2, <1>4, <3>1 DEF InOnePlace, None, NiInv, NiTypes, PayloadType
    <3>4. \A k \in 1..Len(msgs) : msgs[k].req # None
      BY InformsOfOne DEF NiInv, NiTypes, PayloadType
    <3>5. InOnePlace'
      <4>1. \A t \in Session : \A k \in 1..Len(msgs) : msgs[k].req # rawRequest'[t]
        BY <1>2, <3>1, <3>4 DEF InOnePlace
      <4>2. \A t, t2 \in Session : rawRequest'[t] # None /\ rawRequest'[t] = rawRequest'[t2] => t = t2
        BY <1>2, <3>1 DEF InOnePlace
      <4>3. \A i \in Request :
              \/ freed'[i] = 0
              \/ /\ freed'[i] = 1 /\ i <= reqIDCounter
                 /\ \A t \in Session : rawRequest'[t] # i
                 /\ \A k \in 1..Len(msgs) : msgs[k].req # i
        BY <1>2, <2>2, <3>1, <3>2, <3>3 DEF InOnePlace, Request, None
      <4> QED BY <2>1, <3>1, <3>3, <4>1, <4>2, <4>3 DEF InOnePlace
    <3>6. Somewhere'
      <4> SUFFICES ASSUME NEW i \in 1..reqIDCounter
                   PROVE  \/ freed'[i] = 1
                          \/ \E t \in Session : rawRequest'[t] = i
                          \/ \E k \in 1..Len(msgs) : msgs[k].req = i
        BY <2>1 DEF Somewhere
      <4>1. i \in Request
        BY AcceptedAreRequests DEF NiInv, NiTypes
      <4>2. CASE i = n
        BY <2>1, <2>2, <3>2, <4>2
      <4>3. CASE i # n
        BY <1>2, <2>2, <3>1, <4>1, <4>3 DEF Somewhere
      <4> QED BY <4>2, <4>3
    <3> QED BY <3>5, <3>6
  <2> QED BY <1>2, <2>3, <2>4 DEF Once
<1>5. CASE n # None /\ r # "IGNORE"
  <2> DEFINE m == [req |-> n, resp |-> r]
  <2>1. msgs' = Append(msgs, m) /\ freed' = freed /\ n \in Request /\ m \in Informing
    BY <1>1, <1>5 DEF TakeRequest, Request, None, Informing
  <2>2. /\ msgs' \in Seq(Informing) /\ Len(msgs') = Len(msgs) + 1 /\ Len(msgs) \in Nat
        /\ \A k \in 1..Len(msgs) : msgs'[k] = msgs[k]
        /\ msgs'[Len(msgs) + 1].req = n
    <3>1. msgs'[Len(msgs) + 1] = m
      BY <2>1, AppendProperties DEF NiInv, NiTypes, PayloadType
    <3> QED BY <2>1, <3>1, AppendProperties, LenProperties DEF NiInv, NiTypes, PayloadType
  <2>3. PayloadType'
    BY <2>1, <2>2 DEF NiInv, NiTypes, PayloadType
  <2>4. ASSUME restarts = 0 PROVE InOnePlace' /\ Somewhere'
    <3>1. InOnePlace /\ Somewhere
      BY <2>4 DEF NiInv, Once
    <3>2. freed[n] = 0 /\ n <= reqIDCounter /\ \A k \in 1..Len(msgs) : msgs[k].req # n
      BY <2>1, <3>1 DEF InOnePlace
    <3>3. \A t \in Session : rawRequest'[t] # n /\ rawRequest'[t] <= reqIDCounter
      BY <1>2, <1>5, <3>1 DEF InOnePlace, None, NiInv, NiTypes, PayloadType
    <3>4. \A k \in 1..Len(msgs') : msgs'[k].req # None
      BY <2>2, InformsOfOne
    <3>5. \A k \in 1..Len(msgs') :
            \/ k \in 1..Len(msgs) /\ msgs'[k].req = msgs[k].req /\ msgs'[k].req # n
            \/ k = Len(msgs) + 1 /\ msgs'[k].req = n
      BY <2>2, <3>2
    <3>6. InOnePlace'
      <4>1. \A j, k \in 1..Len(msgs') : msgs'[j].req = msgs'[k].req => j = k
        BY <3>1, <3>5 DEF InOnePlace
      <4>2. \A k \in 1..Len(msgs') : msgs'[k].req <= reqIDCounter
        BY <3>1, <3>2, <3>5 DEF InOnePlace
      <4>3. \A t \in Session : \A k \in 1..Len(msgs') : msgs'[k].req # rawRequest'[t]
        BY <1>2, <3>1, <3>3, <3>4, <3>5 DEF InOnePlace
      <4>4. \A i \in Request :
              \/ freed[i] = 0
              \/ /\ freed[i] = 1 /\ i <= reqIDCounter
                 /\ \A t \in Session : rawRequest'[t] # i
                 /\ \A k \in 1..Len(msgs') : msgs'[k].req # i
        BY <1>2, <3>1, <3>2, <3>5 DEF InOnePlace, Request, None
      <4>5. \A t, t2 \in Session : rawRequest'[t] # None /\ rawRequest'[t] = rawRequest'[t2] => t = t2
        BY <1>2, <3>1 DEF InOnePlace
      <4> QED BY <2>1, <3>1, <3>3, <4>1, <4>2, <4>3, <4>4, <4>5 DEF InOnePlace
    <3>7. Somewhere'
      <4> SUFFICES ASSUME NEW i \in 1..reqIDCounter
                   PROVE  \/ freed[i] = 1
                          \/ \E t \in Session : rawRequest'[t] = i
                          \/ \E k \in 1..Len(msgs') : msgs'[k].req = i
        BY <2>1 DEF Somewhere
      <4>1. CASE i = n
        BY <2>2, <4>1
      <4>2. CASE i # n
        <5>1. \A k \in 1..Len(msgs) : k \in 1..Len(msgs') /\ msgs'[k] = msgs[k]
          BY <2>2
        <5> QED BY <1>2, <3>1, <4>2, <5>1 DEF Somewhere
      <4> QED BY <4>1, <4>2
    <3> QED BY <3>6, <3>7
  <2> QED BY <1>2, <2>3, <2>4 DEF Once
<1> QED BY <1>3, <1>4, <1>5

LEMMA FinishKeeps ==
  ASSUME NiInv, NEW n \in Request, NEW r \in Response, Finish(n, r),
         UNCHANGED <<reqID, reqIDCounter, serves, said, responder, reset, restarts>>
  PROVE  NiInv'
<1>1. serves[n] \in Session
  BY DEF NiInv, NiTypes, ThreadType
<1>2. rawRequest' \in [Session -> 0..MaxRequests] /\ PayloadType' /\ Once'
  BY <1>1, TakeKeeps DEF Finish
<1>3. resp' \in [Session -> Response]
  BY <1>1 DEF Finish, NiInv, NiTypes, SessionType
<1>4. respRecvd' \in [Session -> BOOLEAN]
  BY <1>1 DEF Finish, NiInv, NiTypes, SessionType
<1>5. thread' \in [Request -> {"none", "starting", "waiting", "leaving", "gone"}]
  BY DEF Finish, NiInv, NiTypes, ThreadType
<1> QED BY <1>2, <1>3, <1>4, <1>5 DEF NiInv, NiTypes, SessionType, ThreadType, ActorType

LEMMA NiThreadKeeps ==
  ASSUME NiInv, NEW n \in Request, NiThread(n)
  PROVE  NiInv'
<1>1. serves[n] \in Session
  BY DEF NiInv, NiTypes, ThreadType
<1>2. CASE Waits(n)
  <2>1. NiTypes'
    BY <1>2 DEF Waits, NiInv, NiTypes, SessionType, PayloadType, ThreadType, ActorType, niSession
  <2> QED BY <1>2, <2>1, PayloadsStay DEF Waits, niSession, NiInv
<1>3. CASE Responded(n)
  <2>1. resp[serves[n]] \in Response
    BY <1>1 DEF NiInv, NiTypes, SessionType
  <2> QED BY <1>3, <2>1, FinishKeeps DEF Responded
<1>4. CASE TimedOut(n)
  BY <1>4, FinishKeeps DEF TimedOut, Response
<1>5. CASE Leaves(n)
  <2>1. reqID' \in [Session -> 0..MaxRequests]
    BY <1>1, <1>5, NiAssumption DEF Leaves, NiInv, NiTypes, SessionType, None
  <2>2. NiTypes'
    BY <1>5, <2>1 DEF Leaves, NiInv, NiTypes, SessionType, PayloadType, ThreadType, ActorType
  <2> QED BY <1>5, <2>2, PayloadsStay DEF Leaves, NiInv
<1> QED BY <1>2, <1>3, <1>4, <1>5 DEF NiThread

LEMMA NiStep == NiInv /\ [NiNext]_niVars => NiInv'
<1> SUFFICES ASSUME NiInv, [NiNext]_niVars PROVE NiInv'
  OBVIOUS
<1>1. CASE UNCHANGED niVars
  <2>1. NiTypes'
    BY <1>1 DEF niVars, niSession, NiInv, NiTypes, SessionType, PayloadType, ThreadType, ActorType
  <2> QED BY <1>1, <2>1, PayloadsStay DEF niVars, niSession, NiInv
<1>2. CASE NiNext
  BY <1>2, RequestKeeps, InformKeeps, ResetKeeps, RespondKeeps, RespondingKeeps, NiThreadKeeps
     DEF NiNext, MsgTaskStep
<1> QED BY <1>1, <1>2

\* To be in one place is to be counted once.
LEMMA CountedOnce ==
  ASSUME NiInv, restarts = 0, NEW n \in 1..reqIDCounter
  PROVE  Places(n) = 1
<1> DEFINE InSession == {s \in Session : rawRequest[s] = n}
           InMessage == {k \in DOMAIN msgs : msgs[k].req = n}
<1>1. n \in Request /\ n # None /\ DOMAIN msgs = 1..Len(msgs)
  BY AcceptedAreRequests, LenProperties DEF NiInv, NiTypes, PayloadType
<1>2. InOnePlace /\ Somewhere
  BY DEF NiInv, Once
<1>3. Cardinality({}) = 0 /\ \A x : Cardinality({x}) = 1
  BY FS_EmptySet, FS_Singleton
<1>0. Places(n) = Cardinality(InSession) + Cardinality(InMessage) + freed[n]
  BY DEF Places
<1>4. CASE freed[n] = 1
  <2>1. InSession = {} /\ InMessage = {}
    BY <1>1, <1>2, <1>4 DEF InOnePlace
  <2> HIDE DEF InSession, InMessage
  <2>2. Cardinality(InSession) = 0 /\ Cardinality(InMessage) = 0
    BY <1>3, <2>1
  <2> QED BY <1>0, <1>4, <2>2
<1>5. CASE \E s \in Session : rawRequest[s] = n
  <2>1. PICK s \in Session : rawRequest[s] = n
    BY <1>5
  <2>2. InSession = {s} /\ InMessage = {} /\ freed[n] = 0
    BY <1>1, <1>2, <2>1 DEF InOnePlace
  <2> HIDE DEF InSession, InMessage
  <2>3. Cardinality(InSession) = 1 /\ Cardinality(InMessage) = 0
    BY <1>3, <2>2
  <2> QED BY <1>0, <2>2, <2>3
<1>6. CASE \E k \in 1..Len(msgs) : msgs[k].req = n
  <2>1. PICK k \in 1..Len(msgs) : msgs[k].req = n
    BY <1>6
  <2>2. InSession = {} /\ InMessage = {k} /\ freed[n] = 0
    BY <1>1, <1>2, <2>1 DEF InOnePlace
  <2> HIDE DEF InSession, InMessage
  <2>3. Cardinality(InSession) = 0 /\ Cardinality(InMessage) = 1
    BY <1>3, <2>2
  <2> QED BY <1>0, <2>2, <2>3
<1> QED BY <1>2, <1>4, <1>5, <1>6 DEF Somewhere

\* What the modem was told came from a message.
ToldType == told \in [Request -> Response \cup {"nothing"}]

LEMMA ToldStep ==
  ASSUME NiInv, ToldType, [NiNext]_niVars
  PROVE  ToldType'
<1>1. CASE Inform
  <2>1. msgs \in Seq(Informing) /\ msgs # << >>
    BY <1>1 DEF Inform, NiInv, NiTypes, PayloadType
  <2>2. Head(msgs) \in Informing
    BY <2>1
  <2>3. Head(msgs).resp \in Response
    BY <2>2 DEF Informing
  <2>4. told' = [told EXCEPT ![Head(msgs).req] = Head(msgs).resp]
    BY <1>1 DEF Inform
  <2> QED BY <2>3, <2>4 DEF ToldType
<1>2. CASE UNCHANGED told
  BY <1>2 DEF ToldType
<1>3. (\E s \in Session : NiRequest(s)) \/ EngineRestart \/ ResetFree \/ ResetForget
        \/ ResetWake \/ RespondIgnores \/ RespondSets \/ UNCHANGED niVars
        => UNCHANGED told
  BY DEF NiRequest, EngineRestart, ResetFree, ResetForget, ResetWake, RespondIgnores,
         RespondSets, niVars
<1>4. (\E n \in Request, r \in UserResponse : Respond(n, r)) => UNCHANGED told
  BY DEF Respond
<1>5. (\E n \in Request : NiThread(n)) => UNCHANGED told
  BY DEF NiThread, Waits, Responded, TimedOut, Leaves
<1> QED BY <1>1, <1>2, <1>3, <1>4, <1>5 DEF NiNext, MsgTaskStep

LEMMA NiSoundHere == NiInv /\ ToldType => PayloadSound
<1> SUFFICES ASSUME NiInv, ToldType PROVE PayloadSound
  OBVIOUS
<1>1. PayloadOnce
  BY CountedOnce DEF PayloadOnce
<1>2. responder.at \in {"idle", "ignoring", "setting"}
  BY DEF NiInv, NiTypes, ActorType, Idle
<1>3. NiTypeOK
  BY <1>2 DEF NiInv, NiTypes, SessionType, PayloadType, ThreadType, ActorType, Informing,
              ToldType, NiTypeOK
<1> QED BY <1>1, <1>3 DEF PayloadSound

\* However requests, answers and timeouts interleave, every payload the modem
\* handed over is in a session, in one message, or freed once.
THEOREM PayloadSafe == NiSpec => []PayloadSound
<1>1. NiInit => ToldType
  BY DEF NiInit, ToldType
<1> QED BY <1>1, NiInitHolds, NiStep, ToldStep, NiSoundHere, PTL DEF NiSpec
=============================================================================
