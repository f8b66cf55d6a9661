-------------------------------- MODULE Ulp ---------------------------------
(***************************************************************************)
(* The ULP proxy between the HAL and the engine (UlpProxyBase.h;           *)
(* setUlpProxy, the reports and LocInternalAdapter of LocEngAdapter;       *)
(* loc_eng_start, loc_eng_stop, loc_eng_set_position_mode,                 *)
(* loc_eng_cleanup).  Until the ULP library hands over its own proxy, and  *)
(* again when it hands over NULL, a base proxy stands in: it records the   *)
(* mode and whether a fix is wanted, and lets the HAL send its message to  *)
(* the engine.  The library's proxy overrides those methods: it takes the  *)
(* call, records nothing in the base's fields, and sends the engine the    *)
(* same messages through LocInternalAdapter.                               *)
(*                                                                         *)
(* The HAL's threads and the engine's read the pointer mUlp and then call  *)
(* on it, two steps, while the message task replaces and deletes the       *)
(* proxy.  What a deleted proxy does is undefined: the call may be lost or *)
(* not, and `stale' is set.                                                *)
(***************************************************************************)
EXTENDS Naturals, Sequences

CONSTANTS
  UlpProxy,      \* the proxies the ULP library may hand over
  LocPosMode,    \* the position modes
  MaxBases,      \* bound on the times NULL is handed over
  MaxHalCalls, MaxReports

VARIABLES
  mUlp,          \* the proxy installed
  proxies,       \* of each proxy built: whether it lives, and what it was told
  hal, eng,      \* what the HAL's and the engine's thread are about to call on
  tasks,         \* the queue of the message task
  mNavigating, mFixCriteria,  \* the engine's session, as in LocEngSession
  wanted, asked, \* what the framework last asked for
  swapped,       \* one of the library's proxies has been replaced
  stale,         \* a deleted proxy was used
  late,          \* a session was cleaned up while its start was still queued
  halCalls, reported, delivered

ulpVars == <<mUlp, proxies, hal, eng, tasks, mNavigating, mFixCriteria,
          wanted, asked, swapped, stale, late, halCalls, reported, delivered>>
session   == <<mNavigating, mFixCriteria>>
framework == <<wanted, asked, late, halCalls>>

INVALID == "LOC_POSITION_MODE_INVALID"
NotCalling == [call |-> "idle"]
NULL == <<"NULL", 0>>

Base(n) == <<"UlpProxyBase", n>>
Bases   == {Base(n) : n \in 0..MaxBases}
New     == [mPosMode |-> INVALID, mFixSet |-> FALSE, state |-> "new"]

\* LOC_POSITION_MODE_INVALID is no mode; a library's proxy is neither NULL nor
\* one of the bases, and the adapter makes one of these when it is made.
ASSUME UlpAssumption ==
  /\ INVALID \notin LocPosMode /\ MaxBases \in Nat
  /\ NULL \notin UlpProxy /\ UlpProxy \cap Bases = {}

IsBase(p) == p \in Bases
Alive(p)  == proxies[p].state # "deleted"

Mode(m)     == [kind |-> "LocEngPositionMode", mode |-> m]
StartFix    == [kind |-> "LocEngStartFix"]
StopFix     == [kind |-> "LocEngStopFix"]
SuplMode(p) == [kind |-> "LocEngSuplMode", ulp |-> p]
SetUlp(p)   == [kind |-> "LocSetUlpProxy", ulp |-> p]
Position    == [kind |-> "LocEngReportPosition"]

UlpInit ==
  /\ mUlp = Base(0) /\ proxies = [p \in UlpProxy \cup Bases |->
                                    IF p = Base(0) THEN [New EXCEPT !.state = "installed"] ELSE New]
  /\ hal = NotCalling /\ eng = NotCalling /\ tasks = <<>>
  /\ mNavigating = FALSE /\ mFixCriteria = INVALID
  /\ wanted = FALSE /\ asked = INVALID
  /\ swapped = FALSE /\ stale = FALSE /\ late = FALSE
  /\ halCalls = 0 /\ reported = 0 /\ delivered = 0

-----------------------------------------------------------------------------
(* The HAL's thread: a call reads mUlp, and then calls on it.               *)

BeginCall(call) ==
  /\ hal = NotCalling /\ halCalls < MaxHalCalls /\ halCalls' = halCalls + 1
  /\ hal' = [call |-> call, on |-> mUlp]
  /\ UNCHANGED <<mUlp, proxies, eng, session, swapped, stale, reported, delivered>>

loc_eng_set_position_mode(m) ==
  BeginCall("sendFixMode") /\ asked' = m /\ UNCHANGED <<tasks, wanted, late>>

loc_eng_start ==
  /\ asked # INVALID /\ ~wanted
  /\ BeginCall("sendStartFix") /\ wanted' = TRUE /\ UNCHANGED <<tasks, asked, late>>

\* The framework gives the mode anew before each start.
loc_eng_stop ==
  /\ wanted /\ wanted' = FALSE /\ asked' = INVALID
  /\ BeginCall("sendStopFix") /\ UNCHANGED <<tasks, late>>

\* loc_eng_cleanup stops only a session the engine has already begun.
loc_eng_cleanup ==
  /\ wanted' = FALSE /\ asked' = INVALID
  /\ IF mNavigating THEN BeginCall("sendStopFix") /\ UNCHANGED late
     ELSE /\ hal = NotCalling /\ wanted /\ late' = TRUE
          /\ UNCHANGED <<mUlp, proxies, hal, eng, session, swapped, stale, halCalls, reported, delivered>>
  /\ UNCHANGED tasks

\* loc_eng_configuration_update puts the pointer itself in its message.
loc_eng_configuration_update ==
  /\ hal = NotCalling /\ halCalls < MaxHalCalls /\ halCalls' = halCalls + 1
  /\ tasks' = Append(tasks, SuplMode(mUlp))
  /\ UNCHANGED <<mUlp, proxies, hal, eng, session, wanted, asked, swapped, stale, late,
                 reported, delivered>>

\* Mutant: a stop is not noted.
NotedStarts(p, call) ==
  CASE call = "sendFixMode"  -> [proxies EXCEPT ![p].mPosMode = asked]
    [] call = "sendStartFix" -> [proxies EXCEPT ![p].mFixSet = TRUE]
    [] OTHER -> proxies

\* What a proxy notes of a call.
Noted(p, call) ==
  CASE call = "sendFixMode"  -> [proxies EXCEPT ![p].mPosMode = asked]
    [] call = "sendStartFix" -> [proxies EXCEPT ![p].mFixSet = TRUE]
    [] call = "sendStopFix"  -> [proxies EXCEPT ![p].mFixSet = FALSE]

\* The message that reaches the engine: from the HAL after a base proxy has
\* answered false, from LocInternalAdapter after the library's has answered true.
ToEngine(call) ==
  CASE call = "sendFixMode"  -> Mode(asked)
    [] call = "sendStartFix" -> StartFix
    [] call = "sendStopFix"  -> StopFix

HalCall ==
  /\ hal # NotCalling /\ hal' = NotCalling
  /\ IF Alive(hal.on)
     THEN /\ proxies' = Noted(hal.on, hal.call)
          /\ tasks' = Append(tasks, ToEngine(hal.call)) /\ UNCHANGED stale
     ELSE /\ tasks' \in {tasks, Append(tasks, ToEngine(hal.call))} /\ stale' = TRUE
          /\ UNCHANGED proxies
  /\ UNCHANGED <<mUlp, eng, session, framework, swapped, reported, delivered>>

-----------------------------------------------------------------------------
(* The engine's thread reports positions, through the proxy first.          *)

reportPosition ==
  /\ eng = NotCalling /\ reported < MaxReports /\ reported' = reported + 1
  /\ eng' = [call |-> "reportPosition", on |-> mUlp]
  /\ UNCHANGED <<mUlp, proxies, hal, tasks, session, framework, swapped, stale, delivered>>

ReportCall ==
  /\ eng # NotCalling /\ eng' = NotCalling
  /\ IF Alive(eng.on) THEN tasks' = Append(tasks, Position) /\ UNCHANGED stale
     ELSE tasks' \in {tasks, Append(tasks, Position)} /\ stale' = TRUE
  /\ UNCHANGED <<mUlp, proxies, hal, session, framework, swapped, reported, delivered>>

\* The library hands over a proxy it has not seen deleted, or NULL, one at a time.
HandOver(p) ==
  /\ p # NULL => Alive(p)
  /\ \A i \in DOMAIN tasks : tasks[i].kind # "LocSetUlpProxy"
  /\ tasks' = Append(tasks, SetUlp(p))
  /\ UNCHANGED <<mUlp, proxies, hal, eng, session, framework, swapped, stale, reported, delivered>>

-----------------------------------------------------------------------------
(* The message task.                                                        *)

FreshBase == CHOOSE b \in Bases : proxies[b].state = "new"

\* The new proxy is told the mode and the fix the old one recorded; the
\* library's proxies record neither.  A library's proxy told of them passes
\* them on to the engine.
setUlpProxy(given) ==
  IF given = mUlp THEN tasks' = Tail(tasks) /\ UNCHANGED <<mUlp, proxies, swapped>>
  ELSE LET ulp  == IF given = NULL THEN FreshBase ELSE given
           old  == IF IsBase(mUlp) THEN proxies[mUlp] ELSE New
           mode == old.mPosMode # INVALID
           told == (IF mode THEN <<Mode(old.mPosMode)>> ELSE <<>>)
                     \o (IF old.mFixSet THEN <<StartFix>> ELSE <<>>)
       IN  /\ mUlp' = ulp
           /\ proxies' = [proxies EXCEPT
                ![ulp]  = [mPosMode |-> IF mode THEN old.mPosMode ELSE @.mPosMode,
                           mFixSet  |-> old.mFixSet \/ @.mFixSet, state |-> "installed"],
                ![mUlp] = [@ EXCEPT !.state = "deleted"]]
           /\ tasks' = Tail(tasks) \o (IF IsBase(ulp) THEN <<>> ELSE told)
           /\ swapped' = (swapped \/ ~IsBase(mUlp))

ProcSetUlp ==
  /\ tasks # <<>> /\ Head(tasks).kind = "LocSetUlpProxy"
  /\ Head(tasks).ulp = NULL => \E b \in Bases : proxies[b].state = "new"
  /\ setUlpProxy(Head(tasks).ulp)
  /\ UNCHANGED <<hal, eng, session, framework, stale, reported, delivered>>

\* LocEngSuplMode calls setCapabilities on the proxy it carries.
ProcSuplMode ==
  /\ tasks # <<>> /\ Head(tasks).kind = "LocEngSuplMode"
  /\ tasks' = Tail(tasks) /\ stale' = (stale \/ ~Alive(Head(tasks).ulp))
  /\ UNCHANGED <<mUlp, proxies, hal, eng, session, framework, swapped, reported, delivered>>

\* loc_eng_start_handler, loc_eng_stop_handler and setInSession.
ProcSession ==
  /\ tasks # <<>> /\ tasks' = Tail(tasks)
  /\ LET m == Head(tasks) IN
     \/ /\ m.kind = "LocEngPositionMode" /\ mFixCriteria' = m.mode
        /\ UNCHANGED <<mNavigating, delivered>>
     \/ /\ m.kind = "LocEngStartFix" /\ mNavigating' = TRUE
        /\ UNCHANGED <<mFixCriteria, delivered>>
     \/ /\ m.kind = "LocEngStopFix" /\ mNavigating' = FALSE
        /\ mFixCriteria' = IF mNavigating THEN INVALID ELSE mFixCriteria
        /\ UNCHANGED delivered
     \/ /\ m.kind = "LocEngReportPosition" /\ delivered' = delivered + 1
        /\ UNCHANGED session
  /\ UNCHANGED <<mUlp, proxies, hal, eng, framework, swapped, stale, reported>>

UlpNext ==
  \/ \E m \in LocPosMode : loc_eng_set_position_mode(m)
  \/ loc_eng_start \/ loc_eng_stop \/ loc_eng_cleanup \/ loc_eng_configuration_update \/ HalCall
  \/ reportPosition \/ ReportCall \/ \E p \in UlpProxy \cup {NULL} : HandOver(p)
  \/ ProcSetUlp \/ ProcSuplMode \/ ProcSession

UlpSpec == UlpInit /\ [][UlpNext]_ulpVars

-----------------------------------------------------------------------------
UlpTypeOK ==
  /\ mUlp \in UlpProxy \cup Bases /\ mNavigating \in BOOLEAN
  /\ mFixCriteria \in LocPosMode \cup {INVALID} /\ delivered \in 0..reported
  /\ \A p \in DOMAIN proxies : proxies[p].state \in {"new", "installed", "deleted"}

(* The proxy installed lives, and it alone of those ever installed: a proxy *)
(* handed over a second time is not deleted, one replaced always is.        *)
OneProxy == {p \in DOMAIN proxies : proxies[p].state = "installed"} = {mUlp}

UlpQuiet == tasks = <<>> /\ hal = NotCalling /\ eng = NotCalling /\ ~stale

(* With every message handled the installed proxy knows the last mode and   *)
(* whether the framework wants a fix, even when it took over in the middle  *)
(* of a session, as long as it took over from a base proxy; the engine runs *)
(* a session, in that mode, exactly when one is wanted.                     *)
ModeInStep ==
  UlpQuiet /\ ~swapped /\ ~late =>
    /\ asked # INVALID => proxies[mUlp].mPosMode = asked
    /\ proxies[mUlp].mFixSet = wanted
    /\ mNavigating = wanted /\ (wanted => mFixCriteria = asked)

(* Each position is reported to the framework once, whichever proxy it went *)
(* through.                                                                 *)
ReportedOnce == UlpQuiet => delivered = reported

\* The three: one proxy, which knows what is wanted, and loses no report.
UlpInStep == OneProxy /\ ModeInStep /\ ReportedOnce
=============================================================================
