-------------------------------- MODULE DsNif --------------------------------
(***************************************************************************)
(* The emergency SUPL data call: DSStateMachine (ds_nif) of                *)
(* loc_eng_agps.cpp, its retry timer, the messages of loc_eng.cpp that     *)
(* drive it, and its fallback to the ordinary SUPL machine (agnss_nif),    *)
(* which appears here as what AgpsNif is proved to be: a lease, NifLease.  *)
(*                                                                         *)
(* The modem asks for and releases connections, the data service client   *)
(* (both external) starts and stops the call; both only post messages.     *)
(* The MsgTask thread handles one message per step; the retry callback     *)
(* runs on the timer thread between two of them.                           *)
(***************************************************************************)
EXTENDS Naturals, Sequences, FiniteSets

CONSTANTS ID,             \* connection handles of the modem
          MAX_START_DATA_CALL_RETRIES,
          NoHandle,       \* the connHandle -1
          MaxQueue,       \* bound: messages waiting
          MaxTimers       \* bound: retry timers running when the modem asks

ASSUME DsAssumption == /\ IsFiniteSet(ID) /\ NoHandle \notin ID
                       /\ MAX_START_DATA_CALL_RETRIES \in Nat

VARIABLES mState,    \* the state mStatePtr points to
          subs,      \* mSubscribers: [ID -> absent, active or inactive]
          order,     \* the same list, newest first
          mRetries,  \* failed starts since the last fallback
          timers,    \* retry timers running
          dataCall,  \* the data call, as the data service client has it
          dsMsgs,    \* messages for the MsgTask thread
          conn,      \* each connection, as the modem sees it
          atl, atlHeld   \* the lease of agnss_nif

dsVars == <<mState, subs, order, mRetries, timers, dataCall, dsMsgs, conn, atl, atlHeld>>

States == INSTANCE AgpsStates WITH Kind <- "DS"
Atl == INSTANCE NifLease WITH client <- atl, held <- atlHeld

DsMsg(name, i) == [name |-> name, id |-> i]

DsInit ==
  /\ mState = "Released"
  /\ subs = [i \in ID |-> "absent"] /\ order = << >>
  /\ mRetries = 0 /\ timers = 0
  /\ dataCall = "none"
  /\ dsMsgs = << >>
  /\ conn = [i \in ID |-> "idle"]
  /\ Atl!Init

-----------------------------------------------------------------------------
(* One event of the machine and all its consequences.                      *)

\* linked_list_add puts the newest at the head and the notified ones are removed:
\* the others keep their order.
Newer(i, j) ==
  /\ i # j
  /\ \/ subs[i] = "absent"
     \/ \E m, n \in DOMAIN order : m < n /\ order[m] = i /\ order[n] = j
Reordered(left) ==
  LET S == States!Listed(left) IN
  {list \in [1..Cardinality(S) -> S] :
     /\ \A i \in S : \E k \in DOMAIN list : list[k] = i
     /\ \A j, k \in DOMAIN list : j < k => Newer(list[j], list[k])}

\* The first active subscriber from the head of the list.
FirstActive(list, left) ==
  LET K == {k \in DOMAIN list : left[list[k]] = "active"}
  IN  IF K = {} THEN {NoHandle} ELSE {list[k] : k \in {k \in K : \A j \in K : k <= j}}

\* openAndStartDataCall: what the data service client may answer.
StartResult(now) ==
  {"BUSY"} \cup IF now = "none" THEN {"SUCCESS", "UNSUPPORTED"} ELSE {}

\* Mutant: informStatus(DENIED) does not clear the count.
RefusedNoReset(ret, handle) ==
  IF ret = "UNSUPPORTED" \/ mRetries + 1 > MAX_START_DATA_CALL_RETRIES
  THEN /\ mRetries' = mRetries + 1 /\ UNCHANGED timers
       /\ dsMsgs' = Append(Tail(dsMsgs), DsMsg("RequestATL", handle))
  ELSE /\ mRetries' = mRetries + 1 /\ timers' = timers + 1
       /\ dsMsgs' = Tail(dsMsgs)

\* The start was refused: after MAX_START_DATA_CALL_RETRIES retries, or when
\* there is no profile for it, the newest active client falls back to the SUPL
\* machine; otherwise a timer will ask again.
Refused(ret, handle) ==
  IF ret = "UNSUPPORTED" \/ mRetries + 1 > MAX_START_DATA_CALL_RETRIES
  THEN /\ mRetries' = 0 /\ UNCHANGED timers
       /\ dsMsgs' = Append(Tail(dsMsgs), DsMsg("RequestATL", handle))
  ELSE /\ mRetries' = mRetries + 1 /\ timers' = timers + 1
       /\ dsMsgs' = Tail(dsMsgs)

\* informStatus(DENIED), which tells all that are listed, in list order.
Fallbacks(told) ==
  IF \E i \in ID : told[i] = "DENIED"
  THEN [k \in 1..Len(order) |-> DsMsg("RequestATL", order[k])] ELSE << >>

\* atlOpenStatus(ID, 1) and atlCloseStatus(ID, 1) as the modem takes them.
ModemTold(told) ==
  [i \in ID |-> CASE told[i] = "GRANTED" /\ conn[i] # "closing" -> "open"
                  [] told[i] = "UNSUBSCRIBE" -> "idle"
                  [] OTHER -> conn[i]]

\* closeDataCall, for clients told RELEASED; stopDataCall.
Closed(told) == IF \E i \in ID : told[i] = "RELEASED" THEN "none" ELSE dataCall
Stopped      == IF dataCall \in {"starting", "up"} THEN "stopping" ELSE dataCall

\* The outcome o of the event in the message at the head of the queue.
ApplyRequest(o) ==
  \E ret \in StartResult(Closed(o.told)) :
    IF ret = "SUCCESS"
    THEN /\ mState' = o.state /\ dataCall' = "starting"
         /\ dsMsgs' = Tail(dsMsgs) /\ UNCHANGED <<mRetries, timers>>
    ELSE \* only AgpsReleasedState looks at the result
         /\ mState' = IF mState = "Released" THEN "Released" ELSE o.state
         /\ dataCall' = Closed(o.told)
         /\ \E handle \in FirstActive(order', o.subs) : Refused(ret, handle)

ApplyOther(o) ==
  /\ mState' = o.state
  /\ dataCall' = IF o.ask = "RELEASE" THEN Stopped ELSE Closed(o.told)
  /\ mRetries' = IF \E i \in ID : o.told[i] = "DENIED" THEN 0 ELSE mRetries
  /\ dsMsgs' = Tail(dsMsgs) \o Fallbacks(o.told)
  /\ UNCHANGED timers

ApplyOutcome(o) ==
  /\ subs' = o.subs /\ order' \in Reordered(o.subs)
  /\ conn' = ModemTold(o.told)
  /\ IF o.ask = "REQUEST" THEN ApplyRequest(o) ELSE ApplyOther(o)
  /\ UNCHANGED <<atl, atlHeld>>

-----------------------------------------------------------------------------
(* The messages, one proc() each.                                          *)

HeadIs(name) == dsMsgs # << >> /\ Head(dsMsgs).name = name

\* LocEngRequestSuplEs, from the modem or from the retry timer.
RequestSuplEs ==
  /\ HeadIs("RequestSuplEs")
  /\ ApplyOutcome(States!OnRsrcEvent(mState, "SUBSCRIBE", subs, Head(dsMsgs).id))

\* LocEngReleaseATL: agnss_nif is asked first, then ds_nif.
ReleaseATL ==
  /\ HeadIs("ReleaseATL")
  /\ LET i == Head(dsMsgs).id IN
     \/ \E also \in SUBSET ID :   \* ended with it, see AgpsStates!Misread
        /\ Atl!Leave(i, also) /\ atl'[i] = "idle"
        /\ conn' = [j \in ID |-> IF j = i \/ (j \in also /\ conn[j] # "closing")
                                THEN "idle" ELSE conn[j]]
        /\ dsMsgs' = Tail(dsMsgs)
        /\ UNCHANGED <<mState, subs, order, mRetries, timers, dataCall>>
     \/ /\ atl[i] = "idle" /\ subs[i] # "absent"
        /\ ApplyOutcome(States!OnRsrcEvent(mState, "UNSUBSCRIBE", subs, i))
     \/ /\ atl[i] = "idle" /\ subs[i] = "absent"
        /\ conn' = [conn EXCEPT ![i] = "idle"]   \* atlCloseStatus(mID, 0)
        /\ dsMsgs' = Tail(dsMsgs)
        /\ UNCHANGED <<mState, subs, order, mRetries, timers, dataCall, atl, atlHeld>>

\* LocEngRequestATL: subscribes to agnss_nif, unless listed there already.
RequestATL ==
  /\ HeadIs("RequestATL")
  /\ LET i == Head(dsMsgs).id IN
     /\ IF i # NoHandle /\ atl[i] = "idle" THEN Atl!Request(i)
                                           ELSE UNCHANGED <<atl, atlHeld>>
     /\ conn' = IF i # NoHandle /\ atlHeld /\ conn[i] # "closing"
                THEN [conn EXCEPT ![i] = "open"] ELSE conn
  /\ dsMsgs' = Tail(dsMsgs)
  /\ UNCHANGED <<mState, subs, order, mRetries, timers, dataCall>>

\* LocEngSuplEsOpened.
SuplEsOpened ==
  /\ HeadIs("SuplEsOpened")
  /\ \E i \in ID : ApplyOutcome(States!OnRsrcEvent(mState, "GRANTED", subs, i))

\* LocEngSuplEsClosed: a RELEASED that changes nothing is taken for DENIED.
SuplEsClosed ==
  /\ HeadIs("SuplEsClosed")
  /\ \E i \in ID :
       LET o == States!OnRsrcEvent(mState, "RELEASED", subs, i)
       IN  ApplyOutcome(IF o.state # mState THEN o
                 ELSE States!OnRsrcEvent(mState, "DENIED", subs, i))

\* DSStateMachine::retryCallback on the timer thread.
RetryCallback ==
  /\ timers > 0 /\ Len(dsMsgs) < MaxQueue
  /\ timers' = timers - 1
  /\ \E i \in FirstActive(order, subs) :
       dsMsgs' = IF i = NoHandle THEN dsMsgs
                 ELSE Append(dsMsgs, DsMsg("RequestSuplEs", i))
  /\ UNCHANGED <<mState, subs, order, mRetries, dataCall, conn, atl, atlHeld>>

-----------------------------------------------------------------------------
(* The modem, the data service client and the connectivity service.        *)

Machine == <<mState, subs, order, mRetries, timers>>

ModemRequests(i) ==
  /\ conn[i] = "idle" /\ Len(dsMsgs) < MaxQueue /\ timers < MaxTimers
  /\ conn' = [conn EXCEPT ![i] = "asked"]
  /\ dsMsgs' = Append(dsMsgs, DsMsg("RequestSuplEs", i))
  /\ UNCHANGED <<Machine, dataCall, atl, atlHeld>>

ModemReleases(i) ==
  /\ conn[i] \in {"asked", "open"} /\ Len(dsMsgs) < MaxQueue
  /\ conn' = [conn EXCEPT ![i] = "closing"]
  /\ dsMsgs' = Append(dsMsgs, DsMsg("ReleaseATL", i))
  /\ UNCHANGED <<Machine, dataCall, atl, atlHeld>>

ServiceReports(from, to, name) ==
  /\ dataCall = from /\ dataCall' = to /\ Len(dsMsgs) < MaxQueue
  /\ dsMsgs' = Append(dsMsgs, [name |-> name])
  /\ UNCHANGED <<Machine, conn, atl, atlHeld>>

CallOpened  == ServiceReports("starting", "up", "SuplEsOpened")
CallFailed  == ServiceReports("starting", "none", "SuplEsClosed")
CallDropped == ServiceReports("up", "none", "SuplEsClosed")
CallStopped == ServiceReports("stopping", "none", "SuplEsClosed")

\* agnss_nif gets its interface, or ends for all its clients.
AtlGranted ==
  /\ Atl!Grant
  /\ conn' = [i \in ID |-> IF atl[i] = "asked" /\ conn[i] # "closing" THEN "open" ELSE conn[i]]
  /\ UNCHANGED <<Machine, dataCall, dsMsgs>>

AtlEnded ==
  /\ Atl!End
  /\ conn' = [i \in ID |-> IF atl[i] # "idle" /\ conn[i] # "closing" THEN "idle" ELSE conn[i]]
  /\ UNCHANGED <<Machine, dataCall, dsMsgs>>

DsNext ==
  \/ RequestSuplEs \/ ReleaseATL \/ RequestATL \/ SuplEsOpened \/ SuplEsClosed
  \/ RetryCallback
  \/ \E i \in ID : ModemRequests(i) \/ ModemReleases(i)
  \/ CallOpened \/ CallFailed \/ CallDropped \/ CallStopped
  \/ AtlGranted \/ AtlEnded

DsSpec == DsInit /\ [][DsNext]_dsVars

-----------------------------------------------------------------------------
Queued(name) == \E k \in DOMAIN dsMsgs : dsMsgs[k].name = name

\* Type invariant.
DsTypeOK ==
  /\ mState \in States!State
  /\ subs \in [ID -> {"absent", "active", "inactive"}]
  /\ order \in Seq(ID) /\ {order[k] : k \in DOMAIN order} = States!Listed(subs)
  /\ \A j, k \in DOMAIN order : order[j] = order[k] => j = k
  /\ mRetries \in Nat /\ timers \in Nat
  /\ dataCall \in {"none", "starting", "up", "stopping"}
  /\ conn \in [ID -> {"idle", "asked", "open", "closing"}]
  /\ atl \in [ID -> {"idle", "asked", "open"}] /\ atlHeld \in BOOLEAN

\* The count of failed starts never passes the limit that makes a client fall
\* back, whatever mix of requests, retries, closes and grants comes between.
RetriesBounded == mRetries <= MAX_START_DATA_CALL_RETRIES

\* The data call and the machine never drift apart: a call that is starting,
\* up or stopping is one the machine still waits for or holds, and a call
\* that is gone is either known to be gone or its report is queued.
CallTracked ==
  /\ dataCall = "starting" => mState = "Pending"
  /\ dataCall = "up" => mState = "Acquired" \/ (mState = "Pending" /\ Queued("SuplEsOpened"))
  /\ dataCall = "stopping" => mState = "Releasing"
  /\ mState = "Acquired" => dataCall = "up" \/ Queued("SuplEsClosed")

\* A fallback always names a connection: connHandle is never left at -1.
FallbackHasHandle ==
  \A k \in DOMAIN dsMsgs : dsMsgs[k].name = "RequestATL" => dsMsgs[k].id # NoHandle

\* A connection that was told it is unsubscribed is not told later that it is
\* open: only one that asked is.
NoStrayGrant ==
  [][\A i \in ID : conn[i] = "idle" => conn'[i] # "open"]_dsVars
=============================================================================
