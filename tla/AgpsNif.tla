------------------------------- MODULE AgpsNif -------------------------------
(***************************************************************************)
(* One AgpsStateMachine (agnss_nif or internet_nif with ATL/BIT clients,   *)
(* wifi_nif with WIFI clients), the clients that subscribe to it and the   *)
(* connectivity service that brings its network interface up and down.     *)
(*                                                                         *)
(* Every entry point posts a message to the one MsgTask thread, which runs *)
(* its proc() to the end, so a handler is one step.  The connectivity      *)
(* service (the Java framework, external) takes the machine's requests in  *)
(* order and answers from its own threads; its answers are messages that   *)
(* wait in the MsgTask queue, `replies'.                                   *)
(***************************************************************************)
EXTENDS AgpsStates, Sequences, Naturals

CONSTANTS BIT,       \* the addresses daemons ask for; the others are handles of the modem
          MaxPipe    \* bound: requests and answers in flight

ASSUME ClientAssumption == BIT \subseteq ID
ASSUME PipeAssumption == MaxPipe \in Nat
ASSUME NifAssumption == Kind \in {"ATL", "WIFI"}

\* mEnforceSingleSubscriber, given to the constructor for wifi_nif only.
EnforceSingle == Kind = "WIFI"

VARIABLES mState,   \* the state mStatePtr points to
          subs,     \* mSubscribers: [ID -> absent, active or inactive]
          client,   \* what each client believes of its own request
          dropped,  \* history: daemons a restart has dropped from the list
          conn,     \* the interface, as the connectivity service has it
          asks,     \* requests made through agps_cb, not yet handled
          replies   \* answers posted to the MsgTask queue

vars == <<mState, subs, client, dropped, conn, asks, replies>>

Init ==
  /\ mState = "Released"
  /\ subs = [i \in ID |-> "absent"]
  /\ client = [i \in ID |-> "idle"]
  /\ dropped = {}
  /\ conn = "down"
  /\ asks = << >>
  /\ replies = << >>

\* A client learns of a status: GRANTED opens its connection, any other ends it.
Informed(before, told) ==
  [i \in ID |-> CASE told[i] = "nothing" -> before[i]
                  [] told[i] = "GRANTED" -> "open"
                  [] OTHER -> "idle"]

\* Mutant: the request is sent whatever the event asked for.
SendRsrcRequestAlways(left, ask) ==
  asks' = IF (Active(left) = {}) = (ask = "RELEASE") THEN Append(asks, ask) ELSE asks

\* sendRsrcRequest: a RELEASE goes out only when no active subscriber is
\* left, a REQUEST only when there is one.
SendRsrcRequest(left, ask) ==
  asks' = IF ask # "none" /\ (Active(left) = {}) = (ask = "RELEASE")
          THEN Append(asks, ask) ELSE asks

Apply(o, before) ==
  /\ mState' = o.state
  /\ subs' = o.subs
  /\ client' = Informed(before, o.told)
  /\ SendRsrcRequest(o.subs, o.ask)

RoomInPipe == Len(asks) + Len(replies) < MaxPipe

-----------------------------------------------------------------------------
(* Clients: LocEngRequestATL, LocEngReqRelBIT and LocEngReqRelWifi.        *)

\* Mutant: mEnforceSingleSubscriber is not looked at.
SubscribeRsrcUnchecked(i) ==
  /\ client[i] = "idle" \/ i \in dropped
  /\ RoomInPipe
  /\ Apply(OnRsrcEvent(mState, "SUBSCRIBE", subs, i),
           [client EXCEPT ![i] = "asked"])
  /\ dropped' = dropped \ {i}
  /\ UNCHANGED <<conn, replies>>

\* A client asks when it has no request, or again after it was dropped.
SubscribeRsrc(i) ==
  /\ client[i] = "idle" \/ i \in dropped
  /\ RoomInPipe
  /\ IF EnforceSingle /\ Listed(subs) # {}
     THEN UNCHANGED <<mState, subs, client, dropped, asks>>   \* told DENIED
     ELSE /\ Apply(OnRsrcEvent(mState, "SUBSCRIBE", subs, i),
                   [client EXCEPT ![i] = "asked"])
          /\ dropped' = dropped \ {i}
  /\ UNCHANGED <<conn, replies>>

Ends(i, also) ==
  [j \in ID |-> IF j \in also THEN "idle" ELSE IF j = i THEN "closing" ELSE client[j]]

UnsubscribeRsrc(i) ==
  /\ client[i] \in {"asked", "open"}
  /\ RoomInPipe
  /\ subs[i] # "absent"
  /\ \E also \in Misread(subs, i) :
       Apply(OnRsrcEvent(mState, "UNSUBSCRIBE", Without(subs, also), i), Ends(i, also))
  /\ UNCHANGED <<dropped, conn, replies>>

\* The client is not listed any more: LocEngReleaseATL tells a handle so,
\* LocEngReqRelBIT ignores the false and its daemon waits on.
ReleaseUnlisted(i) ==
  /\ client[i] \in {"asked", "open"}
  /\ subs[i] = "absent"
  /\ client' = [client EXCEPT ![i] = IF i \in BIT THEN "closing" ELSE "idle"]
  /\ UNCHANGED <<mState, subs, dropped, conn, asks, replies>>

-----------------------------------------------------------------------------
(* The MsgTask thread takes an answer: LocEngAtlOpenSuccess, -Closed or    *)
(* -OpenFailed.                                                            *)

HandleReply ==
  /\ replies # << >>
  /\ \E i \in ID :   \* i is not looked at by these events
       Apply(OnRsrcEvent(mState, Head(replies), subs, i), client)
  /\ replies' = Tail(replies)
  /\ UNCHANGED <<dropped, conn>>

\* loc_eng_handle_engine_up: agnss_nif and internet_nif are flushed; no state
\* is reset and nobody is told.  The modem has restarted, so its connections
\* are gone; a daemon has not, and believes what it believed.
EngineUp ==
  /\ Kind = "ATL"
  /\ subs' = [i \in ID |-> "absent"]
  /\ client' = [i \in ID |-> IF i \in BIT THEN client[i] ELSE "idle"]
  /\ dropped' = dropped \cup {i \in BIT : client[i] # "idle"}
  /\ UNCHANGED <<mState, conn, asks, replies>>

-----------------------------------------------------------------------------
(* The connectivity service.                                               *)

NextAsk(ask) == asks # << >> /\ Head(asks) = ask

FwOpen ==
  /\ NextAsk("REQUEST")
  /\ conn' = "up"
  /\ replies' = Append(replies, "GRANTED")
  /\ asks' = Tail(asks)
  /\ UNCHANGED <<mState, subs, client, dropped>>

FwRefuse ==
  /\ NextAsk("REQUEST") /\ conn = "down"
  /\ replies' = Append(replies, "DENIED")
  /\ asks' = Tail(asks)
  /\ UNCHANGED <<mState, subs, client, dropped, conn>>

FwClose ==
  /\ NextAsk("RELEASE")
  /\ conn' = "down"
  /\ replies' = Append(replies, "RELEASED")
  /\ asks' = Tail(asks)
  /\ UNCHANGED <<mState, subs, client, dropped>>

\* Nothing to release: the service may answer or not.
FwIgnore ==
  /\ NextAsk("RELEASE") /\ conn = "down"
  /\ asks' = Tail(asks)
  /\ UNCHANGED <<mState, subs, client, dropped, conn, replies>>

\* The network is lost: a forced release.
FwLose ==
  /\ conn = "up"
  /\ RoomInPipe
  /\ conn' = "down"
  /\ replies' = Append(replies, "RELEASED")
  /\ UNCHANGED <<mState, subs, client, dropped, asks>>

FwAnswer == FwOpen \/ FwRefuse \/ FwClose \/ FwIgnore

Next ==
  \/ \E i \in ID : SubscribeRsrc(i) \/ UnsubscribeRsrc(i) \/ ReleaseUnlisted(i)
  \/ HandleReply
  \/ EngineUp
  \/ FwAnswer
  \/ FwLose

Spec == Init /\ [][Next]_vars

\* The MsgTask thread loops on its queue and the connectivity service answers
\* each request; nothing obliges a client or the network to move.
FairSpec == Spec /\ WF_vars(HandleReply) /\ WF_vars(FwAnswer)

-----------------------------------------------------------------------------
\* Type invariant.
TypeOK ==
  /\ mState \in State
  /\ subs \in [ID -> {"absent", "active", "inactive"}]
  /\ client \in [ID -> {"idle", "asked", "open", "closing"}]
  /\ dropped \subseteq BIT
  /\ conn \in {"up", "down"}
  /\ asks \in Seq(Ask)
  /\ replies \in Seq({"GRANTED", "RELEASED", "DENIED"})

\* The machine is in Released only with an empty list -- what the error log
\* at the head of AgpsReleasedState::onRsrcEvent checks -- and in Releasing
\* only while somebody who closed still has to be told that the interface is
\* gone.
ListMatchesState ==
  /\ mState = "Released" => Listed(subs) = {}
  /\ mState = "Releasing" => Inactive(subs) # {} /\ Kind # "ATL"
  /\ Inactive(subs) # {} => mState = "Releasing"

\* Nothing but a restart makes the machine forget a client, and none is kept
\* by mistake: whoever waits for the interface is in the list of a machine
\* that is still asking for it, whoever was told it is open is in the list of
\* a machine that has it, whoever waits for its close is listed as inactive,
\* and nobody else is listed.  The daemons a restart dropped wait, or believe
\* the connection open, in no list at all until they ask again.
ClientServed ==
  \A i \in ID :
    IF i \in dropped THEN client[i] # "idle" /\ subs[i] = "absent"
    ELSE /\ client[i] = "asked" => subs[i] = "active" /\ mState = "Pending"
         /\ client[i] = "open" => subs[i] = "active" /\ mState = "Acquired"
         /\ client[i] = "closing" <=> subs[i] = "inactive"
         /\ client[i] = "idle" <=> subs[i] = "absent"

\* Nobody is left with a dead connection: while a client believes its
\* connection open, the interface is up or the news that it is gone is
\* already in the MsgTask queue.  Not so a daemon that a restart dropped.
OpenIsReal ==
  \A i \in ID \ dropped : client[i] = "open" =>
    conn = "up" \/ \E k \in 1..Len(replies) : replies[k] = "RELEASED"

Quiet == asks = << >> /\ replies = << >>

\* Once everything in flight has been handled, an interface is up only for
\* somebody: with no subscriber left the machine has had it released
\* ("no more subscribers ... tell connecivity service we can release NIF").
NoIdleInterface == Quiet /\ conn = "up" => Active(subs) # {}

\* Every request gets an answer, is withdrawn, or is a daemon's that a restart
\* of the modem dropped: such a daemon waits until it asks again.
RequestAnswered ==
  \A i \in ID : client[i] = "asked" /\ i \notin dropped
                ~> client[i] # "asked" \/ i \in dropped

\* A WIFI client that waits for the close to complete is told of it in the
\* end; no restart drops those.
CloseCompletes == \A i \in ID : client[i] = "closing" ~> client[i] # "closing"

\* A dropped daemon has no part in the lease.
Served == [i \in ID |-> IF i \in dropped THEN "idle" ELSE client[i]]

\* The clients see one lease: granted to all who wait at once, ended for all
\* at once, given back with the last one.
Lease == INSTANCE NifLease WITH client <- Served, held <- (mState = "Acquired")
LeaseSpec == Lease!Spec
=============================================================================
