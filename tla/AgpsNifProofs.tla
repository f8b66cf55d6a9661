---------------------------- MODULE AgpsNifProofs ----------------------------
(***************************************************************************)
(* Proofs about AgpsNif for every set of clients, both kinds of machine    *)
(* and every bound on what is in flight.                                   *)
(***************************************************************************)
EXTENDS AgpsNif, SequenceTheorems, TLAPS

\* A WIFI machine never lists two requesters (mEnforceSingleSubscriber).
SingleWifi ==
  Kind = "WIFI" =>
    \A i, j \in ID : subs[i] # "absent" /\ subs[j] # "absent" => i = j

\* The machine holds the interface only while it is up or its loss is queued.
LossReported ==
  mState = "Acquired" =>
    conn = "up" \/ \E k \in 1..Len(replies) : replies[k] = "RELEASED"

\* So does a grant that is still queued: if the interface has gone since, the
\* news of it is behind the grant.
GrantIsReal ==
  \A k \in 1..Len(replies) : replies[k] = "GRANTED" =>
    conn = "up" \/ \E j \in 1..Len(replies) : j > k /\ replies[j] = "RELEASED"

\* The part about the machine and its clients, and the part about what is in
\* flight: together the inductive invariant.
ListInv == TypeOK /\ ListMatchesState /\ ClientServed /\ SingleWifi
LossInv == LossReported /\ GrantIsReal
IInv == ListInv /\ LossInv

-----------------------------------------------------------------------------
SubsType == [ID -> {"absent", "active", "inactive"}]
WellTyped(o) ==
  /\ o.state \in State
  /\ o.subs \in SubsType
  /\ o.ask \in {"REQUEST", "RELEASE", "none"}

\* The list operations keep the list a list.
LEMMA ListType ==
  ASSUME NEW s \in SubsType, NEW i \in ID, NEW S
  PROVE  /\ AddSubscriber(s, i) \in SubsType
         /\ Close(s, i) \in SubsType
         /\ Without(s, S) \in SubsType
  BY DEF SubsType, AddSubscriber, Close, Without

LEMMA UnsubscribeType ==
  ASSUME NEW state \in State, NEW s \in SubsType, NEW i \in ID
  PROVE  WellTyped(UnsubscribeIn(state, s, i))
<1> DEFINE left == Close(s, i)
<1>0. left \in SubsType BY ListType
<1>1. CASE Listed(left) = {}
  BY <1>0, <1>1 DEF UnsubscribeIn, WellTyped, Outcome, State
<1>2. CASE Listed(left) # {} /\ Active(left) = {}
  BY <1>0, <1>2 DEF UnsubscribeIn, WellTyped, Outcome, State
<1>3. CASE Listed(left) # {} /\ Active(left) # {}
  BY <1>0, <1>3 DEF UnsubscribeIn, WellTyped, Outcome, State
<1> QED BY <1>1, <1>2, <1>3

\* What a handler returns is a state, a list and a request again.
LEMMA OutcomeType ==
  ASSUME NEW state \in State, NEW event \in Event, NEW i \in ID, NEW s \in SubsType
  PROVE  WellTyped(OnRsrcEvent(state, event, s, i))
<1>1. WellTyped(ReleasedOn(event, s, i))
  BY ListType DEF ReleasedOn, Outcome, Ignore, WellTyped, State, Event
<1>2. WellTyped(PendingOn(event, s, i))
  BY ListType, UnsubscribeType DEF PendingOn, GrantActive, DropAll, Outcome, Ignore, WellTyped, State, Event
<1>3. WellTyped(AcquiredOn(event, s, i))
  BY ListType, UnsubscribeType DEF AcquiredOn, GrantNewcomer, ForcedRelease, DropAll,
         Outcome, Ignore, WellTyped, State, Event
<1>4. WellTyped(ReleasingOn(event, s, i))
  BY ListType DEF ReleasingOn, CompleteClose, Outcome, Ignore, WellTyped, State, Event
<1> QED BY <1>1, <1>2, <1>3, <1>4 DEF OnRsrcEvent, State

-----------------------------------------------------------------------------
(* The transition table: the outcome of each event in each state.          *)

LEMMA ReleasedTable ==
  ASSUME NEW s, NEW i, NEW event \in {"GRANTED", "RELEASED", "DENIED"}
  PROVE  /\ OnRsrcEvent("Released", "SUBSCRIBE", s, i)
              = Outcome("Pending", AddSubscriber(s, i), Nobody, "REQUEST")
         /\ OnRsrcEvent("Released", event, s, i) = Ignore("Released", s)
  BY DEF OnRsrcEvent, ReleasedOn

LEMMA PendingTable ==
  ASSUME NEW s, NEW i
  PROVE  /\ OnRsrcEvent("Pending", "SUBSCRIBE", s, i)
              = Outcome("Pending", AddSubscriber(s, i), Nobody, "none")
         /\ OnRsrcEvent("Pending", "UNSUBSCRIBE", s, i) = UnsubscribeIn("Pending", s, i)
         /\ OnRsrcEvent("Pending", "GRANTED", s, i)
              = Outcome("Acquired", s, Notify(Active(s), "GRANTED"), "none")
         /\ OnRsrcEvent("Pending", "RELEASED", s, i) = Ignore("Pending", s)
         /\ OnRsrcEvent("Pending", "DENIED", s, i)
              = Outcome("Released", Without(s, ID), Notify(Listed(s), "DENIED"), "none")
  BY DEF OnRsrcEvent, PendingOn, GrantActive, DropAll

LEMMA AcquiredTable ==
  ASSUME NEW s, NEW i
  PROVE  /\ OnRsrcEvent("Acquired", "SUBSCRIBE", s, i)
              = Outcome("Acquired", AddSubscriber(s, i), Notify({i}, "GRANTED"), "none")
         /\ OnRsrcEvent("Acquired", "UNSUBSCRIBE", s, i) = UnsubscribeIn("Acquired", s, i)
         /\ OnRsrcEvent("Acquired", "RELEASED", s, i)
              = Outcome("Released", Without(s, ID), Notify(Listed(s), "RELEASED"), "none")
         /\ \A event \in {"GRANTED", "DENIED"} :
              OnRsrcEvent("Acquired", event, s, i) = Ignore("Acquired", s)
  BY DEF OnRsrcEvent, AcquiredOn, GrantNewcomer, ForcedRelease, DropAll

LEMMA ReleasingTable ==
  ASSUME NEW s, NEW i, NEW event \in {"DENIED", "RELEASED"}
  PROVE  /\ OnRsrcEvent("Releasing", event, s, i)
              = LET left == Without(s, Inactive(s))
                    told == Notify(Inactive(s), event)
                IN  IF Active(left) # {}
                    THEN Outcome("Pending", left, told, "REQUEST")
                    ELSE Outcome("Released", left, told, "none")
         /\ OnRsrcEvent("Releasing", "GRANTED", s, i) = Ignore("Releasing", s)
  BY DEF OnRsrcEvent, ReleasingOn, CompleteClose

-----------------------------------------------------------------------------
ClientType == [ID -> {"idle", "asked", "open", "closing"}]

LEMMA InformedType ==
  ASSUME NEW before \in ClientType, NEW told
  PROVE  Informed(before, told) \in ClientType
  BY DEF Informed, ClientType

\* What clients know after a notification to the clients in S, and after none.
LEMMA InformedBy ==
  ASSUME NEW before \in ClientType, NEW S,
         NEW status \in {"GRANTED", "DENIED", "RELEASED", "UNSUBSCRIBE"}
  PROVE  /\ Informed(before, Notify(S, status))
              = [i \in ID |-> IF i \in S THEN (IF status = "GRANTED" THEN "open" ELSE "idle")
                                         ELSE before[i]]
         /\ Informed(before, Nobody) = before
<1>1. \A i \in ID : Nobody[i] = "nothing" BY DEF Nobody, Notify
<1>2. \A i \in ID : Notify(S, status)[i] = IF i \in S THEN status ELSE "nothing"
  BY DEF Notify
<1>3. status # "nothing" OBVIOUS
<1>4. Informed(before, Nobody) = before BY <1>1 DEF Informed, ClientType
<1> QED BY <1>2, <1>3, <1>4 DEF Informed

\* A handled event keeps the types of all it assigns.
LEMMA ApplyType ==
  ASSUME TypeOK, NEW event \in Event, NEW i \in ID, NEW before \in ClientType,
         NEW s \in SubsType, Apply(OnRsrcEvent(mState, event, s, i), before)
  PROVE  /\ mState' \in State
         /\ subs' \in SubsType
         /\ client' \in ClientType
         /\ asks' \in Seq(Ask)
<1> DEFINE o == OnRsrcEvent(mState, event, s, i)
<1>1. WellTyped(o) BY OutcomeType DEF TypeOK, SubsType
<1>2. client' \in ClientType BY InformedType DEF Apply
<1>3. asks' \in Seq(Ask)
  BY <1>1 DEF Apply, SendRsrcRequest, WellTyped, TypeOK, Ask
<1> QED BY <1>1, <1>2, <1>3 DEF Apply, WellTyped

-----------------------------------------------------------------------------
(* What each step of the machine does to its state, its list and its       *)
(* clients, in the states the invariant allows.                            *)

SubscribeEffect(i) ==
  /\ client[i] = "idle" \/ i \in dropped
  /\ \/ UNCHANGED <<mState, subs, client, dropped>>
     \/ /\ EnforceSingle => Listed(subs) = {}
        /\ dropped' = dropped \ {i}
        /\ subs' = [subs EXCEPT ![i] = "active"]
        /\ \/ /\ mState \in {"Released", "Pending"} /\ mState' = "Pending"
              /\ client' = [client EXCEPT ![i] = "asked"]
           \/ /\ mState = "Acquired" /\ mState' = "Acquired"
              /\ client' = [client EXCEPT ![i] = "open"]

LEMMA SubscribeDoes ==
  ASSUME ListInv, NEW i \in ID, SubscribeRsrc(i)
  PROVE  SubscribeEffect(i)
<1>0. /\ client[i] = "idle" \/ i \in dropped
      /\ subs[i] = "absent" /\ subs \in SubsType /\ client \in ClientType
  BY DEF ListInv, SubscribeRsrc, ClientServed, TypeOK, SubsType, ClientType
<1>1. CASE EnforceSingle /\ Listed(subs) # {}
  BY <1>0, <1>1 DEF SubscribeRsrc, SubscribeEffect
<1>2. CASE ~(EnforceSingle /\ Listed(subs) # {})
  <2> DEFINE o == OnRsrcEvent(mState, "SUBSCRIBE", subs, i)
             before == [client EXCEPT ![i] = "asked"]
  <2>1. /\ mState' = o.state /\ subs' = o.subs /\ client' = Informed(before, o.told)
        /\ dropped' = dropped \ {i}
    BY <1>2 DEF SubscribeRsrc, Apply
  <2>2. before \in ClientType BY <1>0 DEF ClientType
  <2>3. AddSubscriber(subs, i) = [subs EXCEPT ![i] = "active"] BY <1>0 DEF AddSubscriber
  <2>4. [j \in ID |-> IF j \in {i} THEN "open" ELSE before[j]] = [client EXCEPT ![i] = "open"]
    BY <1>0 DEF ClientType
  <2> HIDE DEF o, before
  <2>5. CASE mState = "Released"
    <3>1. o = Outcome("Pending", AddSubscriber(subs, i), Nobody, "REQUEST")
      BY <2>5, ReleasedTable DEF o
    <3>2. mState' = "Pending" /\ subs' = [subs EXCEPT ![i] = "active"] /\ client' = before
      BY <3>1, <2>1, <2>2, <2>3, InformedBy DEF Outcome
    <3> QED BY <3>2, <2>5, <1>0, <1>2, <2>1 DEF SubscribeEffect, before
  <2>6. CASE mState = "Pending"
    <3>1. o = Outcome("Pending", AddSubscriber(subs, i), Nobody, "none")
      BY <2>6, PendingTable DEF o
    <3>2. mState' = "Pending" /\ subs' = [subs EXCEPT ![i] = "active"] /\ client' = before
      BY <3>1, <2>1, <2>2, <2>3, InformedBy DEF Outcome
    <3> QED BY <3>2, <2>6, <1>0, <1>2, <2>1 DEF SubscribeEffect, before
  <2>7. CASE mState = "Acquired"
    <3>1. o = Outcome("Acquired", AddSubscriber(subs, i), Notify({i}, "GRANTED"), "none")
      BY <2>7, AcquiredTable DEF o
    <3>2. /\ mState' = "Acquired" /\ subs' = [subs EXCEPT ![i] = "active"]
          /\ client' = [j \in ID |-> IF j \in {i} THEN "open" ELSE before[j]]
      BY <3>1, <2>1, <2>2, <2>3, InformedBy DEF Outcome
    <3> QED BY <3>2, <2>4, <2>7, <1>0, <1>2, <2>1 DEF SubscribeEffect
  <2>8. mState # "Releasing"
    BY <1>2, NifAssumption DEF ListInv, ListMatchesState, EnforceSingle, Listed, Inactive
  <2> QED BY <2>5, <2>6, <2>7, <2>8 DEF ListInv, TypeOK, State
<1> QED BY <1>1, <1>2

\* The clients in `also' end with i, when freed memory says they are equal.
UnsubscribeEffect(i) ==
  /\ mState \in {"Pending", "Acquired"} /\ subs[i] = "active"
  /\ client[i] \in {"asked", "open"} /\ i \notin dropped
  /\ UNCHANGED dropped
  /\ \/ /\ Kind = "ATL"
        /\ \E also \in SUBSET (Listed(subs) \ {i}) :
             /\ subs' = Without(subs, also \cup {i})
             /\ client' = [j \in ID |-> IF j \in also \cup {i} THEN "idle" ELSE client[j]]
        /\ mState' = IF Listed(subs') = {} THEN "Released" ELSE mState
     \/ /\ Kind = "WIFI"
        /\ subs' = [subs EXCEPT ![i] = "inactive"]
        /\ client' = [client EXCEPT ![i] = "closing"]
        /\ mState' = "Releasing"

LEMMA UnsubscribeDoes ==
  ASSUME ListInv, NEW i \in ID, UnsubscribeRsrc(i)
  PROVE  UnsubscribeEffect(i)
<1>0. /\ subs[i] = "active" /\ subs \in SubsType /\ client \in ClientType
      /\ client[i] \in {"asked", "open"} /\ i \notin dropped /\ UNCHANGED dropped
  BY DEF ListInv, UnsubscribeRsrc, ClientServed, TypeOK, SubsType, ClientType
<1>1. mState \in {"Pending", "Acquired"}
  BY <1>0 DEF ListInv, UnsubscribeRsrc, ClientServed
<1>2. PICK also \in Misread(subs, i) :
        Apply(OnRsrcEvent(mState, "UNSUBSCRIBE", Without(subs, also), i), Ends(i, also))
  BY DEF UnsubscribeRsrc
<1> DEFINE rest == Without(subs, also)
           o == UnsubscribeIn(mState, rest, i)
           left == Close(rest, i)
<1>3. OnRsrcEvent(mState, "UNSUBSCRIBE", rest, i) = o
  <2>1. CASE mState = "Pending"
    <3>1. OnRsrcEvent("Pending", "UNSUBSCRIBE", rest, i) = UnsubscribeIn("Pending", rest, i)
      BY PendingTable
    <3> QED BY <2>1, <3>1
  <2>2. CASE mState = "Acquired"
    <3>1. OnRsrcEvent("Acquired", "UNSUBSCRIBE", rest, i) = UnsubscribeIn("Acquired", rest, i)
      BY AcquiredTable
    <3> QED BY <2>2, <3>1
  <2> QED BY <1>1, <2>1, <2>2
<1>4. mState' = o.state /\ subs' = o.subs /\ client' = Informed(Ends(i, also), o.told)
  BY <1>2, <1>3 DEF Apply
<1>5. Ends(i, also) \in ClientType BY <1>0 DEF ClientType, Ends
<1>6. subs' = left /\ o.told = CloseNotice(i)
  BY <1>4 DEF UnsubscribeIn, Outcome
<1>7. \A j \in ID : subs[j] # "inactive"
  BY <1>1 DEF ListInv, ListMatchesState, Inactive
<1>8. CASE Kind = "ATL"
  <2>0. also \in SUBSET (Listed(subs) \ {i}) BY <1>8 DEF Misread, WaitForClose
  <2>1. left = Without(subs, also \cup {i}) BY <1>8 DEF Close, WaitForClose, Without
  <2>2. client' = [j \in ID |-> IF j \in also \cup {i} THEN "idle" ELSE client[j]]
    <3>1. CloseNotice(i) = Notify({i}, "UNSUBSCRIBE") BY <1>8 DEF CloseNotice
    <3>2. client' = Informed(Ends(i, also), Notify({i}, "UNSUBSCRIBE")) BY <1>4, <1>6, <3>1
    <3>3. client' = [j \in ID |-> IF j \in {i} THEN "idle" ELSE Ends(i, also)[j]]
      BY <3>2, <1>5, InformedBy
    <3> QED BY <3>3 DEF Ends
  <2>3. CASE Listed(left) = {}
    <3>1. mState' = "Released" BY <1>4, <2>3 DEF UnsubscribeIn, Outcome
    <3> QED BY <3>1, <2>0, <2>1, <2>2, <2>3, <1>0, <1>1, <1>6, <1>8 DEF UnsubscribeEffect
  <2>4. CASE Listed(left) # {}
    <3>1. PICK j \in ID : left[j] # "absent" BY <2>4 DEF Listed
    <3>2. left[j] = "active" BY <3>1, <2>1, <1>7, <1>0 DEF Without, SubsType
    <3>3. Active(left) # {} BY <3>2 DEF Active
    <3>4. mState' = mState BY <1>4, <2>4, <3>3 DEF UnsubscribeIn, Outcome
    <3> QED BY <3>4, <2>0, <2>1, <2>2, <2>4, <1>0, <1>1, <1>6, <1>8 DEF UnsubscribeEffect
  <2> QED BY <2>3, <2>4
<1>9. CASE Kind = "WIFI"
  <2>0. also = {} /\ rest = subs
    BY <1>0, <1>9 DEF Misread, WaitForClose, Without, SubsType
  <2>1. left = [subs EXCEPT ![i] = "inactive"] BY <2>0, <1>9 DEF Close, WaitForClose
  <2>2. client' = [client EXCEPT ![i] = "closing"]
    <3>1. client' = Ends(i, also)
      BY <1>4, <1>5, <1>6, <1>9, InformedBy DEF CloseNotice
    <3> QED BY <3>1, <2>0, <1>0 DEF Ends, ClientType
  <2>3. Listed(left) # {} /\ Active(left) = {}
    BY <2>1, <1>0, <1>9 DEF ListInv, SingleWifi, Listed, Active, SubsType
  <2>4. mState' = "Releasing" BY <1>4, <2>3 DEF UnsubscribeIn, Outcome
  <2> QED BY <2>1, <2>2, <2>4, <1>0, <1>1, <1>6, <1>9 DEF UnsubscribeEffect
<1> QED BY <1>8, <1>9, NifAssumption

\* The two answers that change something: the grant to all who wait, and the
\* end for all who are listed.
GrantEffect ==
  /\ mState = "Pending" /\ Head(replies) = "GRANTED"
  /\ mState' = "Acquired" /\ subs' = subs
  /\ client' = [i \in ID |-> IF client[i] = "asked" /\ i \notin dropped
                            THEN "open" ELSE client[i]]

EndEffect ==
  /\ mState = "Acquired" => Head(replies) = "RELEASED"
  /\ mState' = "Released"
  /\ subs' = [i \in ID |-> "absent"]
  /\ client' = [i \in ID |-> IF i \in dropped THEN client[i] ELSE "idle"]

IgnoreEffect ==
  /\ mState = "Acquired" => Head(replies) # "RELEASED"
  /\ UNCHANGED <<mState, subs, client>>

LEMMA ReplyDoes ==
  ASSUME ListInv, HandleReply
  PROVE  GrantEffect \/ EndEffect \/ IgnoreEffect
<1> DEFINE event == Head(replies)
<1>1. event \in {"GRANTED", "RELEASED", "DENIED"}
  BY DEF HandleReply, ListInv, TypeOK
<1>2. PICK i \in ID : Apply(OnRsrcEvent(mState, event, subs, i), client)
  BY DEF HandleReply
<1> DEFINE o == OnRsrcEvent(mState, event, subs, i)
<1>3. mState' = o.state /\ subs' = o.subs /\ client' = Informed(client, o.told)
  BY <1>2 DEF Apply
<1>4. client \in ClientType /\ subs \in SubsType /\ mState \in State
  BY DEF ListInv, TypeOK, ClientType, SubsType
<1> HIDE DEF event
<1>5. CASE o = Ignore(mState, subs) /\ (mState = "Acquired" => event # "RELEASED")
  <2>1. mState' = mState /\ subs' = subs /\ client' = client
    BY <1>3, <1>4, <1>5, InformedBy DEF Ignore, Outcome
  <2> QED BY <2>1, <1>5 DEF IgnoreEffect, event
<1>6. CASE mState = "Pending" /\ event = "GRANTED"
  <2>1. o = Outcome("Acquired", subs, Notify(Active(subs), "GRANTED"), "none")
    BY <1>6, PendingTable
  <2>2. /\ mState' = "Acquired" /\ subs' = subs
        /\ client' = [j \in ID |-> IF j \in Active(subs) THEN "open" ELSE client[j]]
    BY <1>3, <1>4, <2>1, InformedBy DEF Outcome
  <2>3. \A j \in ID : j \in Active(subs) <=> client[j] = "asked" /\ j \notin dropped
    BY <1>4, <1>6 DEF ListInv, ClientServed, ListMatchesState, Active, Inactive,
                       SubsType, ClientType
  <2> QED BY <1>6, <2>2, <2>3 DEF GrantEffect, event
\* an answer that everybody in the list hears and that empties it
<1>7. ASSUME NEW status \in {"DENIED", "RELEASED"},
             o = Outcome("Released", Without(subs, ID), Notify(Listed(subs), status), "none"),
             mState = "Acquired" => event = "RELEASED"
      PROVE  EndEffect
  <2>1. /\ mState' = "Released" /\ subs' = Without(subs, ID)
        /\ client' = [j \in ID |-> IF j \in Listed(subs) THEN "idle" ELSE client[j]]
    BY <1>3, <1>4, <1>7, InformedBy DEF Outcome
  <2>2. subs' = [j \in ID |-> "absent"] BY <2>1 DEF Without
  <2>3. \A j \in ID : j \in Listed(subs) \/ client[j] = "idle" \/ j \in dropped
    BY <1>4 DEF ListInv, ClientServed, Listed, SubsType, ClientType
  <2>4. \A j \in ID : j \in dropped => j \notin Listed(subs)
    BY DEF ListInv, ClientServed, Listed
  <2>5. client' = [j \in ID |-> IF j \in dropped THEN client[j] ELSE "idle"]
    BY <2>1, <2>3, <2>4
  <2> QED BY <1>7, <2>1, <2>2, <2>5 DEF EndEffect, event
<1>8. CASE mState = "Pending" /\ event = "DENIED"
  BY <1>7, <1>8, PendingTable
<1>9. CASE mState = "Acquired" /\ event = "RELEASED"
  BY <1>7, <1>9, AcquiredTable
<1>10. CASE mState = "Releasing" /\ event \in {"DENIED", "RELEASED"}
  <2>0. Kind = "WIFI" /\ Inactive(subs) # {}
    BY <1>10, NifAssumption DEF ListInv, ListMatchesState
  <2>1. Inactive(subs) = Listed(subs)
    BY <2>0, <1>4 DEF ListInv, SingleWifi, Inactive, Listed, SubsType
  <2>2. Without(subs, Inactive(subs)) = Without(subs, ID)
    BY <2>1, <1>4 DEF Listed, Without, SubsType
  <2>3. Active(Without(subs, ID)) = {} BY DEF Active, Without
  <2>4. o = Outcome("Released", Without(subs, ID), Notify(Listed(subs), event), "none")
    BY <1>10, <2>1, <2>2, <2>3, ReleasingTable
  <2> QED BY <1>7, <1>10, <2>4
<1>11. CASE mState = "Released"
  <2>1. o = Ignore("Released", subs) BY <1>1, <1>11, ReleasedTable
  <2> QED BY <1>5, <1>11, <2>1
<1>12. CASE mState = "Pending" /\ event = "RELEASED"
  BY <1>5, <1>12, PendingTable
<1>13. CASE mState = "Acquired" /\ event \in {"GRANTED", "DENIED"}
  BY <1>5, <1>13, AcquiredTable
<1>14. CASE mState = "Releasing" /\ event = "GRANTED"
  BY <1>5, <1>14, ReleasingTable
<1> QED BY <1>1, <1>4, <1>6, <1>8, <1>9, <1>10, <1>11, <1>12, <1>13, <1>14 DEF State

-----------------------------------------------------------------------------
\* The list part of the invariant, without the types.
CoreInv == ListMatchesState /\ ClientServed /\ SingleWifi

LEMMA SubscribeKeepsCore ==
  ASSUME ListInv, NEW i \in ID, SubscribeRsrc(i)
  PROVE  CoreInv'
<1>1. SubscribeEffect(i) BY SubscribeDoes
<1>2. subs \in SubsType /\ client \in ClientType /\ subs[i] = "absent"
  BY <1>1 DEF ListInv, TypeOK, SubsType, ClientType, ClientServed, SubscribeEffect
<1> QED BY <1>1, <1>2 DEF SubscribeEffect, ListInv, CoreInv, ListMatchesState,
        ClientServed, SingleWifi, SubsType, ClientType, Listed, Inactive, EnforceSingle

LEMMA UnsubscribeKeepsCore ==
  ASSUME ListInv, NEW i \in ID, UnsubscribeRsrc(i)
  PROVE  CoreInv'
<1>1. UnsubscribeEffect(i) BY UnsubscribeDoes
<1>2. subs \in SubsType /\ client \in ClientType
  BY DEF ListInv, TypeOK, SubsType, ClientType
<1>3. CASE Kind = "ATL"
  <2>0. PICK also \in SUBSET (Listed(subs) \ {i}) :
          /\ subs' = Without(subs, also \cup {i})
          /\ client' = [j \in ID |-> IF j \in also \cup {i} THEN "idle" ELSE client[j]]
    BY <1>1, <1>3 DEF UnsubscribeEffect
  <2>1. \A j \in ID : /\ subs'[j] = IF j \in also \cup {i} THEN "absent" ELSE subs[j]
                      /\ client'[j] = IF j \in also \cup {i} THEN "idle" ELSE client[j]
    BY <2>0 DEF Without
  <2>4. \A j \in dropped : j \notin also \cup {i}
    BY <1>1 DEF UnsubscribeEffect, ListInv, ClientServed, Listed
  <2>5. UNCHANGED dropped
    BY <1>1 DEF UnsubscribeEffect
  <2>2. CASE Listed(subs') = {}
    <3>1. mState' = "Released" BY <1>1, <1>3, <2>2 DEF UnsubscribeEffect
    <3>2. \A j \in ID : subs'[j] = "absent" BY <2>2 DEF Listed
    <3>3. \A j \in ID : IF j \in dropped THEN client'[j] # "idle" ELSE client'[j] = "idle"
      BY <2>1, <2>4, <3>2 DEF ListInv, ClientServed
    <3> QED BY <2>5, <3>1, <3>2, <3>3 DEF CoreInv, ListMatchesState, ClientServed, SingleWifi,
            Listed, Inactive
  <2>3. CASE Listed(subs') # {}
    BY <1>1, <1>3, <2>1, <2>3, <2>4, <2>5 DEF UnsubscribeEffect, ListInv, CoreInv,
       ListMatchesState, ClientServed, SingleWifi, Listed, Inactive
  <2> QED BY <2>2, <2>3
<1>4. CASE Kind = "WIFI"
  BY <1>1, <1>2, <1>4 DEF UnsubscribeEffect, ListInv, CoreInv, ListMatchesState,
     ClientServed, SingleWifi, Listed, Inactive, ClientType, SubsType
<1> QED BY <1>3, <1>4, NifAssumption

LEMMA ReplyKeepsCore ==
  ASSUME ListInv, HandleReply
  PROVE  CoreInv'
<1>0. dropped' = dropped BY DEF HandleReply
<1>1. CASE GrantEffect
  BY <1>0, <1>1 DEF GrantEffect, ListInv, TypeOK, CoreInv, ListMatchesState, ClientServed,
              SingleWifi, Listed, Inactive
<1>2. CASE EndEffect
  BY <1>0, <1>2 DEF EndEffect, ListInv, CoreInv, ListMatchesState, ClientServed, SingleWifi,
              Listed, Inactive
<1>3. CASE IgnoreEffect
  BY <1>0, <1>3 DEF IgnoreEffect, ListInv, CoreInv, ListMatchesState, ClientServed,
              SingleWifi, Listed, Inactive
<1> QED BY <1>1, <1>2, <1>3, ReplyDoes

\* The type part, and with it the whole of ListInv, is kept by every step.
LEMMA TypeStep ==
  ASSUME TypeOK, [Next]_vars
  PROVE  TypeOK'
<1> USE DEF TypeOK
<1>0. client \in ClientType /\ subs \in SubsType BY DEF ClientType, SubsType
<1>1. ASSUME NEW i \in ID, SubscribeRsrc(i) PROVE TypeOK'
  <2>1. CASE EnforceSingle /\ Listed(subs) # {}
    BY <1>1, <2>1 DEF SubscribeRsrc
  <2>2. CASE ~(EnforceSingle /\ Listed(subs) # {})
    <3>1. [client EXCEPT ![i] = "asked"] \in ClientType BY <1>0 DEF ClientType
    <3>2. Apply(OnRsrcEvent(mState, "SUBSCRIBE", subs, i), [client EXCEPT ![i] = "asked"])
      BY <1>1, <2>2 DEF SubscribeRsrc
    <3>3. "SUBSCRIBE" \in Event BY DEF Event
    <3>4. /\ mState' \in State /\ subs' \in SubsType
          /\ client' \in ClientType /\ asks' \in Seq(Ask)
      BY <1>0, <3>1, <3>2, <3>3, ApplyType
    <3>5. UNCHANGED <<conn, replies>> /\ dropped' \subseteq dropped
      BY <1>1, <2>2 DEF SubscribeRsrc
    <3> QED BY <3>4, <3>5 DEF SubsType, ClientType
  <2> QED BY <2>1, <2>2
<1>2. ASSUME NEW i \in ID, UnsubscribeRsrc(i) PROVE TypeOK'
  <2>0. PICK also \in Misread(subs, i) :
          Apply(OnRsrcEvent(mState, "UNSUBSCRIBE", Without(subs, also), i), Ends(i, also))
    BY <1>2 DEF UnsubscribeRsrc
  <2>1. Ends(i, also) \in ClientType BY <1>0 DEF ClientType, Ends
  <2>2. Without(subs, also) \in SubsType BY <1>0, ListType
  <2>3. "UNSUBSCRIBE" \in Event BY DEF Event
  <2>4. /\ mState' \in State /\ subs' \in SubsType
        /\ client' \in ClientType /\ asks' \in Seq(Ask)
    BY <2>0, <2>1, <2>2, <2>3, ApplyType
  <2>5. UNCHANGED <<dropped, conn, replies>> BY <1>2 DEF UnsubscribeRsrc
  <2> QED BY <2>4, <2>5 DEF SubsType, ClientType
<1>11. ASSUME NEW i \in ID, ReleaseUnlisted(i) PROVE TypeOK'
  BY <1>11 DEF ReleaseUnlisted
<1>3. ASSUME HandleReply PROVE TypeOK'
  <2>1. Head(replies) \in Event BY <1>3 DEF HandleReply, Event
  <2>2. PICK i \in ID : Apply(OnRsrcEvent(mState, Head(replies), subs, i), client)
    BY <1>3 DEF HandleReply
  <2>3. /\ mState' \in State /\ subs' \in SubsType
        /\ client' \in ClientType /\ asks' \in Seq(Ask)
    BY <2>1, <2>2, <1>0, ApplyType
  <2>4. /\ replies' \in Seq({"GRANTED", "RELEASED", "DENIED"})
        /\ UNCHANGED <<dropped, conn>>
    BY <1>3 DEF HandleReply
  <2> QED BY <2>3, <2>4 DEF SubsType, ClientType
<1>4. CASE EngineUp BY <1>4 DEF EngineUp
<1>5. CASE FwOpen BY <1>5 DEF FwOpen, NextAsk
<1>6. CASE FwRefuse BY <1>6 DEF FwRefuse, NextAsk
<1>7. CASE FwClose BY <1>7 DEF FwClose, NextAsk
<1>8. CASE FwIgnore BY <1>8 DEF FwIgnore, NextAsk
<1>9. CASE FwLose BY <1>9 DEF FwLose
<1>10. CASE UNCHANGED vars BY <1>10 DEF vars
<1> QED BY <1>1, <1>2, <1>3, <1>4, <1>5, <1>6, <1>7, <1>8, <1>9, <1>10, <1>11
        DEF Next, FwAnswer

LEMMA ListStep ==
  ASSUME ListInv, [Next]_vars
  PROVE  ListInv'
<1>0. SUFFICES CoreInv' BY TypeStep DEF ListInv, CoreInv
<1>1. ASSUME NEW i \in ID, SubscribeRsrc(i) PROVE CoreInv'
  BY <1>1, SubscribeKeepsCore
<1>2. ASSUME NEW i \in ID, UnsubscribeRsrc(i) PROVE CoreInv'
  BY <1>2, UnsubscribeKeepsCore
<1>3. CASE HandleReply BY <1>3, ReplyKeepsCore
<1>4. CASE EngineUp
  <2>1. \A j \in ID :
          /\ subs'[j] = "absent"
          /\ IF j \in dropped' THEN client'[j] # "idle" ELSE client'[j] = "idle"
    BY <1>4 DEF EngineUp, ListInv, TypeOK, ClientServed
  <2>2. mState' = mState /\ mState # "Releasing"
    BY <1>4 DEF EngineUp, ListInv, ListMatchesState
  <2> QED BY <2>1, <2>2 DEF CoreInv, ListMatchesState, ClientServed, SingleWifi,
          Listed, Inactive
<1>7. ASSUME NEW i \in ID, ReleaseUnlisted(i) PROVE CoreInv'
  <2>1. i \in dropped /\ i \in BIT
    BY <1>7 DEF ReleaseUnlisted, ListInv, TypeOK, ClientServed
  <2>2. /\ UNCHANGED <<mState, subs, dropped>> /\ client \in ClientType
        /\ \A j \in ID : client'[j] = IF j = i THEN "closing" ELSE client[j]
    BY <1>7, <2>1 DEF ReleaseUnlisted, ListInv, TypeOK, ClientType
  <2> QED BY <2>1, <2>2 DEF ListInv, CoreInv, ListMatchesState, ClientServed, SingleWifi,
          Listed, Inactive
<1>5. CASE UNCHANGED <<mState, subs, client, dropped>>
  BY <1>5 DEF ListInv, CoreInv, ListMatchesState, ClientServed, SingleWifi,
              Listed, Inactive
<1>6. (FwAnswer \/ FwLose \/ UNCHANGED vars) => UNCHANGED <<mState, subs, client, dropped>>
  BY DEF FwAnswer, FwOpen, FwRefuse, FwClose, FwIgnore, FwLose, vars
<1> QED BY <1>1, <1>2, <1>3, <1>4, <1>5, <1>6, <1>7 DEF Next

-----------------------------------------------------------------------------
(* What is in flight.                                                      *)

\* The machine enters Acquired only when it handles a GRANTED in Pending, and
\* no RELEASED leaves it there.
LEMMA AcquiredOnlyByGrant ==
  ASSUME ListInv, HandleReply, mState' = "Acquired"
  PROVE  \/ mState = "Pending" /\ Head(replies) = "GRANTED"
         \/ mState = "Acquired" /\ Head(replies) # "RELEASED"
  BY ReplyDoes DEF GrantEffect, EndEffect, IgnoreEffect

LEMMA ReplyKeepsLoss ==
  ASSUME IInv, HandleReply
  PROVE  LossInv'
<1> DEFINE n == Len(replies)
<1>1. replies \in Seq({"GRANTED", "RELEASED", "DENIED"}) /\ replies # << >>
  BY DEF HandleReply, IInv, ListInv, TypeOK
<1>2. conn' = conn /\ replies' = Tail(replies) BY DEF HandleReply
<1>3. /\ n \in Nat \ {0} /\ Len(replies') = n - 1
      /\ \A k \in 1..(n - 1) : replies'[k] = replies[k + 1]
      /\ Head(replies) = replies[1]
  BY <1>1, <1>2
\* a RELEASED behind the head is still queued, one place further on
<1>4. ASSUME NEW j \in 2..n, replies[j] = "RELEASED"
      PROVE  j - 1 \in 1..Len(replies') /\ replies'[j - 1] = "RELEASED"
  BY <1>3, <1>4
<1>5. LossReported'
  <2> SUFFICES ASSUME mState' = "Acquired", conn # "up"
               PROVE  \E k \in 1..Len(replies') : replies'[k] = "RELEASED"
    BY <1>2 DEF LossReported
  <2>1. \E j \in 2..n : replies[j] = "RELEASED"
    <3>1. CASE mState = "Pending" /\ Head(replies) = "GRANTED"
      BY <3>1, <1>3 DEF IInv, LossInv, GrantIsReal
    <3>2. CASE mState = "Acquired" /\ Head(replies) # "RELEASED"
      BY <3>2, <1>3 DEF IInv, LossInv, LossReported
    <3> QED BY <3>1, <3>2, AcquiredOnlyByGrant DEF IInv
  <2> QED BY <2>1, <1>4
<1>6. GrantIsReal'
  <2> SUFFICES ASSUME NEW k \in 1..Len(replies'), replies'[k] = "GRANTED", conn # "up"
               PROVE  \E j \in 1..Len(replies') : j > k /\ replies'[j] = "RELEASED"
    BY <1>2 DEF GrantIsReal
  <2>1. k + 1 \in 1..n /\ replies[k + 1] = "GRANTED" BY <1>3
  <2>2. PICK j \in 1..n : j > k + 1 /\ replies[j] = "RELEASED"
    BY <2>1 DEF IInv, LossInv, GrantIsReal
  <2>3. j \in 2..n /\ j - 1 > k BY <2>1, <2>2, <1>3
  <2> QED BY <2>2, <2>3, <1>4
<1> QED BY <1>5, <1>6 DEF LossInv

\* A report appended to the queue keeps LossInv if it says what happened.
LEMMA ReportKeepsLoss ==
  ASSUME IInv, mState' = mState,
         NEW reply \in {"GRANTED", "RELEASED", "DENIED"},
         replies' = Append(replies, reply),
         \/ reply = "GRANTED" /\ conn' = "up"
         \/ reply = "RELEASED"
         \/ reply = "DENIED" /\ conn' = conn
  PROVE  LossInv'
<1> DEFINE n == Len(replies)
<1>1. replies \in Seq({"GRANTED", "RELEASED", "DENIED"}) BY DEF IInv, ListInv, TypeOK
<1>2. /\ n \in Nat /\ Len(replies') = n + 1 /\ replies'[n + 1] = reply
      /\ \A k \in 1..n : replies'[k] = replies[k]
  BY <1>1
<1>3. CASE reply = "GRANTED" /\ conn' = "up"
  BY <1>3 DEF LossInv, LossReported, GrantIsReal
<1>4. CASE reply = "RELEASED"
  <2>1. n + 1 \in 1..Len(replies') /\ replies'[n + 1] = "RELEASED" BY <1>2, <1>4
  <2>2. \A k \in 1..Len(replies') : replies'[k] = "GRANTED" => n + 1 > k
    BY <1>2, <1>4
  <2> QED BY <2>1, <2>2 DEF LossInv, LossReported, GrantIsReal
<1>5. CASE reply = "DENIED" /\ conn' = conn
  <2>1. \A k \in 1..Len(replies') : replies'[k] = "GRANTED" => k \in 1..n /\ replies[k] = "GRANTED"
    BY <1>2, <1>5
  <2>2. \A k \in 1..n : replies[k] = "RELEASED" => k \in 1..Len(replies') /\ replies'[k] = "RELEASED"
    BY <1>2
  <2> QED BY <2>1, <2>2, <1>5 DEF IInv, LossInv, LossReported, GrantIsReal
<1> QED BY <1>3, <1>4, <1>5

LEMMA LossStep ==
  ASSUME IInv, [Next]_vars
  PROVE  LossInv'
<1>1. ASSUME NEW i \in ID, SubscribeRsrc(i) \/ UnsubscribeRsrc(i) PROVE LossInv'
  <2>1. UNCHANGED <<conn, replies>> BY <1>1 DEF SubscribeRsrc, UnsubscribeRsrc
  <2>2. mState' = "Acquired" => mState = "Acquired"
    BY <1>1, SubscribeDoes, UnsubscribeDoes DEF IInv, SubscribeEffect, UnsubscribeEffect
  <2> QED BY <2>1, <2>2 DEF IInv, LossInv, LossReported, GrantIsReal
<1>2. CASE HandleReply BY <1>2, ReplyKeepsLoss
<1>3. CASE FwOpen BY <1>3, ReportKeepsLoss DEF FwOpen
<1>4. CASE FwRefuse BY <1>4, ReportKeepsLoss DEF FwRefuse
<1>5. CASE FwClose BY <1>5, ReportKeepsLoss DEF FwClose
<1>6. CASE FwLose BY <1>6, ReportKeepsLoss DEF FwLose
<1>7. CASE UNCHANGED <<mState, conn, replies>>
  BY <1>7 DEF IInv, LossInv, LossReported, GrantIsReal
<1>8. (EngineUp \/ FwIgnore \/ UNCHANGED vars) => UNCHANGED <<mState, conn, replies>>
  BY DEF EngineUp, FwIgnore, vars
<1>9. ASSUME NEW i \in ID, ReleaseUnlisted(i) PROVE LossInv'
  BY <1>7, <1>9 DEF ReleaseUnlisted
<1> QED BY <1>1, <1>2, <1>3, <1>4, <1>5, <1>6, <1>7, <1>8, <1>9 DEF Next, FwAnswer

-----------------------------------------------------------------------------
\* The invariant holds initially and is kept by every step.
LEMMA InitIInv == Init => IInv
  BY DEF Init, IInv, ListInv, TypeOK, State, ListMatchesState, ClientServed, SingleWifi,
         LossInv, LossReported, GrantIsReal, Listed, Inactive

LEMMA StepIInv == IInv /\ [Next]_vars => IInv'
  BY ListStep, LossStep DEF IInv

THEOREM Inductive == Spec => []IInv
  BY InitIInv, StepIInv, PTL DEF Spec

\* Type correctness.
THEOREM TypeCorrect == Spec => []TypeOK
  BY Inductive, PTL DEF IInv, ListInv

\* The list is empty in Released, and Releasing has somebody to tell.
THEOREM ListSafe == Spec => []ListMatchesState
  BY Inductive, PTL DEF IInv, ListInv

\* No client is forgotten and none is kept by mistake.
THEOREM ClientsSafe == Spec => []ClientServed
  BY Inductive, PTL DEF IInv, ListInv

\* Nobody is left with a dead connection.
THEOREM OpenIsRealSafe == Spec => []OpenIsReal
<1>1. IInv => OpenIsReal
  BY DEF IInv, ListInv, ClientServed, LossInv, LossReported, OpenIsReal
<1> QED BY <1>1, Inductive, PTL

-----------------------------------------------------------------------------
(* The machine implements the lease.                                       *)

LeaseStep == [Lease!Next]_<<Served, mState = "Acquired">>

LEMMA SubscribeImplements ==
  ASSUME ListInv, NEW i \in ID, SubscribeRsrc(i)
  PROVE  LeaseStep
<1>0. SubscribeEffect(i) /\ client \in ClientType
  BY SubscribeDoes DEF ListInv, TypeOK, ClientType
<1>1. CASE UNCHANGED <<mState, subs, client, dropped>> BY <1>1 DEF Served, LeaseStep
<1>2. ASSUME NEW next \in {"asked", "open"}, dropped' = dropped \ {i},
             mState' = "Acquired" <=> mState = "Acquired",
             next = (IF mState = "Acquired" THEN "open" ELSE "asked"),
             client' = [client EXCEPT ![i] = next]
      PROVE  LeaseStep
  <2>1. Served[i] = "idle" BY <1>0 DEF SubscribeEffect, Served
  <2>2. \A j \in ID : client'[j] = IF j = i THEN next ELSE client[j]
    BY <1>0, <1>2 DEF ClientType
  <2>3. Served' = [Served EXCEPT ![i] = next] BY <1>2, <2>2 DEF Served
  <2>4. Lease!Request(i) BY <1>2, <2>1, <2>3 DEF Lease!Request
  <2> QED BY <2>4 DEF LeaseStep, Lease!Next
<1>3. CASE /\ mState \in {"Released", "Pending"} /\ mState' = "Pending"
           /\ dropped' = dropped \ {i} /\ client' = [client EXCEPT ![i] = "asked"]
  BY <1>2, <1>3
<1>4. CASE /\ mState = "Acquired" /\ mState' = "Acquired"
           /\ dropped' = dropped \ {i} /\ client' = [client EXCEPT ![i] = "open"]
  BY <1>2, <1>4
<1>5. SubscribeEffect(i) BY <1>0
<1> HIDE DEF LeaseStep
<1> QED BY <1>5, <1>1, <1>3, <1>4 DEF SubscribeEffect

LEMMA UnsubscribeImplements ==
  ASSUME ListInv, NEW i \in ID, UnsubscribeRsrc(i)
  PROVE  LeaseStep
<1>0. UnsubscribeEffect(i) /\ client \in ClientType /\ subs \in SubsType
  BY UnsubscribeDoes DEF ListInv, TypeOK, ClientType, SubsType
<1>1. /\ UNCHANGED dropped
      /\ Served[i] \in {"asked", "open"}
  BY <1>0 DEF UnsubscribeEffect, Served, ListInv, ClientServed
<1>2. mState = "Acquired" => \A j \in ID : subs[j] # "absent" <=> Served[j] = "open"
  BY DEF ListInv, TypeOK, ClientServed, ListMatchesState, Inactive, Served
<1>3. CASE Kind = "ATL"
  <2>1. PICK also \in SUBSET (Listed(subs) \ {i}) :
          /\ subs' = Without(subs, also \cup {i})
          /\ client' = [j \in ID |-> IF j \in also \cup {i} THEN "idle" ELSE client[j]]
    BY <1>0, <1>3 DEF UnsubscribeEffect
  <2>2. also \in SUBSET ID /\ i \notin also /\ \A j \in also : subs[j] # "absent"
    BY DEF Listed
  <2>3. \A j \in also : Served[j] \in {"asked", "open"}
    BY <1>0, <2>2 DEF UnsubscribeEffect, ListInv, TypeOK, ClientServed, ListMatchesState,
                      Inactive, Served
  <2>4. Served' = [j \in ID |-> IF j \in also THEN "idle" ELSE IF j = i THEN "idle" ELSE Served[j]]
    BY <1>1, <2>1 DEF Served
  <2>5. mState' = "Acquired" <=> mState = "Acquired" /\ \E j \in ID : Served'[j] = "open"
    <3>1. Listed(subs') = {} <=> \A j \in ID : j \in also \cup {i} \/ subs[j] = "absent"
      BY <2>1 DEF Listed, Without
    <3>2. mState' = IF Listed(subs') = {} THEN "Released" ELSE mState
      BY <1>0, <1>3 DEF UnsubscribeEffect
    <3> QED BY <1>2, <2>4, <3>1, <3>2
  <2>6. Lease!Leave(i, also) BY <1>1, <2>2, <2>3, <2>4, <2>5 DEF Lease!Leave
  <2> QED BY <2>2, <2>6 DEF LeaseStep, Lease!Next
<1>4. CASE Kind = "WIFI"
  <2>1. client' = [client EXCEPT ![i] = "closing"] /\ mState' = "Releasing"
    BY <1>0, <1>4 DEF UnsubscribeEffect
  <2>2. Served' = [j \in ID |-> IF j \in {} THEN "idle" ELSE IF j = i THEN "closing" ELSE Served[j]]
    BY <1>0, <1>1, <2>1 DEF Served, ClientType, UnsubscribeEffect
  <2>3. mState = "Acquired" => \A j \in ID \ {i} : Served[j] # "open"
    BY <1>0, <1>2, <1>4 DEF ListInv, SingleWifi, UnsubscribeEffect
  <2>4. Lease!Leave(i, {})
    BY <1>1, <2>1, <2>2, <2>3 DEF Lease!Leave
  <2> QED BY <2>4 DEF LeaseStep, Lease!Next
<1> QED BY <1>3, <1>4, NifAssumption

LEMMA ReplyImplements ==
  ASSUME ListInv, HandleReply
  PROVE  LeaseStep
<1>0. dropped' = dropped BY DEF HandleReply
<1>1. CASE GrantEffect
  <2>1. Served' = [i \in ID |-> IF Served[i] = "asked" THEN "open" ELSE Served[i]]
    BY <1>0, <1>1 DEF GrantEffect, Served
  <2> QED BY <1>1, <2>1 DEF GrantEffect, LeaseStep, Lease!Next, Lease!Grant
<1>2. CASE EndEffect
  <2>1. Served' = [i \in ID |-> "idle"] BY <1>0, <1>2 DEF EndEffect, Served
  <2> QED BY <1>2, <2>1 DEF EndEffect, LeaseStep, Lease!Next, Lease!End, Lease!AllIdle
<1>3. CASE IgnoreEffect BY <1>0, <1>3 DEF IgnoreEffect, LeaseStep, Served
<1> QED BY <1>1, <1>2, <1>3, ReplyDoes

LEMMA StepImplements == IInv /\ [Next]_vars => LeaseStep
<1> SUFFICES ASSUME ListInv, [Next]_vars PROVE LeaseStep
  BY DEF IInv
<1>1. ASSUME NEW i \in ID, SubscribeRsrc(i) PROVE LeaseStep
  BY <1>1, SubscribeImplements
<1>2. ASSUME NEW i \in ID, UnsubscribeRsrc(i) PROVE LeaseStep
  BY <1>2, UnsubscribeImplements
<1>3. CASE HandleReply BY <1>3, ReplyImplements
<1>4. CASE EngineUp
  <2>1. Served' = [i \in ID |-> "idle"] /\ UNCHANGED mState
    BY <1>4 DEF EngineUp, Served
  <2> QED BY <2>1 DEF LeaseStep, Lease!Next, Lease!Restart, Lease!AllIdle
<1>5. CASE FwAnswer \/ FwLose \/ UNCHANGED vars
  BY <1>5 DEF FwAnswer, FwOpen, FwRefuse, FwClose, FwIgnore, FwLose, vars, LeaseStep, Served
\* a dropped daemon that closes changes nothing of the lease
<1>6. ASSUME NEW i \in ID, ReleaseUnlisted(i) PROVE LeaseStep
  <2>1. i \in dropped /\ UNCHANGED <<mState, dropped>> /\ client \in ClientType
    BY <1>6 DEF ReleaseUnlisted, ListInv, TypeOK, ClientServed, ClientType
  <2>2. \A j \in ID \ {i} : client'[j] = client[j]
    BY <1>6, <2>1 DEF ReleaseUnlisted, ClientType
  <2> QED BY <2>1, <2>2 DEF LeaseStep, Served
<1> QED BY <1>1, <1>2, <1>3, <1>4, <1>5, <1>6 DEF Next

\* Every behaviour of the machine with its connectivity service is, seen by
\* the clients it serves, a behaviour of the lease.
THEOREM ImplementsLease == Spec => LeaseSpec
<1>1. Init => Lease!Init BY DEF Init, Lease!Init, Lease!AllIdle, Served
<1> QED BY <1>1, StepImplements, Inductive, PTL DEF Spec, LeaseSpec, Lease!Spec, LeaseStep
=============================================================================
