----------------------------- MODULE AgpsStates -----------------------------
(***************************************************************************)
(* The four states of an AGPS network-interface machine and what each does *)
(* with each resource event: AgpsReleasedState, AgpsPendingState,          *)
(* AgpsAcquiredState and AgpsReleasingState of loc_eng_agps.cpp.  The same *)
(* state objects serve the SUPL/internet machines (ATL and BIT clients),   *)
(* the WIFI machine and the emergency-data-call machine (DS), so they are  *)
(* operators here and the machines are modules of their own.               *)
(*                                                                         *)
(* A handler's result is a record: the next state, the subscriber list it  *)
(* leaves, the notification it sends to each subscriber and the connection *)
(* request it makes.  The list is a function on client identifiers, which  *)
(* is what addSubscriber's search for an equal entry makes of it.          *)
(***************************************************************************)
CONSTANTS ID,    \* identifiers of clients: connection handles or sender ids
          Kind   \* which Subscriber class the machine serves

ASSUME KindAssumption == Kind \in {"ATL", "WIFI", "DS"}

State  == {"Released", "Pending", "Acquired", "Releasing"}
Event  == {"SUBSCRIBE", "UNSUBSCRIBE", "GRANTED", "RELEASED", "DENIED"}
Ask    == {"REQUEST", "RELEASE"}

\* ATL and BIT clients keep the defaults of Subscriber; WIFI and DS override
\* waitForCloseComplete, setInactive and isInactive.
WaitForClose == Kind # "ATL"

Listed(subs)   == {i \in ID : subs[i] # "absent"}
Active(subs)   == {i \in ID : subs[i] = "active"}
Inactive(subs) == {i \in ID : subs[i] = "inactive"}

Without(subs, S) == [i \in ID |-> IF i \in S THEN "absent" ELSE subs[i]]

Notify(S, status) == [i \in ID |-> IF i \in S THEN status ELSE "nothing"]
Nobody == Notify({}, "nothing")

\* Nothing is added when an equal subscriber, active or not, is listed.
AddSubscriber(subs, i) ==
  IF subs[i] = "absent" THEN [subs EXCEPT ![i] = "active"] ELSE subs

\* One client closes: it is kept as inactive until the interface is gone, or
\* told and removed at once.  setInactive tells a DS client too.
Close(subs, i) ==
  IF WaitForClose THEN [subs EXCEPT ![i] = "inactive"] ELSE Without(subs, {i})
CloseNotice(i) == IF Kind = "WIFI" THEN Nobody ELSE Notify({i}, "UNSUBSCRIBE")

\* notifySubscribers tells and deletes the closing client's own list element
\* and goes on comparing the rest with it: what is read of the freed element
\* may equal any other, which is then told and deleted too.
Misread(subs, i) == IF WaitForClose THEN {{}} ELSE SUBSET (Listed(subs) \ {i})

Outcome(state, subs, told, ask) ==
  [state |-> state, subs |-> subs, told |-> told, ask |-> ask]
Ignore(state, subs) == Outcome(state, subs, Nobody, "none")

\* Mutant: postNotifyDelete false, those told stay in the list.
DropAllKeeps(subs, status) ==
  Outcome("Released", subs, Notify(Listed(subs), status), "none")

\* BROADCAST_ALL with deletion: everybody is told and the list is empty.
DropAll(subs, status) ==
  Outcome("Released", Without(subs, ID), Notify(Listed(subs), status), "none")

ReleasedOn(event, subs, i) ==
  CASE event = "SUBSCRIBE" ->
         Outcome("Pending", AddSubscriber(subs, i), Nobody, "REQUEST")
    [] event = "UNSUBSCRIBE" ->
         Outcome("Released", subs, CloseNotice(i), "none")
    [] OTHER -> Ignore("Released", subs)

\* Mutant: the last close is taken for the only one (hasSubscribers not asked).
UnsubscribeReleasesAlways(state, subs, i) ==
  Outcome("Released", Close(subs, i), CloseNotice(i), "RELEASE")

\* Mutant: no Releasing state, a machine left with inactive clients stays.
UnsubscribeNeverReleasing(state, subs, i) ==
  LET left == Close(subs, i) IN
  IF Listed(left) = {} THEN Outcome("Released", left, CloseNotice(i), "RELEASE")
                       ELSE Outcome(state, left, CloseNotice(i), "none")

\* The UNSUBSCRIBE branch that Pending and Acquired spell out alike.
UnsubscribeIn(state, subs, i) ==
  LET left == Close(subs, i) IN
  CASE Listed(left) = {} ->
         Outcome("Released", left, CloseNotice(i), "RELEASE")
    [] Listed(left) # {} /\ Active(left) = {} ->
         Outcome("Releasing", left, CloseNotice(i), "RELEASE")
    [] OTHER -> Outcome(state, left, CloseNotice(i), "none")

\* Mutant: GRANTED moves the machine on without notifying anybody.
GrantActiveSilent(subs) == Outcome("Acquired", subs, Nobody, "none")

\* BROADCAST_ACTIVE without deletion.
GrantActive(subs) == Outcome("Acquired", subs, Notify(Active(subs), "GRANTED"), "none")

PendingOn(event, subs, i) ==
  CASE event = "SUBSCRIBE" ->
         Outcome("Pending", AddSubscriber(subs, i), Nobody, "none")
    [] event = "UNSUBSCRIBE" -> UnsubscribeIn("Pending", subs, i)
    [] event = "GRANTED" -> GrantActive(subs)
    [] event = "DENIED" -> DropAll(subs, "DENIED")
    [] OTHER -> Ignore("Pending", subs)

\* Mutant: a client granted on arrival is not added to the list.
GrantNewcomerOnly(subs, i) == Outcome("Acquired", subs, Notify({i}, "GRANTED"), "none")

\* The interface is in hand: the newcomer is told at once, then added.
GrantNewcomer(subs, i) ==
  Outcome("Acquired", AddSubscriber(subs, i), Notify({i}, "GRANTED"), "none")

\* Mutant: a forced release is ignored, like DENIED.
ForcedReleaseIgnored(subs) == Ignore("Acquired", subs)

ForcedRelease(subs) == DropAll(subs, "RELEASED")

AcquiredOn(event, subs, i) ==
  CASE event = "SUBSCRIBE" -> GrantNewcomer(subs, i)
    [] event = "UNSUBSCRIBE" -> UnsubscribeIn("Acquired", subs, i)
    [] event = "RELEASED" -> ForcedRelease(subs)
    [] OTHER -> Ignore("Acquired", subs)

\* Mutant: BROADCAST_ACTIVE for BROADCAST_INACTIVE, the closers hear nothing.
CompleteCloseTellsActive(event, subs) ==
  Outcome("Released", Without(subs, Inactive(subs)), Notify(Active(subs), event), "none")

\* Mutant: nextState stays at the Acquired it is first assigned.
CompleteCloseInAcquired(event, subs) ==
  Outcome("Acquired", Without(subs, Inactive(subs)), Notify(Inactive(subs), event), "none")

\* Mutant: the interface is asked for again whether or not anybody needs it.
CompleteCloseAsksAgain(event, subs) ==
  Outcome("Pending", Without(subs, Inactive(subs)), Notify(Inactive(subs), event), "REQUEST")

\* The close of the inactive clients is complete; active ones that came since
\* need the interface again.
CompleteClose(event, subs) ==
  LET left == Without(subs, Inactive(subs))
      told == Notify(Inactive(subs), event)
  IN  IF Active(left) # {} THEN Outcome("Pending", left, told, "REQUEST")
                           ELSE Outcome("Released", left, told, "none")

ReleasingOn(event, subs, i) ==
  CASE event = "SUBSCRIBE" ->
         Outcome("Releasing", AddSubscriber(subs, i), Nobody, "none")
    [] event = "UNSUBSCRIBE" ->
         LET left == Close(subs, i)
         IN  Outcome(IF Listed(left) = {} THEN "Released" ELSE "Releasing",
                     left, CloseNotice(i), "none")
    [] event \in {"DENIED", "RELEASED"} -> CompleteClose(event, subs)
    [] OTHER -> Ignore("Releasing", subs)

\* mStatePtr->onRsrcEvent(event, data); i is the client for SUBSCRIBE and
\* UNSUBSCRIBE and plays no part otherwise.
OnRsrcEvent(state, event, subs, i) ==
  CASE state = "Released"  -> ReleasedOn(event, subs, i)
    [] state = "Pending"   -> PendingOn(event, subs, i)
    [] state = "Acquired"  -> AcquiredOn(event, subs, i)
    [] state = "Releasing" -> ReleasingOn(event, subs, i)
=============================================================================
