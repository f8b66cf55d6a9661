------------------------------- MODULE LocApi -------------------------------
(***************************************************************************)
(* LocApiBase and the adapters registered with it (LocApiBase.cpp,         *)
(* LocAdapterBase).  A client thread creates adapters, changes their event *)
(* masks and destroys them; the engine's thread walks the array of         *)
(* adapters, with no lock, to deliver restarts, reports and requests; the  *)
(* message task opens and closes the engine's handle.                      *)
(*                                                                         *)
(* The engine's side of open() is not in the repository.  addAdapter opens *)
(* with the mask of the new adapter alone while the others go on being     *)
(* served, so open(mask) adds events to those already registered; close()  *)
(* and a restart of the engine forget them, and nothing registers while    *)
(* the engine is down.                                                     *)
(***************************************************************************)
EXTENDS Naturals, Sequences

CONSTANTS
  Adapter,       \* the adapters a client may create
  supports,      \* the adapters whose mSupportsAgpsRequests is set
  EventBit,      \* LOC_API_ADAPTER_EVENT_MASK_T, as a set of events
  AskedMasks,    \* the masks adapters are created with
  mExcludedMask, \* the events this context never registers
  MaxAdapters,   \* MAX_ADAPTERS
  MaxActs        \* bound on the client's calls and the engine's deliveries together

ASSUME ApiAssumption == /\ supports \subseteq Adapter /\ mExcludedMask \subseteq EventBit
                        /\ AskedMasks \subseteq SUBSET EventBit
                        /\ MaxAdapters \in Nat /\ MaxActs \in Nat

VARIABLES
  mLocAdapters,  \* the array, up to its first NULL
  mEvtMask,      \* the mask of each adapter
  client,        \* the client thread: "idle", or the call it is in, with what is still to be done
  msgs,          \* the queue of the message task
  reopening,     \* the message task is between close() and open() of a LocSsrMsg
  registered,    \* the events the engine reports to this process
  engineUp,      \* the engine runs
  restarts,      \* how often the engine came back
  walk,          \* the delivery the engine's thread is in
  renegotiated,  \* the last restart for which the handle was reopened
  told,          \* the last restart each adapter has handled
  acts

apiVars == <<mLocAdapters, mEvtMask, client, msgs, reopening, registered,
          engineUp, restarts, walk, renegotiated, told, acts>>
clientVars == <<mLocAdapters, mEvtMask, client>>
engineVars == <<engineUp, restarts, walk>>
taskVars   == <<reopening, renegotiated, told>>

NoCall    == [call |-> "idle"]
NoWalk  == [event |-> "none"]
Open(mask) == [kind |-> "LocOpenMsg", mask |-> mask]
Ssr(n)     == [kind |-> "LocSsrMsg", restart |-> n]
Up(a, n)   == [kind |-> "LocEngUp", to |-> a, restart |-> n]
Down(a)    == [kind |-> "LocEngDown", to |-> a]

\* While an adapter is taken out of the middle, its place is NULL: whoever goes
\* through the array from the start gets no further.
Visible == 1..(IF client.call = "remove" THEN client.hole - 1 ELSE Len(mLocAdapters))

getEvtMask == (UNION {mEvtMask[mLocAdapters[i]] : i \in Visible}) \ mExcludedMask

ApiInit == /\ mLocAdapters = <<>> /\ mEvtMask = [a \in Adapter |-> {}]
        /\ client = NoCall /\ msgs = <<>> /\ reopening = FALSE /\ registered = {}
        /\ engineUp = TRUE /\ restarts = 0 /\ walk = NoWalk
        /\ renegotiated = 0 /\ told = [a \in Adapter |-> 0]
        /\ acts = 0

-----------------------------------------------------------------------------
(* The client thread.  A call changes the array or the mask first and sends *)
(* its message, or closes the handle, in a later step.                      *)

ClientCall == client = NoCall /\ acts < MaxActs /\ acts' = acts + 1

addAdapter(a, mask) ==
  /\ ClientCall /\ Len(mLocAdapters) < MaxAdapters
  /\ \A i \in DOMAIN mLocAdapters : mLocAdapters[i] # a
  /\ mEvtMask' = [mEvtMask EXCEPT ![a] = mask]
  /\ mLocAdapters' = Append(mLocAdapters, a)
  /\ client' = [call |-> "open", mask |-> mask]
  /\ UNCHANGED <<msgs, registered, taskVars, engineVars>>

\* The place of the adapter becomes NULL: in the middle of the array a hole, ...
removeAdapter(a) ==
  /\ ClientCall
  /\ \E j \in DOMAIN mLocAdapters :
       /\ mLocAdapters[j] = a
       /\ IF j = Len(mLocAdapters)
          THEN /\ mLocAdapters' = SubSeq(mLocAdapters, 1, j - 1)
               /\ client' = [call |-> IF j = 1 THEN "close" ELSE "update"]
          ELSE client' = [call |-> "remove", hole |-> j] /\ UNCHANGED mLocAdapters
       /\ walk' = IF walk # NoWalk /\ j < walk.hole THEN [walk EXCEPT !.hole = j] ELSE walk
  /\ UNCHANGED <<mEvtMask, msgs, registered, taskVars, engineUp, restarts>>

\* ... into which the last adapter is copied, to stand in the array twice, ...
MoveLast ==
  /\ client.call = "remove"
  /\ mLocAdapters' = [mLocAdapters EXCEPT ![client.hole] = mLocAdapters[Len(mLocAdapters)]]
  /\ client' = [call |-> "shorten", hole |-> client.hole]
  /\ UNCHANGED <<mEvtMask, acts, msgs, registered, taskVars, engineVars>>

\* ... until its old place is NULL.
Shorten ==
  /\ client.call = "shorten"
  /\ mLocAdapters' = SubSeq(mLocAdapters, 1, Len(mLocAdapters) - 1)
  /\ client' = [call |-> "update"]
  /\ UNCHANGED <<mEvtMask, acts, msgs, registered, taskVars, engineVars>>

updateEvtMask(a, e, enable) ==
  /\ ClientCall /\ \E i \in DOMAIN mLocAdapters : mLocAdapters[i] = a
  /\ mEvtMask' = [mEvtMask EXCEPT ![a] = IF enable THEN @ \cup {e} ELSE @ \ {e}]
  /\ client' = [call |-> "update"]
  /\ UNCHANGED <<mLocAdapters, msgs, registered, taskVars, engineVars>>

Finish ==
  /\ client.call \in {"open", "update", "close"} /\ client' = NoCall
  /\ CASE client.call = "open"   -> msgs' = Append(msgs, Open(client.mask)) /\ UNCHANGED registered
       [] client.call = "update" -> msgs' = Append(msgs, Open(getEvtMask)) /\ UNCHANGED registered
       [] client.call = "close"  -> registered' = {} /\ UNCHANGED msgs
  /\ UNCHANGED <<mLocAdapters, mEvtMask, acts, taskVars, engineVars>>

-----------------------------------------------------------------------------
(* The message task.                                                        *)

open(mask) == registered' = IF engineUp THEN registered \cup mask ELSE registered

\* LocSsrMsg: close(), then open(getEvtMask()) with the mask of that moment.
SsrClose ==
  /\ ~reopening /\ msgs # <<>> /\ Head(msgs).kind = "LocSsrMsg"
  /\ registered' = {} /\ reopening' = TRUE
  /\ UNCHANGED <<clientVars, engineVars, msgs, renegotiated, told, acts>>

SsrOpen ==
  /\ reopening /\ reopening' = FALSE
  /\ open(getEvtMask)
  /\ renegotiated' = Head(msgs).restart /\ msgs' = Tail(msgs)
  /\ UNCHANGED <<clientVars, engineVars, told, acts>>

ProcMsg ==
  /\ ~reopening /\ msgs # <<>> /\ Head(msgs).kind # "LocSsrMsg"
  /\ msgs' = Tail(msgs)
  /\ LET m == Head(msgs) IN
     /\ IF m.kind = "LocOpenMsg" THEN open(m.mask) ELSE UNCHANGED registered
     /\ told' = IF m.kind = "LocEngUp" THEN [told EXCEPT ![m.to] = m.restart] ELSE told
  /\ UNCHANGED <<clientVars, engineVars, reopening, renegotiated, acts>>

-----------------------------------------------------------------------------
(* The engine and its thread.                                               *)

\* Where the array has had a hole since the delivery began, if anywhere.
Holed == IF client.call \in {"remove", "shorten"} THEN client.hole ELSE MaxAdapters + 1

Start(event) == [event |-> event, next |-> 1, present |-> mLocAdapters, hole |-> Holed,
                 got |-> [a \in Adapter |-> 0], handled |-> FALSE]

Deliver(event) == /\ walk = NoWalk /\ acts < MaxActs /\ acts' = acts + 1
                  /\ walk' = Start(event)

\* The engine crashes, forgetting every registration: handleEngineDownEvent.
handleEngineDownEvent ==
  /\ engineUp /\ engineUp' = FALSE /\ registered' = {}
  /\ Deliver("down")
  /\ UNCHANGED <<clientVars, msgs, taskVars, restarts>>

\* Mutant: the adapters are told, and the handle is left as it was.
UpWithoutSsr ==
  /\ ~engineUp /\ engineUp' = TRUE /\ restarts' = restarts + 1
  /\ Deliver("up")
  /\ UNCHANGED <<clientVars, msgs, registered, taskVars>>

\* handleEngineUpEvent: the LocSsrMsg goes out before the adapters are told.
handleEngineUpEvent ==
  /\ ~engineUp /\ engineUp' = TRUE /\ restarts' = restarts + 1
  /\ Deliver("up")
  /\ msgs' = Append(msgs, Ssr(restarts'))
  /\ UNCHANGED <<clientVars, registered, taskVars>>

\* reportPosition, reportSv, reportStatus, reportNmea, reportGpsMeasurementData
\* go to every adapter; requestATL, releaseATL, requestXtraData, requestTime,
\* requestNiNotify and their like to the first one that handles them.
Report(event) ==
  /\ engineUp /\ event \in {"report", "request"}
  /\ Deliver(event)
  /\ UNCHANGED <<clientVars, msgs, registered, taskVars, engineUp, restarts>>

\* Mutant: a report, too, stops at the first adapter that handles it.
TakesReports(event, a) == event \in {"report", "request"} /\ a \in supports

Takes(event, a) == event = "request" /\ a \in supports

\* One turn of TO_ALL_LOCADAPTERS or TO_1ST_HANDLING_LOCADAPTERS.
WalkOne ==
  /\ walk # NoWalk /\ walk.next \in Visible /\ ~walk.handled
  /\ LET a == mLocAdapters[walk.next] IN
     /\ walk' = [walk EXCEPT !.next = @ + 1, !.got[a] = @ + 1,
                             !.handled = Takes(walk.event, a)]
     /\ msgs' = CASE walk.event = "up"   -> Append(msgs, Up(a, restarts))
                  [] walk.event = "down" -> Append(msgs, Down(a))
                  [] OTHER -> msgs
  /\ UNCHANGED <<clientVars, registered, taskVars, engineUp, restarts, acts>>

WalkEnds ==
  /\ walk # NoWalk /\ (walk.next \notin Visible \/ walk.handled)
  /\ walk' = NoWalk
  /\ UNCHANGED <<clientVars, msgs, registered, taskVars, engineUp, restarts, acts>>

ApiNext ==
  \/ \E a \in Adapter : \/ \E mask \in AskedMasks : addAdapter(a, mask)
                        \/ removeAdapter(a)
                        \/ \E e \in EventBit, enable \in BOOLEAN : updateEvtMask(a, e, enable)
  \/ MoveLast \/ Shorten \/ Finish \/ SsrClose \/ SsrOpen \/ ProcMsg
  \/ handleEngineDownEvent \/ handleEngineUpEvent \/ WalkOne \/ WalkEnds
  \/ \E event \in {"report", "request"} : Report(event)

ApiSpec == ApiInit /\ [][ApiNext]_apiVars

-----------------------------------------------------------------------------
(* The array holds each adapter once, but for the one on its way into the   *)
(* place of another, and fits MAX_ADAPTERS; every field ranges over its     *)
(* type.                                                                    *)
ApiTypeOK ==
  /\ mLocAdapters \in Seq(Adapter) /\ mEvtMask \in [Adapter -> SUBSET EventBit]
  /\ \A i, j \in DOMAIN mLocAdapters :
       i < j /\ mLocAdapters[i] = mLocAdapters[j] =>
         client = [call |-> "shorten", hole |-> i] /\ j = Len(mLocAdapters)
  /\ Len(mLocAdapters) <= MaxAdapters /\ registered \subseteq EventBit
  /\ told \in [Adapter -> 0..restarts] /\ renegotiated \in 0..restarts

ApiAtRest == msgs = <<>> /\ client = NoCall /\ walk = NoWalk /\ engineUp

(* When every message is handled and the engine runs, it reports all the    *)
(* events the registered adapters asked for, whatever crashed, restarted,   *)
(* joined, left or changed its mask on the way: addAdapter, removeAdapter,  *)
(* updateEvtMask and LocSsrMsg together leave no adapter deaf.              *)
EventsCovered == ApiAtRest => getEvtMask \subseteq registered

(* No adapter handles the restart of the engine before the handle has been  *)
(* closed and reopened for that restart: handleEngineUpEvent queues the     *)
(* LocSsrMsg before any adapter's LocEngUp.                                 *)
ReopenedFirst == \A a \in Adapter : told[a] <= renegotiated

(* removeAdapter changes the array, with no lock, under a delivery that     *)
(* goes through it.  The adapters in front of every hole made on the way    *)
(* are still reached exactly once each, whoever joins, leaves or changes    *)
(* its mask; without a removal those are all.  An adapter behind a hole may *)
(* be missed, even though it keeps its place, and the last one, which       *)
(* moves, may be missed or reached twice.  A request stops at the first     *)
(* adapter that takes it, so that no two take it, and is not lost when one  *)
(* in front of the holes supports it.                                       *)
InFront == {walk.present[i] : i \in {i \in DOMAIN walk.present : i < walk.hole}}

DeliveredOnce ==
  walk # NoWalk /\ (walk.handled \/ walk.next \notin Visible) =>
    IF walk.event = "request"
    THEN /\ \A a, b \in supports : walk.got[a] > 0 /\ walk.got[b] > 0 => a = b
         /\ InFront \cap supports # {} => \E a \in supports : walk.got[a] = 1
    ELSE \A a \in InFront : walk.got[a] = 1

\* Both: the adapters in front of every hole hear of every event, and of a
\* restart only after the handle was reopened.
AdaptersServed == DeliveredOnce /\ ReopenedFirst
=============================================================================
