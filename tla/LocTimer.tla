------------------------------ MODULE LocTimer ------------------------------
(***************************************************************************)
(* The timer service: LocTimer.cpp, with the reference count of            *)
(* LocSharedLock.h and what LocTimer needs of LocHeap.                     *)
(*                                                                         *)
(* A client's start() makes a delegate and stop() gives it up, both under  *)
(* the client's mLock; the heap of delegates is only touched by the        *)
(* MsgTask thread, which also runs the callbacks; a poll thread waits on   *)
(* one timerfd, armed for the top of the heap.  The alarm container (wake  *)
(* on expire) is a second, separate instance of the same.                  *)
(*                                                                         *)
(* Time is counted in ticks, several to a second, because deadlines are    *)
(* kept in nanoseconds but compared in seconds.                            *)
(***************************************************************************)
EXTENDS Naturals, Sequences, FiniteSets

CONSTANTS Client,           \* LocTimer objects
          NoClient,
          TicksPerSecond,
          MaxTime,          \* bound: the last instant
          MaxStarts         \* bound: calls of start()

ASSUME TimerAssumption ==
  /\ NoClient \notin Client
  /\ TicksPerSecond \in Nat \ {0} /\ MaxTime \in Nat /\ MaxStarts \in Nat

Timer == 1..MaxStarts       \* LocTimerDelegate objects
None  == 0                  \* NULL, of a delegate; also a disarmed timerfd

VARIABLES now,
          alive, mTimer,                    \* of each LocTimer
          mRef,                             \* of its LocSharedLock
          mClient, mLock, mFutureTime,      \* of each delegate
          life,                             \* what has become of a delegate
          starts,
          heap, top,                        \* LocHeap: its members, its top
          msgs,                             \* messages for the MsgTask
          task,                             \* where the MsgTask thread is
          armed, polled,                    \* the timerfd; in the epoll set
          poller,                           \* where the poll thread is
          misused                           \* a deleted LocTimer was called

clients   == <<alive, mTimer, mRef>>
delegates == <<mClient, mLock, mFutureTime, life, starts>>
fd        == <<armed, polled>>
vars == <<now, clients, delegates, heap, top, msgs, task, fd, poller, misused>>

Sec(t) == t \div TicksPerSecond
Idle   == [at |-> "idle"]

Init ==
  /\ now = TicksPerSecond
  /\ alive = [c \in Client |-> TRUE]
  /\ mTimer = [c \in Client |-> None] /\ mRef = [c \in Client |-> 1]
  /\ mClient = [d \in Timer |-> NoClient] /\ mLock = [d \in Timer |-> NoClient]
  /\ mFutureTime = [d \in Timer |-> None]
  /\ life = [d \in Timer |-> "unborn"] /\ starts = 0
  /\ heap = {} /\ top = None
  /\ msgs = << >> /\ task = Idle
  /\ armed = None /\ polled = FALSE /\ poller = "wait"
  /\ misused = FALSE

-----------------------------------------------------------------------------
(* The clients, each on a thread of its own.                               *)

\* start() with any delay; a timer that runs is left alone.
Start(c) ==
  /\ alive[c] /\ mTimer[c] = None /\ starts < MaxStarts
  /\ LET d == starts + 1 IN
     /\ starts' = d
     /\ mTimer' = [mTimer EXCEPT ![c] = d]
     /\ mRef' = [mRef EXCEPT ![c] = @ + 1]             \* share()
     /\ mClient' = [mClient EXCEPT ![d] = c] /\ mLock' = [mLock EXCEPT ![d] = c]
     /\ \E t \in now..MaxTime : mFutureTime' = [mFutureTime EXCEPT ![d] = t]
     /\ life' = [life EXCEPT ![d] = "running"]
     /\ msgs' = Append(msgs, [type |-> "Push", timer |-> d])
  /\ UNCHANGED <<now, alive, heap, top, task, fd, poller, misused>>

\* Mutant: destroyLocked() nulls mClient and leaves it at that.
StoppedNoRemove(c, how) ==
  /\ mClient' = [mClient EXCEPT ![mTimer[c]] = NoClient]
  /\ life' = [life EXCEPT ![mTimer[c]] = how]
  /\ mTimer' = [mTimer EXCEPT ![c] = None]
  /\ UNCHANGED msgs

\* The body of stop() for a timer that runs, with destroyLocked().
Stopped(c, how) ==
  LET d == mTimer[c] IN
  /\ mTimer' = [mTimer EXCEPT ![c] = None]
  /\ mClient' = [mClient EXCEPT ![d] = NoClient]
  /\ life' = [life EXCEPT ![d] = how]
  /\ msgs' = Append(msgs, [type |-> "Remove", timer |-> d])

Stop(c) ==
  /\ alive[c] /\ mTimer[c] # None
  /\ Stopped(c, "stopped")
  /\ UNCHANGED <<now, alive, mRef, mLock, mFutureTime, starts, heap, top, task, fd,
                 poller, misused>>

\* ~LocTimer, also reached through loc_timer_stop and the end of a
\* LocTimerWrapper's callback: stop() and drop().
Delete(c) ==
  /\ alive[c] /\ alive' = [alive EXCEPT ![c] = FALSE]
  /\ IF mTimer[c] # None THEN Stopped(c, "stopped")
                         ELSE UNCHANGED <<mTimer, mClient, life, msgs>>
  /\ mRef' = [mRef EXCEPT ![c] = @ - 1]
  /\ UNCHANGED <<now, mLock, mFutureTime, starts, heap, top, task, fd, poller, misused>>

-----------------------------------------------------------------------------
(* The heap and the timerfd, as the MsgTask thread uses them.              *)

\* ranks(): by whole seconds.
OutRanks(d, e) == Sec(mFutureTime[d]) < Sec(mFutureTime[e])
Soonest(S) == {d \in S : \A e \in S : ~OutRanks(e, d)}

\* Mutant: only the top can be taken out of the heap.
WithoutTopOnly(d) ==
  IF d # top THEN UNCHANGED <<heap, top>>
  ELSE /\ heap' = heap \ {d}
       /\ top' \in IF heap = {d} THEN {None} ELSE Soonest(heap \ {d})

\* Which of several timers of the same second comes to the top is left open.
Without(d) ==
  /\ heap' = heap \ {d}
  /\ top' \in IF d # top THEN {top} ELSE IF heap = {d} THEN {None} ELSE Soonest(heap \ {d})

\* Mutant: a new top is armed for only when there was none before.
UpdateSoonestTimeFirst(priorTop) ==
  IF top' # None /\ priorTop = None THEN polled' = TRUE /\ armed' = mFutureTime[top']
                                    ELSE UNCHANGED fd

UpdateSoonestTime(priorTop) ==
  CASE top' = priorTop -> UNCHANGED fd
    [] top' # priorTop /\ top' = None -> polled' = FALSE /\ armed' = None
    [] top' # priorTop /\ top' # None /\ (priorTop = None \/ OutRanks(top', priorTop)) ->
         polled' = TRUE /\ armed' = mFutureTime[top']
    [] OTHER -> UNCHANGED fd

Takes(type) == task = Idle /\ msgs # << >> /\ Head(msgs).type = type
Taken == msgs' = Tail(msgs)

\* Mutant: a pushed timer never gets past those that are there.
TopWithLast(d) == IF top = None THEN d ELSE top

\* A pushed timer becomes the top when it outranks it.
TopWith(d) == IF top = None \/ OutRanks(d, top) THEN d ELSE top

\* MsgTimerPush::proc.
Push ==
  /\ Takes("Push") /\ Taken
  /\ LET d == Head(msgs).timer IN
     /\ heap' = heap \cup {d}
     /\ top' = TopWith(d)
     /\ UpdateSoonestTime(top)
  /\ UNCHANGED <<now, clients, delegates, task, poller, misused>>

\* Mutant: the delegate is deleted with its lock still counted.
DeletedOnly(d) == life' = [life EXCEPT ![d] = "deleted"] /\ UNCHANGED mRef

\* ~LocTimerDelegate drops the lock.
Deleted(d) ==
  /\ life' = [life EXCEPT ![d] = "deleted"]
  /\ mRef' = [mRef EXCEPT ![mLock[d]] = @ - 1]

\* MsgTimerRemove::proc.  The timerfd is set again when the top was removed
\* and another one is left; an emptied heap leaves it armed.
Remove ==
  /\ Takes("Remove") /\ Taken
  /\ LET d == Head(msgs).timer IN
     /\ IF d \in heap THEN Without(d) ELSE UNCHANGED <<heap, top>>
     /\ IF d \in heap /\ d = top THEN UpdateSoonestTime(None) ELSE UNCHANGED fd
     /\ Deleted(d)
  /\ UNCHANGED <<now, alive, mTimer, mClient, mLock, mFutureTime, starts, task, poller,
                 misused>>

-----------------------------------------------------------------------------
(* MsgTimerExpire::proc, with LocTimerDelegate::expire().                  *)

\* The top is popped and its mClient read, without a lock.
Popped(at) ==
  /\ Without(top)
  /\ task' = [at |-> IF mClient[top] = NoClient THEN "next" ELSE "stopping",
              client |-> mClient[top], now |-> at]

\* The first top is popped whatever its time.
ExpireBegins ==
  /\ Takes("Expire") /\ Taken
  /\ IF heap = {} THEN UNCHANGED <<heap, top, task>> ELSE Popped(now)
  /\ UNCHANGED <<now, clients, delegates, fd, poller, misused>>

\* client->stop(), on whatever timer the client has by now.
ExpireStops ==
  /\ task.at = "stopping"
  /\ LET c == task.client IN
     IF ~alive[c] THEN misused' = TRUE /\ UNCHANGED <<mTimer, mClient, life, msgs, task>>
     ELSE /\ UNCHANGED misused
          /\ IF mTimer[c] # None
             THEN Stopped(c, "fired") /\ task' = [task EXCEPT !.at = "calling"]
             ELSE /\ task' = [task EXCEPT !.at = "next"]
                  /\ UNCHANGED <<mTimer, mClient, life, msgs>>
  /\ UNCHANGED <<now, alive, mRef, mLock, mFutureTime, starts, heap, top, fd, poller>>

\* client->timeOutCallback().
ExpireCalls ==
  /\ task.at = "calling"
  /\ misused' = ~alive[task.client]
  /\ task' = [task EXCEPT !.at = "next"]
  /\ UNCHANGED <<now, clients, delegates, heap, top, msgs, fd, poller>>

\* popIfOutRanks, or the end of the loop.
ExpireGoesOn ==
  /\ task.at = "next"
  /\ IF top # None /\ Sec(mFutureTime[top]) <= Sec(task.now)
     THEN Popped(task.now) /\ UNCHANGED fd
     ELSE task' = Idle /\ UNCHANGED <<heap, top>> /\ UpdateSoonestTime(None)
  /\ UNCHANGED <<now, clients, delegates, msgs, poller, misused>>

MsgTask == Push \/ Remove \/ ExpireBegins \/ ExpireStops \/ ExpireCalls \/ ExpireGoesOn

-----------------------------------------------------------------------------
(* The poll thread: epoll_wait, then LocTimerContainer::expire().          *)

PollWakes ==
  /\ poller = "wait" /\ polled /\ armed # None /\ armed <= now
  /\ poller' = "disarm"
  /\ UNCHANGED <<now, clients, delegates, heap, top, msgs, task, fd, misused>>

Disarm ==
  /\ poller = "disarm" /\ poller' = "remove"
  /\ armed' = None
  /\ UNCHANGED <<now, clients, delegates, heap, top, msgs, task, polled, misused>>

RemovePoll ==
  /\ poller = "remove" /\ poller' = "send"
  /\ polled' = FALSE
  /\ UNCHANGED <<now, clients, delegates, heap, top, msgs, task, armed, misused>>

SendExpire ==
  /\ poller = "send" /\ poller' = "wait"
  /\ msgs' = Append(msgs, [type |-> "Expire"])
  /\ UNCHANGED <<now, clients, delegates, heap, top, task, fd, misused>>

Poll == PollWakes \/ Disarm \/ RemovePoll \/ SendExpire

Tick ==
  /\ now < MaxTime /\ now' = now + 1
  /\ UNCHANGED <<clients, delegates, heap, top, msgs, task, fd, poller, misused>>

\* Nothing is said of what follows a call of a deleted LocTimer.
Next ==
  /\ ~misused
  /\ \/ \E c \in Client : Start(c) \/ Stop(c) \/ Delete(c)
     \/ MsgTask \/ Poll \/ Tick

Spec == Init /\ [][Next]_vars

\* Both threads are scheduled, callbacks return and time passes; no client
\* needs to do anything.
FairSpec == Spec /\ WF_vars(MsgTask) /\ WF_vars(Poll) /\ WF_vars(Tick)

-----------------------------------------------------------------------------
\* Type invariant.
TypeOK ==
  /\ now \in 0..MaxTime /\ starts \in 0..MaxStarts
  /\ alive \in [Client -> BOOLEAN] /\ mTimer \in [Client -> Timer \cup {None}]
  /\ mRef \in [Client -> Nat]
  /\ mClient \in [Timer -> Client \cup {NoClient}]
  /\ mLock \in [Timer -> Client \cup {NoClient}]
  /\ mFutureTime \in [Timer -> 0..MaxTime]
  /\ life \in [Timer -> {"unborn", "running", "stopped", "fired", "deleted"}]
  /\ heap \subseteq Timer /\ top \in IF heap = {} THEN {None} ELSE Soonest(heap)
  /\ task.at \in {"idle", "stopping", "calling", "next"}
  /\ armed \in 0..MaxTime /\ polled \in BOOLEAN
  /\ poller \in {"wait", "disarm", "remove", "send"} /\ misused \in BOOLEAN

Of(type) == {msgs[k].timer : k \in {j \in DOMAIN msgs : msgs[j].type = type}}

\* A delegate is deleted after its last use: nothing that is still to be
\* looked at -- the heap, a message, a LocTimer -- names a deleted one.
NoDangling ==
  \A d \in Timer : life[d] = "deleted" =>
    /\ d \notin heap \cup Of("Push") \cup Of("Remove")
    /\ \A c \in Client : mTimer[c] # d

\* Together with the types of the variables: what the code may dereference.
TimersSound == TypeOK /\ NoDangling

\* A LocSharedLock lives exactly as long as its LocTimer or one of the
\* delegates made for it, whichever goes last.
LockShared ==
  \A c \in Client :
    mRef[c] = Cardinality({d \in Timer : mLock[d] = c /\ life[d] # "deleted"})
                + (IF alive[c] THEN 1 ELSE 0)

ExpirePending ==
  \/ poller # "wait" \/ task # Idle
  \/ \E k \in DOMAIN msgs : msgs[k].type = "Expire"

\* The timerfd always waits for the soonest timer, unless an expiry is on its
\* way, whose handling sets it again: no interleaving of the poll thread's
\* disarming with the MsgTask thread's arming loses the next timer.
SoonestArmed ==
  heap # {} /\ ~ExpirePending => polled /\ armed = mFutureTime[top]

\* A timer that was started is stopped or fires, and its delegate is deleted
\* in the end.
TimerEnds ==
  \A d \in Timer : life[d] = "running" ~> life[d] = "deleted" \/ misused

\* "pop everything in the heap that outRanks now, i.e. has time older than
\* now and then call expire() on that timer": no timer fires in a second
\* before its own.
NotEarly ==
  [][ \A d \in Timer :
        life[d] = "running" /\ life'[d] = "fired" => Sec(mFutureTime[d]) <= Sec(now) ]_vars
=============================================================================
