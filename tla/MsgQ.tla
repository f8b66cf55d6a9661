-------------------------------- MODULE MsgQ --------------------------------
(***************************************************************************)
(* The blocking message queue of msg_q.c: a linked list under a mutex, a   *)
(* condition variable for the threads that wait for data, and a flag that  *)
(* unblocks them all for good.                                             *)
(*                                                                         *)
(* A critical section is one step; pthread_cond_wait is two, between which *)
(* others may take the mutex.                                              *)
(***************************************************************************)
EXTENDS Naturals, Sequences, FiniteSets

CONSTANTS Message, Receiver,
          NoMessage,  \* msg_q_rcv returned a code other than success
          MaxLength   \* bound: messages a queue holds when one is sent

VARIABLES msgs,       \* msg_list, oldest first
          unblocked,
          receiver,   \* where each receiving thread is in msg_q_rcv
          got         \* what its last msg_q_rcv returned

vars == <<msgs, unblocked, receiver, got>>

Waiting == {r \in Receiver : receiver[r] = "waiting"}
Woken   == {r \in Receiver : receiver[r] = "woken"}

Init ==
  /\ msgs = << >> /\ unblocked = FALSE
  /\ receiver = [r \in Receiver |-> "out"]
  /\ got = [r \in Receiver |-> NoMessage]

\* Mutant: data is added and nobody is told.
SignalNobody == UNCHANGED receiver

\* pthread_cond_signal: one of those that wait, if any.
Signal ==
  \/ Waiting = {} /\ UNCHANGED receiver
  \/ \E r \in Waiting : receiver' = [receiver EXCEPT ![r] = "woken"]

\* msg_q_snd; it fails on an unblocked queue and changes nothing.
Snd(m) ==
  /\ ~unblocked /\ Len(msgs) < MaxLength
  /\ msgs' = Append(msgs, m)
  /\ Signal
  /\ UNCHANGED <<unblocked, got>>

Return(r, result) ==
  /\ receiver' = [receiver EXCEPT ![r] = "out"]
  /\ got' = [got EXCEPT ![r] = result]

\* Mutant: the list is read from the end it is written at.
RemoveNewest(r) ==
  IF msgs = << >> THEN Return(r, NoMessage) /\ UNCHANGED msgs
  ELSE Return(r, msgs[Len(msgs)]) /\ msgs' = SubSeq(msgs, 1, Len(msgs) - 1)

\* linked_list_remove: the oldest message, or eLINKED_LIST_UNAVAILABLE_RESOURCE.
Remove(r) ==
  IF msgs = << >> THEN Return(r, NoMessage) /\ UNCHANGED msgs
                  ELSE Return(r, Head(msgs)) /\ msgs' = Tail(msgs)

\* The while loop around pthread_cond_wait, entered or entered again.
WaitOrRemove(r) ==
  IF msgs = << >> /\ ~unblocked
  THEN receiver' = [receiver EXCEPT ![r] = "waiting"] /\ UNCHANGED <<msgs, got>>
  ELSE Remove(r)

\* msg_q_rcv, from its entry: an unblocked queue is refused even with data.
Rcv(r) ==
  /\ receiver[r] = "out"
  /\ IF unblocked THEN Return(r, NoMessage) /\ UNCHANGED msgs ELSE WaitOrRemove(r)
  /\ UNCHANGED unblocked

\* pthread_cond_wait returns with the mutex.
Resume(r) == receiver[r] = "woken" /\ WaitOrRemove(r) /\ UNCHANGED unblocked

\* POSIX allows a wait to end with no signal.
SpuriousWakeup(r) ==
  /\ receiver[r] = "waiting"
  /\ receiver' = [receiver EXCEPT ![r] = "woken"]
  /\ UNCHANGED <<msgs, unblocked, got>>

Flush == msgs' = << >> /\ UNCHANGED <<unblocked, receiver, got>>

\* Mutant: the flag is set and nobody is told.
BroadcastNobody == UNCHANGED receiver

\* pthread_cond_broadcast.
Broadcast ==
  receiver' = [r \in Receiver |-> IF receiver[r] = "waiting" THEN "woken" ELSE receiver[r]]

\* msg_q_unblock; a second one fails and changes nothing.
Unblock ==
  /\ ~unblocked /\ unblocked' = TRUE
  /\ Broadcast
  /\ UNCHANGED <<msgs, got>>

Next ==
  \/ \E m \in Message : Snd(m)
  \/ \E r \in Receiver : Rcv(r) \/ Resume(r) \/ SpuriousWakeup(r)
  \/ Flush \/ Unblock

Spec == Init /\ [][Next]_vars

-----------------------------------------------------------------------------
\* Type invariant.
TypeOK ==
  /\ msgs \in Seq(Message) /\ unblocked \in BOOLEAN
  /\ receiver \in [Receiver -> {"out", "waiting", "woken"}]
  /\ got \in [Receiver -> Message \cup {NoMessage}]

\* No lost wakeup: while somebody sleeps on a queue that still blocks, there
\* are at least as many threads awake for the queue's data as there are
\* messages, so none stays in the queue for a sleeper.
NoLostWakeup ==
  Waiting # {} /\ ~unblocked => Cardinality(Woken) >= Len(msgs)
=============================================================================
