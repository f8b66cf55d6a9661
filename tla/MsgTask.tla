------------------------------- MODULE MsgTask -------------------------------
(***************************************************************************)
(* A MsgTask: a LocThread whose runnable takes messages from a MsgQ and    *)
(* runs their proc().  It is how every component of the GPS libraries      *)
(* serialises its work.                                                    *)
(*                                                                         *)
(* The MsgTask object is itself the runnable: the spawned thread deletes   *)
(* it, together with its queue, while the owner is in destroy().  Senders  *)
(* may call sendMsg as long as the object exists.                          *)
(***************************************************************************)
EXTENDS Naturals, Sequences

CONSTANTS Message,   \* each is sent once
          NoMessage, Task, MaxLength

ASSUME TaskAssumption == NoMessage \notin Message /\ MaxLength \in Nat

VARIABLES mRunnable, mJoinable, mRefCount, freed, deleted, client, thread
VARIABLES msgs, unblocked, receiver, got
VARIABLE fate        \* what has become of each message

T == INSTANCE LocThread
Q == INSTANCE MsgQ WITH Receiver <- {Task}

taskThread == <<mRunnable, mJoinable, mRefCount, freed, deleted, client, thread>>
mQ == <<msgs, unblocked, receiver, got>>
vars == <<taskThread, mQ, fate>>

Init == T!Init /\ Q!Init /\ fate = [m \in Message |-> "new"]

Set(S, what) == [m \in Message |-> IF m \in S THEN what ELSE fate[m]]
InQueue == {msgs[k] : k \in DOMAIN msgs}

-----------------------------------------------------------------------------
(* The owner: the constructor, then destroy().                             *)

Construct ==
  /\ T!Create \/ T!CreateFails \/ T!Created \/ T!Discard
  /\ UNCHANGED <<mQ, fate>>

\* destroy() begins with msg_q_unblock.
DestroyUnblocks ==
  /\ client \in {"started", "failed"}
  /\ Q!Unblock
  /\ UNCHANGED <<taskThread, fate>>

\* `delete thread', which stops and joins a joinable one.
DestroyThread ==
  /\ unblocked
  /\ T!Bye \/ T!StopRunnable \/ T!StopJoin \/ T!Leave
  /\ UNCHANGED <<mQ, fate>>

\* ~MsgTask flushes the queue, which deletes what it holds.
Flushed == Q!Flush /\ fate' = Set(InQueue, "dropped")

\* Mutant: destroy() always ends with `delete this'.
DestroySelfToo ==
  /\ unblocked /\ client \in {"failed", "leaving"}
  /\ client' = "done" /\ deleted' = deleted + 1
  /\ UNCHANGED <<mRunnable, mJoinable, mRefCount, freed, thread>>
  /\ Flushed

\* `delete this' of a task that has no thread.
DestroySelf == unblocked /\ T!ClientDeletes /\ Flushed

\* sendMsg ignores the result of msg_q_snd: a refused message is lost.
SendMsg(m) ==
  /\ fate[m] = "new" /\ deleted = 0
  /\ client \notin {"new", "created", "discarding"}
  /\ IF unblocked THEN UNCHANGED mQ /\ fate' = Set({m}, "lost")
                  ELSE Q!Snd(m) /\ fate' = Set({m}, "queued")
  /\ UNCHANGED taskThread

-----------------------------------------------------------------------------
(* The task thread: threadMain() around run().                             *)

Around ==
  /\ T!TakeRunnable \/ T!Prerun \/ T!CheckRunning \/ T!ClearRunnable \/ T!ThreadLeaves
  /\ UNCHANGED <<mQ, fate>>

\* msg_q_rcv, at its entry or on the way out of its wait; the loop ends when
\* it returns without a message.
RunReceives ==
  /\ thread = "run" /\ got[Task] = NoMessage
  /\ Q!Rcv(Task) \/ Q!Resume(Task)
  /\ IF receiver'[Task] = "out" /\ got'[Task] = NoMessage
     THEN T!RunReturns(FALSE) ELSE UNCHANGED taskThread
  /\ fate' = IF got'[Task] = NoMessage THEN fate ELSE Set({got'[Task]}, "running")

Spurious == Q!SpuriousWakeup(Task) /\ UNCHANGED <<taskThread, fate>>

\* Mutant: msg, once deleted, is not forgotten.
RunProcAgain ==
  /\ thread = "run" /\ got[Task] # NoMessage
  /\ T!RunReturns(TRUE)
  /\ fate' = Set({got[Task]}, "handled")
  /\ UNCHANGED mQ

\* msg->proc(); delete msg.
RunProc ==
  /\ thread = "run" /\ got[Task] # NoMessage
  /\ T!RunReturns(TRUE)
  /\ got' = [got EXCEPT ![Task] = NoMessage]
  /\ fate' = Set({got[Task]}, "handled")
  /\ UNCHANGED <<msgs, unblocked, receiver>>

\* `delete runnable'.
DeleteTask == T!DeleteRunnable /\ Flushed

Thread == Around \/ RunReceives \/ RunProc \/ DeleteTask

Next ==
  \/ Construct \/ DestroyUnblocks \/ DestroyThread \/ DestroySelf
  \/ \E m \in Message : SendMsg(m)
  \/ Thread \/ Spurious

Spec == Init /\ [][Next]_vars

\* The task thread is scheduled and every proc() returns; an owner that has
\* begun destroy() goes on.
FairSpec == Spec /\ WF_vars(Thread) /\ WF_vars(DestroyThread \/ DestroySelf)

-----------------------------------------------------------------------------
\* Type invariant.
TypeOK == T!TypeOK /\ Q!TypeOK
  /\ fate \in [Message -> {"new", "queued", "running", "handled", "dropped", "lost"}]

\* The LocThreadDelegate is deleted once and after its last use, and no wakeup
\* of the task's queue is lost.
DelegateShared == T!DelegateShared
NoLostWakeup   == Q!NoLostWakeup

\* The object is deleted once, by the thread or by the owner that could not
\* start one, and not while run() is using its queue.
TaskAlive == deleted < 2 /\ (thread = "run" => deleted = 0)

\* Every message is in one place: in the queue, in the hands of the thread,
\* or finished with.
FateKnown ==
  /\ InQueue = {m \in Message : fate[m] = "queued"}
  /\ \A j, k \in DOMAIN msgs : j # k => msgs[j] # msgs[k]
  /\ {m \in Message : fate[m] = "running"} = {got[Task]} \ {NoMessage}

\* For its senders the task is a TaskFifo.
Fifo == INSTANCE TaskFifo WITH pending <- msgs, current <- got[Task], closed <- unblocked
FifoSpec == Fifo!Spec

\* A message sent to a task that has a thread is handled, unless the task is
\* destroyed first.
MessageHandled ==
  \A m \in Message :
    fate[m] = "queued" /\ thread # "none" ~> fate[m] = "handled" \/ unblocked

\* destroy() returns, however many messages are left and wherever the thread is.
DestroyReturns == unblocked ~> client = "done"
=============================================================================
