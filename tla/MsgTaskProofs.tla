---------------------------- MODULE MsgTaskProofs ----------------------------
(***************************************************************************)
(* Proofs about MsgTask for every set of messages.  What holds of the      *)
(* thread, shown here first, and of the queue, shown in MsgQProofs, is     *)
(* carried over to the whole, and the task is shown to implement TaskFifo. *)
(***************************************************************************)
EXTENDS MsgTask, Integers, TLAPS

QP == INSTANCE MsgQProofs WITH Receiver <- {Task}

-----------------------------------------------------------------------------
(* The thread by itself: the delegate a client and its thread share is     *)
(* deleted once and by the last of the two, in every execution.            *)

\* Before the constructor nobody holds a delegate; after it the count is the
\* number of holders, and the delegate is deleted when there is none.
Counted ==
  IF client = "new"
  THEN thread = "none" /\ mRefCount = 0 /\ freed = 0
  ELSE /\ mRefCount = (IF T!ClientHolds THEN 1 ELSE 0) + (IF T!ThreadHolds THEN 1 ELSE 0)
       /\ freed = IF T!ClientHolds \/ T!ThreadHolds THEN 0 ELSE 1

ThreadInv == T!TypeOK /\ Counted

\* One of two holders leaves: the other keeps the delegate.  The last one
\* leaves: it is deleted.
LEMMA DestroyCounts ==
  ASSUME mRefCount \in 1..2, freed = 0, T!Destroy
  PROVE  /\ mRefCount = 2 => mRefCount' = 1 /\ freed' = 0
         /\ mRefCount = 1 => mRefCount' = 0 /\ freed' = 1
  BY DEF T!Destroy

LEMMA ThreadInit == T!Init => ThreadInv
<1> SUFFICES ASSUME T!Init PROVE ThreadInv
  OBVIOUS
<1>1. T!TypeOK
  <2>1. mRunnable \in BOOLEAN
    BY Zenon DEF T!Init
  <2>2. mRefCount \in 0..2 /\ freed \in Nat /\ deleted \in Nat
    BY DEF T!Init
  <2> QED BY <2>1, <2>2 DEF T!Init, T!TypeOK
<1>2. Counted
  BY DEF T!Init, Counted
<1> QED BY <1>1, <1>2 DEF ThreadInv

\* The steps of the client.
LEMMA ClientKeeps ==
  ASSUME ThreadInv, T!Client
  PROVE  ThreadInv'
<1> USE DEF ThreadInv, T!TypeOK, Counted, T!ClientHolds, T!ThreadHolds, T!delegate
<1>1. CASE T!Create
  BY <1>1 DEF T!Create
<1>2. CASE T!CreateFails
  <2>1. client = "new" /\ thread = "none" /\ freed = 0
    BY <1>2 DEF T!CreateFails
  <2>2. client' = "created" /\ mRefCount' = 1 /\ freed' = 0 /\ thread' = "none"
    BY <1>2, <2>1 DEF T!CreateFails
  <2>3. T!TypeOK'
    <3>1. mRunnable' \in BOOLEAN /\ mJoinable' \in BOOLEAN
      BY <1>2, Zenon DEF T!CreateFails
    <3>2. mRefCount' \in 0..2 /\ freed' \in Nat
      BY <2>2
    <3> QED BY <1>2, <2>2, <3>1, <3>2 DEF T!CreateFails
  <2> QED BY <2>2, <2>3
<1>3. CASE T!Created
  BY <1>3 DEF T!Created
<1>4. CASE T!Discard
  BY <1>4, DestroyCounts DEF T!Discard
<1>5. CASE T!ClientDeletes
  BY <1>5 DEF T!ClientDeletes
<1>6. CASE T!Stop
  BY <1>6 DEF T!Stop
<1>7. CASE T!Bye
  BY <1>7 DEF T!Bye
<1>8. CASE T!StopRunnable
  BY <1>8 DEF T!StopRunnable
<1>9. CASE T!StopJoin
  BY <1>9 DEF T!StopJoin
<1>10. CASE T!Leave
  BY <1>10, DestroyCounts DEF T!Leave
<1> QED
  BY <1>1, <1>2, <1>3, <1>4, <1>5, <1>6, <1>7, <1>8, <1>9, <1>10 DEF T!Client

\* The steps of the spawned thread.
LEMMA ThreadKeeps ==
  ASSUME ThreadInv, T!Thread
  PROVE  ThreadInv'
<1> USE DEF ThreadInv, T!TypeOK, Counted, T!ClientHolds, T!ThreadHolds, T!delegate, T!At
<1>1. CASE T!TakeRunnable
  BY <1>1 DEF T!TakeRunnable
<1>2. CASE T!Prerun
  BY <1>2 DEF T!Prerun
<1>3. CASE T!CheckRunning
  BY <1>3 DEF T!CheckRunning
<1>4. CASE T!Run
  BY <1>4 DEF T!Run, T!RunReturns
<1>5. CASE T!ClearRunnable
  BY <1>5 DEF T!ClearRunnable
<1>6. CASE T!DeleteRunnable
  BY <1>6 DEF T!DeleteRunnable
<1>7. CASE T!ThreadLeaves
  BY <1>7, DestroyCounts DEF T!ThreadLeaves
<1> QED BY <1>1, <1>2, <1>3, <1>4, <1>5, <1>6, <1>7 DEF T!Thread

LEMMA ThreadStutters ==
  ASSUME ThreadInv, UNCHANGED T!vars
  PROVE  ThreadInv'
  BY DEF ThreadInv, T!TypeOK, Counted, T!ClientHolds, T!ThreadHolds, T!vars, T!delegate

LEMMA CountedShares == ThreadInv => T!DelegateShared
  BY DEF ThreadInv, Counted, T!DelegateShared, T!ClientHolds, T!ThreadHolds

\* However the client and its thread interleave, the LocThreadDelegate is
\* deleted once, after the last use of it by either.
THEOREM ThreadDelegateSafe == T!Spec => []T!DelegateShared
<1>1. ThreadInv /\ [T!Next]_(T!vars) => ThreadInv'
  BY ClientKeeps, ThreadKeeps, ThreadStutters DEF T!Next
<1> QED BY ThreadInit, <1>1, CountedShares, PTL DEF T!Spec

-----------------------------------------------------------------------------
\* A message is in the hands of the thread only inside run(), and the loop
\* around run() is left, or never entered, only once the queue is unblocked.
LoopInv ==
  /\ got[Task] # NoMessage => thread = "run"
  /\ thread \in {"clear", "delete"} => unblocked
  /\ ~mRunnable /\ thread # "none" => unblocked

\* Nobody destroys a task that is being constructed, so when create() asks
\* isRunning() the answer is whether there is a thread.
OwnerInv ==
  /\ unblocked => client \notin {"new", "created", "discarding"}
  /\ client \in {"discarding", "failed"} => thread = "none"

\* The object exists as long as the thread may use it or its owner has to
\* delete it.
ObjectInv ==
  /\ thread \in {"start", "prerun", "check", "run", "clear", "delete"} => deleted = 0
  /\ thread = "none" /\ client # "done" => deleted = 0
  /\ deleted < 2

TaskInv == LoopInv /\ OwnerInv /\ ObjectInv
IInv == ThreadInv /\ QP!IInv /\ TaskInv

-----------------------------------------------------------------------------
(* The parts.                                                              *)

\* A step of the task is one of its thread's, or leaves it alone.
LEMMA ThreadStep ==
  ASSUME Next
  PROVE  T!Next \/ UNCHANGED taskThread
<1>1. CASE Construct
  BY <1>1 DEF Construct, T!Next, T!Client
<1>2. CASE DestroyUnblocks
  BY <1>2 DEF DestroyUnblocks
<1>3. CASE DestroyThread
  BY <1>3 DEF DestroyThread, T!Next, T!Client
<1>4. CASE DestroySelf
  BY <1>4 DEF DestroySelf, T!Next, T!Client
<1>5. CASE \E m \in Message : SendMsg(m)
  BY <1>5 DEF SendMsg
<1>6. CASE Around
  BY <1>6 DEF Around, T!Next, T!Thread
<1>7. CASE RunReceives
  BY <1>7 DEF RunReceives, T!Next, T!Thread, T!Run
<1>8. CASE RunProc
  BY <1>8 DEF RunProc, T!Next, T!Thread, T!Run
<1>9. CASE DeleteTask
  BY <1>9 DEF DeleteTask, T!Next, T!Thread
<1>10. CASE Spurious
  BY <1>10 DEF Spurious
<1> QED
  BY <1>1, <1>2, <1>3, <1>4, <1>5, <1>6, <1>7, <1>8, <1>9, <1>10 DEF Next, Thread

\* Except for the end of RunProc, it is one of its queue's, or leaves it alone.
LEMMA QueueStep ==
  ASSUME Next
  PROVE  Q!Next \/ UNCHANGED mQ \/ RunProc
<1>1. CASE Construct \/ DestroyThread \/ Around
  BY <1>1 DEF Construct, DestroyThread, Around
<1>2. CASE DestroyUnblocks
  BY <1>2 DEF DestroyUnblocks, Q!Next
<1>3. CASE DestroySelf \/ DeleteTask
  BY <1>3 DEF DestroySelf, DeleteTask, Flushed, Q!Next
<1>4. CASE \E m \in Message : SendMsg(m)
  BY <1>4 DEF SendMsg, Q!Next
<1>5. CASE RunReceives
  BY <1>5 DEF RunReceives, Q!Next
<1>6. CASE Spurious
  BY <1>6 DEF Spurious, Q!Next
<1> QED BY <1>1, <1>2, <1>3, <1>4, <1>5, <1>6 DEF Next, Thread

LEMMA SameQueue == Q!Next <=> QP!Next
  BY Zenon DEF
    Q!Next, Q!Snd, Q!Signal, Q!Waiting, Q!Rcv, Q!Resume, Q!SpuriousWakeup, Q!Flush,
    Q!Unblock, Q!Broadcast, Q!WaitOrRemove, Q!Remove, Q!Return,
    QP!Next, QP!Snd, QP!Signal, QP!Waiting, QP!Rcv, QP!Resume, QP!SpuriousWakeup, QP!Flush,
    QP!Unblock, QP!Broadcast, QP!WaitOrRemove, QP!Remove, QP!Return

LEMMA ThreadKept ==
  ASSUME IInv, [Next]_vars
  PROVE  ThreadInv'
<1>1. T!Next \/ UNCHANGED T!vars
  BY ThreadStep DEF vars, taskThread, T!vars, T!delegate
<1> QED BY <1>1, ClientKeeps, ThreadKeeps, ThreadStutters DEF IInv, T!Next

LEMMA QueueKept ==
  ASSUME IInv, [Next]_vars
  PROVE  QP!IInv'
<1>1. CASE Q!Next \/ UNCHANGED mQ
  BY <1>1, SameQueue, QP!StepKeeps DEF IInv, mQ, QP!vars
<1>2. CASE RunProc
  <2>1. got' \in [{Task} -> Message \cup {NoMessage}]
    BY <1>2 DEF RunProc, IInv, QP!IInv, QP!TypeOK
  <2> QED BY <1>2, <2>1, QP!OutsideKeeps DEF RunProc, IInv
<1> QED BY <1>1, <1>2, QueueStep DEF vars
-----------------------------------------------------------------------------
(* The task: what its steps do to LoopInv, OwnerInv and ObjectInv.         *)

LEMMA GotFunction ==
  ASSUME IInv
  PROVE  got \in [{Task} -> Message \cup {NoMessage}] /\ msgs \in Seq(Message)
  BY DEF IInv, QP!IInv, QP!TypeOK

\* The constructor, whose isRunning() cannot be answered FALSE by a thread
\* that has already ended.
LEMMA ConstructKeeps ==
  ASSUME IInv, Construct
  PROVE  TaskInv'
<1> USE DEF Construct, mQ, IInv, TaskInv, LoopInv, OwnerInv, ObjectInv
<1>1. CASE T!Create
  BY <1>1 DEF T!Create, ThreadInv, Counted
<1>2. CASE T!CreateFails
  BY <1>2 DEF T!CreateFails, ThreadInv, Counted
<1>3. CASE T!Created
  BY <1>3 DEF T!Created, T!delegate
<1>4. CASE T!Discard
  BY <1>4 DEF T!Discard
<1> QED BY <1>1, <1>2, <1>3, <1>4

\* destroy(), with its end on the two threads.
LEMMA OwnerKeeps ==
  ASSUME IInv, DestroyUnblocks \/ DestroyThread \/ DestroySelf
  PROVE  TaskInv'
<1> USE DEF mQ, taskThread, IInv, TaskInv, LoopInv, OwnerInv, ObjectInv
<1>1. CASE DestroyUnblocks
  BY <1>1 DEF DestroyUnblocks, Q!Unblock
<1>2. CASE DestroyThread
  <2>1. CASE T!Bye
    BY <1>2, <2>1 DEF DestroyThread, T!Bye, T!delegate
  <2>2. CASE T!StopRunnable
    BY <1>2, <2>2 DEF DestroyThread, T!StopRunnable
  <2>3. CASE T!StopJoin
    BY <1>2, <2>3 DEF DestroyThread, T!StopJoin
  <2>4. CASE T!Leave
    BY <1>2, <2>4 DEF DestroyThread, T!Leave
  <2> QED BY <1>2, <2>1, <2>2, <2>3, <2>4 DEF DestroyThread
<1>3. CASE DestroySelf
  BY <1>3 DEF DestroySelf, T!ClientDeletes, T!delegate, Flushed, Q!Flush
<1> QED BY <1>1, <1>2, <1>3

LEMMA SendKeeps ==
  ASSUME IInv, NEW m \in Message, SendMsg(m)
  PROVE  TaskInv'
<1>1. UNCHANGED <<unblocked, got>>
  BY DEF SendMsg, Q!Snd, mQ
<1> QED
  BY <1>1 DEF SendMsg, taskThread, IInv, TaskInv, LoopInv, OwnerInv, ObjectInv

\* The loop around run(), which is left when the owner has stopped the thread.
LEMMA AroundKeeps ==
  ASSUME IInv, Around
  PROVE  TaskInv'
<1> USE DEF Around, mQ, IInv, TaskInv, LoopInv, OwnerInv, ObjectInv, T!At, T!delegate
<1>1. CASE T!TakeRunnable
  BY <1>1 DEF T!TakeRunnable
<1>2. CASE T!Prerun
  BY <1>2 DEF T!Prerun
<1>3. CASE T!CheckRunning
  BY <1>3 DEF T!CheckRunning
<1>4. CASE T!ClearRunnable
  BY <1>4 DEF T!ClearRunnable
<1>5. CASE T!ThreadLeaves
  BY <1>5 DEF T!ThreadLeaves
<1> QED BY <1>1, <1>2, <1>3, <1>4, <1>5

\* What msg_q_rcv can do: it goes to sleep without a message, it hands out
\* the oldest, or it returns without one because the queue is unblocked.
LEMMA ReceiveOutcome ==
  ASSUME IInv, RunReceives
  PROVE  /\ unblocked' = unblocked
         /\ \/ got'[Task] = NoMessage /\ msgs' = msgs /\ receiver'[Task] = "waiting"
            \/ got'[Task] = NoMessage /\ msgs' = msgs /\ unblocked
            \/ /\ msgs # << >> /\ got'[Task] = Head(msgs) /\ msgs' = Tail(msgs)
               /\ got'[Task] # NoMessage
<1> USE GotFunction DEF RunReceives
<1>0. receiver \in [{Task} -> {"out", "waiting", "woken"}]
  BY DEF IInv, QP!IInv, QP!TypeOK
<1>1. ASSUME Q!WaitOrRemove(Task)
      PROVE  \/ got'[Task] = NoMessage /\ msgs' = msgs /\ receiver'[Task] = "waiting"
             \/ got'[Task] = NoMessage /\ msgs' = msgs /\ unblocked
             \/ msgs # << >> /\ got'[Task] = Head(msgs) /\ msgs' = Tail(msgs)
  BY <1>0, <1>1 DEF Q!WaitOrRemove, Q!Remove, Q!Return
<1>2. msgs # << >> => Head(msgs) # NoMessage
  <2>1. msgs # << >> => Head(msgs) \in Message
    BY GotFunction
  <2> QED BY <2>1, TaskAssumption
<1>3. CASE Q!Resume(Task)
  BY <1>1, <1>2, <1>3 DEF Q!Resume
<1>4. CASE Q!Rcv(Task)
  BY <1>1, <1>2, <1>4 DEF Q!Rcv, Q!Return
<1> QED BY <1>3, <1>4

LEMMA ReceivesKeeps ==
  ASSUME IInv, RunReceives
  PROVE  TaskInv'
<1> USE DEF IInv, TaskInv, LoopInv, OwnerInv, ObjectInv, T!RunReturns, T!At, T!delegate, taskThread
<1>1. CASE receiver'[Task] = "out" /\ got'[Task] = NoMessage
  <2>1. unblocked /\ unblocked' = unblocked
    BY <1>1, ReceiveOutcome
  <2> QED BY <1>1, <2>1 DEF RunReceives
<1>2. CASE ~(receiver'[Task] = "out" /\ got'[Task] = NoMessage)
  BY <1>2, ReceiveOutcome DEF RunReceives
<1> QED BY <1>1, <1>2

LEMMA ProcKeeps ==
  ASSUME IInv, RunProc
  PROVE  TaskInv'
<1>1. got'[Task] = NoMessage
  BY GotFunction DEF RunProc
<1> QED
  BY <1>1 DEF RunProc, T!RunReturns, T!At, T!delegate,
              IInv, TaskInv, LoopInv, OwnerInv, ObjectInv

LEMMA DeleteKeeps ==
  ASSUME IInv, DeleteTask
  PROVE  TaskInv'
  BY DEF DeleteTask, T!DeleteRunnable, T!At, T!delegate, Flushed, Q!Flush,
         IInv, TaskInv, LoopInv, OwnerInv, ObjectInv

LEMMA SpuriousKeeps ==
  ASSUME IInv, Spurious
  PROVE  TaskInv'
  BY DEF Spurious, Q!SpuriousWakeup, taskThread, IInv, TaskInv, LoopInv, OwnerInv, ObjectInv

LEMMA StutterKeeps ==
  ASSUME IInv, UNCHANGED vars
  PROVE  TaskInv'
  BY DEF vars, taskThread, mQ, IInv, TaskInv, LoopInv, OwnerInv, ObjectInv
-----------------------------------------------------------------------------
LEMMA InitInv == Init => IInv
<1> SUFFICES ASSUME Init PROVE IInv
  OBVIOUS
<1>1. ThreadInv
  BY ThreadInit DEF Init
<1>2. QP!IInv
  BY QP!InitInv DEF Init, Q!Init, QP!Init
<1>3. TaskInv
  BY DEF Init, T!Init, Q!Init, TaskInv, LoopInv, OwnerInv, ObjectInv
<1> QED BY <1>1, <1>2, <1>3 DEF IInv

LEMMA StepKeeps == IInv /\ [Next]_vars => IInv'
<1> SUFFICES ASSUME IInv, [Next]_vars PROVE IInv'
  OBVIOUS
<1>1. TaskInv'
  BY ConstructKeeps, OwnerKeeps, SendKeeps, AroundKeeps, ReceivesKeeps, ProcKeeps,
     DeleteKeeps, SpuriousKeeps, StutterKeeps DEF Next, Thread
<1> QED BY <1>1, ThreadKept, QueueKept DEF IInv

THEOREM Inductive == Spec => []IInv
  BY InitInv, StepKeeps, PTL DEF Spec

\* The LocThreadDelegate of a task is deleted once and after its last use by
\* the task thread or the owner.
THEOREM DelegateSafe == Spec => []DelegateShared
<1>1. IInv => DelegateShared
  BY CountedShares DEF IInv, DelegateShared, T!DelegateShared,
     T!ClientHolds, T!ThreadHolds
<1> QED BY Inductive, <1>1, PTL

\* The task thread never sleeps in msg_q_rcv on a queue that holds messages
\* for it.
THEOREM WakeupsKept == Spec => []NoLostWakeup
<1>1. IInv => NoLostWakeup
  <2>1. Q!Waiting = QP!Waiting /\ Q!Woken = QP!Woken
    BY DEF Q!Waiting, QP!Waiting, Q!Woken, QP!Woken
  <2>2. Q!Cardinality(Q!Woken) = QP!Cardinality(Q!Woken)
    BY Zenon DEF Q!Cardinality, QP!Cardinality
  <2> QED BY <2>1, <2>2 DEF IInv, QP!IInv, NoLostWakeup, Q!NoLostWakeup, QP!NoLostWakeup
<1> QED BY Inductive, <1>1, PTL

\* The task object is deleted at most once, by the thread or by an owner that
\* could start none, and not while run() uses its queue.
THEOREM ObjectSafe == Spec => []TaskAlive
<1>1. IInv => TaskAlive
  BY DEF IInv, TaskInv, ObjectInv, TaskAlive
<1> QED BY Inductive, <1>1, PTL

-----------------------------------------------------------------------------
(* Where the messages are.                                                 *)

FateType == fate \in [Message -> {"new", "queued", "running", "handled", "dropped", "lost"}]
FateInv == FateType /\ FateKnown

LEMMA FateInit == Init => FateInv
<1> SUFFICES ASSUME Init PROVE FateInv
  OBVIOUS
<1>1. msgs = << >> /\ got[Task] = NoMessage /\ fate = [m \in Message |-> "new"]
  BY DEF Init, Q!Init
<1>2. DOMAIN msgs = {}
  BY <1>1
<1> QED BY <1>1, <1>2 DEF FateInv, FateType, FateKnown, InQueue

\* A message that was new joins the others at the end of the queue.
LEMMA FateSend ==
  ASSUME IInv, FateInv, NEW m \in Message, SendMsg(m)
  PROVE  FateInv'
<1> USE GotFunction DEF FateInv, FateType, FateKnown, InQueue, Set
<1>1. fate[m] = "new" /\ got' = got
  BY DEF SendMsg, Q!Snd, mQ
<1>2. CASE unblocked
  BY <1>1, <1>2 DEF SendMsg, mQ
<1>3. CASE ~unblocked
  <2>1. /\ msgs' = Append(msgs, m) /\ fate' = [fate EXCEPT ![m] = "queued"]
        /\ \A k \in DOMAIN msgs : msgs[k] # m
    BY <1>1, <1>3 DEF SendMsg, Q!Snd
  <2>2. /\ DOMAIN msgs' = DOMAIN msgs \cup {Len(msgs) + 1}
        /\ \A k \in DOMAIN msgs : msgs'[k] = msgs[k] /\ k # Len(msgs) + 1
        /\ msgs'[Len(msgs) + 1] = m
    BY <2>1
  <2>3. InQueue' = InQueue \cup {m}
    BY <2>2
  <2>4. \A j, k \in DOMAIN msgs' : j # k => msgs'[j] # msgs'[k]
    BY <2>1, <2>2
  <2> QED BY <1>1, <2>1, <2>3, <2>4
<1> QED BY <1>2, <1>3

\* The oldest goes from the queue to the hands of the thread.
LEMMA FateReceive ==
  ASSUME IInv, FateInv, RunReceives
  PROVE  FateInv'
<1> USE GotFunction DEF FateInv, FateType, FateKnown, InQueue, Set
<1>1. got[Task] = NoMessage
  BY DEF RunReceives
<1>2. CASE got'[Task] = NoMessage /\ msgs' = msgs
  BY <1>1, <1>2 DEF RunReceives
<1>3. CASE msgs # << >> /\ got'[Task] = Head(msgs) /\ msgs' = Tail(msgs) /\ got'[Task] # NoMessage
  <2> DEFINE m == Head(msgs)
  <2>1. /\ m \in Message /\ m = msgs[1] /\ 1 \in DOMAIN msgs
        /\ fate' = [fate EXCEPT ![m] = "running"]
    <3>1. m \in Message /\ m = msgs[1] /\ 1 \in DOMAIN msgs
      BY <1>3
    <3>2. fate' = Set({m}, "running")
      BY <1>3 DEF RunReceives
    <3> QED BY <3>1, <3>2
  <2>2. /\ \A k \in DOMAIN msgs' : k + 1 \in DOMAIN msgs /\ k + 1 # 1 /\ msgs'[k] = msgs[k + 1]
        /\ \A k \in DOMAIN msgs : k = 1 \/ (k - 1 \in DOMAIN msgs' /\ msgs'[k - 1] = msgs[k])
    BY <1>3
  <2>3. InQueue' = InQueue \ {m}
    BY <2>1, <2>2
  <2>4. \A j, k \in DOMAIN msgs' : j # k => msgs'[j] # msgs'[k]
    <3> SUFFICES ASSUME NEW j \in DOMAIN msgs', NEW k \in DOMAIN msgs', j # k
                 PROVE  msgs'[j] # msgs'[k]
      OBVIOUS
    <3>1. j \in Nat /\ k \in Nat
      <4>1. Tail(msgs) \in Seq(Message)
        BY <1>3
      <4> QED BY <1>3, <4>1
    <3>2. j + 1 # k + 1 /\ j + 1 \in DOMAIN msgs /\ k + 1 \in DOMAIN msgs
      BY <2>2, <3>1
    <3> QED BY <2>2, <3>2
  <2>5. InQueue' = {x \in Message : fate'[x] = "queued"}
    <3>1. InQueue = {x \in Message : fate[x] = "queued"}
      OBVIOUS
    <3> HIDE DEF InQueue, m
    <3> QED BY <2>1, <2>3, <3>1
  <2>6. {x \in Message : fate'[x] = "running"} = {m}
    <3>1. {x \in Message : fate[x] = "running"} = {}
      BY <1>1
    <3> HIDE DEF m
    <3> QED BY <2>1, <3>1
  <2>7. {got'[Task]} \ {NoMessage} = {m}
    BY <1>3
  <2>8. FateType'
    BY <2>1
  <2> HIDE DEF InQueue, m, Set
  <2> QED BY <2>4, <2>5, <2>6, <2>7, <2>8
<1> QED BY <1>2, <1>3, ReceiveOutcome

\* The message in hand is finished with.
LEMMA FateProc ==
  ASSUME IInv, FateInv, RunProc
  PROVE  FateInv'
<1>1. got[Task] \in Message /\ got'[Task] = NoMessage /\ msgs' = msgs
  BY GotFunction DEF RunProc
<1>2. fate' = [fate EXCEPT ![got[Task]] = "handled"]
  BY DEF RunProc, Set, FateInv, FateType
<1> QED BY <1>1, <1>2, TaskAssumption DEF FateInv, FateType, FateKnown, InQueue

\* Those in the queue are thrown away with it.
LEMMA FateFlush ==
  ASSUME IInv, FateInv, Flushed
  PROVE  FateInv'
<1>1. msgs' = << >> /\ got' = got /\ fate' = Set(InQueue, "dropped")
  BY DEF Flushed, Q!Flush
<1>2. DOMAIN msgs' = {}
  BY <1>1
<1> QED BY <1>1, <1>2 DEF FateInv, FateType, FateKnown, InQueue, Set

LEMMA FateStep == IInv /\ FateInv /\ [Next]_vars => FateInv'
<1> SUFFICES ASSUME IInv, FateInv, [Next]_vars PROVE FateInv'
  OBVIOUS
<1>1. CASE UNCHANGED <<msgs, got, fate>>
  BY <1>1 DEF FateInv, FateType, FateKnown, InQueue
<1>2. CASE Construct \/ DestroyThread \/ Around \/ UNCHANGED vars
  BY <1>1, <1>2 DEF Construct, DestroyThread, Around, mQ, vars
<1>3. CASE DestroyUnblocks \/ Spurious
  BY <1>1, <1>3 DEF DestroyUnblocks, Q!Unblock, Spurious, Q!SpuriousWakeup
<1>4. CASE DestroySelf \/ DeleteTask
  BY <1>4, FateFlush DEF DestroySelf, DeleteTask
<1> QED
  BY <1>2, <1>3, <1>4, FateSend, FateReceive, FateProc DEF Next, Thread

\* Every message sent is in one place, and its fate says which; nothing else
\* is in the queue, and nothing is in it twice.
THEOREM FateSafe == Spec => []FateKnown
<1>1. FateInv => FateKnown
  BY DEF FateInv
<1> QED BY <1>1, FateInit, FateStep, Inductive, PTL DEF Spec

\* Every reachable state of a task, its thread and its queue is well typed.
THEOREM TypeCorrect == Spec => []TypeOK
<1>1. IInv /\ FateInv => TypeOK
  BY DEF IInv, ThreadInv, T!TypeOK, T!TypeOK, QP!IInv, QP!TypeOK, Q!TypeOK,
     FateInv, FateType, TypeOK
<1> QED BY <1>1, FateInit, FateStep, Inductive, PTL DEF Spec

-----------------------------------------------------------------------------
(* The refinement.                                                         *)

LEMMA FifoInit == Init => Fifo!Init
  BY DEF Init, Q!Init, Fifo!Init

\* The queue is only thrown away once it is closed and nothing is handled.
LEMMA FlushDrops ==
  ASSUME IInv, DestroySelf \/ DeleteTask
  PROVE  Fifo!Drop
<1>1. unblocked /\ got[Task] = NoMessage
  BY DEF DestroySelf, DeleteTask, T!ClientDeletes, T!DeleteRunnable, T!At,
         IInv, TaskInv, LoopInv, OwnerInv
<1>2. msgs' = << >> /\ got' = got /\ unblocked' = unblocked
  BY DEF DestroySelf, DeleteTask, Flushed, Q!Flush
<1> QED BY <1>1, <1>2 DEF Fifo!Drop

LEMMA FifoStep ==
  ASSUME IInv, [Next]_vars
  PROVE  [Fifo!Next]_<<msgs, got[Task], unblocked>>
<1> USE DEF Fifo!Next
<1>1. CASE Construct \/ DestroyThread \/ Around \/ UNCHANGED vars
  BY <1>1 DEF Construct, DestroyThread, Around, mQ, vars
<1>2. CASE DestroyUnblocks
  BY <1>2 DEF DestroyUnblocks, Q!Unblock, Fifo!Close
<1>3. CASE DestroySelf \/ DeleteTask
  BY <1>3, FlushDrops
<1>4. ASSUME NEW m \in Message, SendMsg(m)
      PROVE  [Fifo!Next]_<<msgs, got[Task], unblocked>>
  BY <1>4 DEF SendMsg, Q!Snd, mQ, Fifo!Post
<1>5. CASE RunReceives
  BY <1>5, ReceiveOutcome DEF RunReceives, Fifo!Begin
<1>6. CASE RunProc
  BY <1>6, GotFunction DEF RunProc, Fifo!End
<1>7. CASE Spurious
  BY <1>7 DEF Spurious, Q!SpuriousWakeup
<1> QED BY <1>1, <1>2, <1>3, <1>4, <1>5, <1>6, <1>7 DEF Next, Thread

\* For those that send to it a MsgTask is a TaskFifo: one message at a time,
\* in order, each at most once, and none after it was closed.
THEOREM ImplementsFifo == Spec => FifoSpec
<1>1. Spec => Fifo!Init /\ [][Fifo!Next]_<<msgs, got[Task], unblocked>>
  BY FifoInit, FifoStep, Inductive, PTL DEF Spec
<1> QED BY <1>1 DEF FifoSpec, Fifo!Spec
=============================================================================
