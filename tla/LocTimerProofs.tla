--------------------------- MODULE LocTimerProofs ---------------------------
(***************************************************************************)
(* For every number of timers and starts, every clock and every            *)
(* interleaving of clients, MsgTask and poll thread: no delegate is used   *)
(* after it was deleted, a shared lock lives as long as its users, and the *)
(* next timer is armed for.                                                *)
(***************************************************************************)
EXTENDS LocTimer, SequenceTheorems, FiniteSetTheorems, TLAPS

TimerMsg == [type : {"Push", "Remove"}, timer : Timer] \cup [type : {"Expire"}]

\* What the MsgTask thread has in hand while it handles an expiry.
Handling ==
  {t \in [at : {"stopping", "calling", "next"}, client : Client \cup {NoClient}, now : 0..MaxTime] :
     t.at # "next" => t.client \in Client}

ClientType ==
  /\ alive \in [Client -> BOOLEAN] /\ mTimer \in [Client -> Timer \cup {None}]
  /\ mRef \in [Client -> Nat]

DelegateType ==
  /\ starts \in 0..MaxStarts
  /\ mClient \in [Timer -> Client \cup {NoClient}]
  /\ mLock \in [Timer -> Client \cup {NoClient}]
  /\ mFutureTime \in [Timer -> 0..MaxTime]
  /\ life \in [Timer -> {"unborn", "running", "stopped", "fired", "deleted"}]

QueueType == msgs \in Seq(TimerMsg) /\ heap \subseteq Timer

ThreadType ==
  /\ now \in 0..MaxTime
  /\ task \in {Idle} \cup Handling
  /\ armed \in 0..MaxTime /\ polled \in BOOLEAN
  /\ poller \in {"wait", "disarm", "remove", "send"} /\ misused \in BOOLEAN

Types == ClientType /\ DelegateType /\ QueueType /\ ThreadType

\* The life of a delegate: numbered in order, locked by the client it was made
\* for, running while the client has it.
Live == {"running", "stopped", "fired"}
LifeInv ==
  /\ \A d \in Timer : life[d] = "unborn" <=> d > starts
  /\ \A d \in Timer : life[d] # "unborn" => mLock[d] \in Client
  /\ \A d \in Timer : life[d] = "unborn" => mLock[d] = NoClient
  /\ \A c \in Client : mTimer[c] # None =>
       life[mTimer[c]] = "running" /\ mLock[mTimer[c]] = c

\* Each delegate is pushed once, before it is removed once; until it is removed
\* it is not deleted, and it is in the heap only after it was pushed.
IsPush(k)   == msgs[k].type = "Push"
IsRemove(k) == msgs[k].type = "Remove"
MsgInv ==
  /\ \A k \in 1..Len(msgs) : IsPush(k) =>
       life[msgs[k].timer] \in Live /\ msgs[k].timer \notin heap
  /\ \A k \in 1..Len(msgs) : IsRemove(k) => life[msgs[k].timer] \in {"stopped", "fired"}
  /\ \A j, k \in 1..Len(msgs) :
       IsPush(j) /\ IsPush(k) /\ msgs[j].timer = msgs[k].timer => j = k
  /\ \A j, k \in 1..Len(msgs) :
       IsRemove(j) /\ IsRemove(k) /\ msgs[j].timer = msgs[k].timer => j = k
  /\ \A j, k \in 1..Len(msgs) :
       IsPush(j) /\ IsRemove(k) /\ msgs[j].timer = msgs[k].timer => j < k
  /\ \A d \in heap : life[d] \in Live

\* The top of the heap is one of the soonest in it.
TopInv == top \in IF heap = {} THEN {None} ELSE Soonest(heap)

Books == LifeInv /\ MsgInv
IInv  == Types /\ Books /\ LockShared /\ TopInv /\ SoonestArmed

-----------------------------------------------------------------------------
(* Messages and clocks.                                                    *)

LEMMA MsgParts ==
  ASSUME NEW m \in TimerMsg
  PROVE  /\ m.type \in {"Push", "Remove", "Expire"}
         /\ m.type # "Expire" => m.timer \in Timer
  BY DEF TimerMsg

LEMMA SecInt == ASSUME NEW t \in Nat PROVE Sec(t) \in Int
  BY TimerAssumption DEF Sec

\* The whole seconds of the delegates are numbers.
LEMMA FutureInt == ASSUME DelegateType, NEW d \in Timer PROVE Sec(mFutureTime[d]) \in Int
<1>1. mFutureTime[d] \in Nat
  BY TimerAssumption DEF DelegateType
<1> QED BY <1>1, SecInt

\* The head of the queue and the rest.
LEMMA TakeFirst ==
  ASSUME QueueType, msgs # <<>>
  PROVE  /\ msgs[1] = Head(msgs) /\ Head(msgs) \in TimerMsg
         /\ Tail(msgs) \in Seq(TimerMsg) /\ 1 \in 1..Len(msgs)
         /\ \A k \in 1..Len(Tail(msgs)) : k + 1 \in 1..Len(msgs) /\ Tail(msgs)[k] = msgs[k + 1]
<1>1. /\ Head(msgs) \in TimerMsg /\ Tail(msgs) \in Seq(TimerMsg)
      /\ Len(Tail(msgs)) = Len(msgs) - 1
      /\ \A k \in 1..Len(Tail(msgs)) : Tail(msgs)[k] = msgs[k + 1]
  BY HeadTailProperties DEF QueueType
<1>2. Len(msgs) \in Nat /\ Len(msgs) >= 1 /\ msgs[1] = Head(msgs)
  BY EmptySeq DEF QueueType
<1> QED BY <1>1, <1>2

\* A message behind the others.
LEMMA PutLast ==
  ASSUME QueueType, NEW m \in TimerMsg
  PROVE  /\ Append(msgs, m) \in Seq(TimerMsg)
         /\ \A k \in 1..Len(Append(msgs, m)) :
              \/ k \in 1..Len(msgs) /\ Append(msgs, m)[k] = msgs[k]
              \/ k = Len(msgs) + 1 /\ Append(msgs, m)[k] = m
         /\ Len(msgs) \in Nat
<1>1. /\ Append(msgs, m) \in Seq(TimerMsg) /\ Len(Append(msgs, m)) = Len(msgs) + 1
      /\ \A k \in 1..Len(msgs) : Append(msgs, m)[k] = msgs[k]
      /\ Append(msgs, m)[Len(msgs) + 1] = m
  BY AppendProperties DEF QueueType
<1>2. Len(msgs) \in Nat
  BY LenProperties DEF QueueType
<1> QED BY <1>1, <1>2

-----------------------------------------------------------------------------
(* The books: which step does what to messages, heap and lives.            *)

\* A message taken from the front with the heap growing no larger.
LEMMA BooksTaken ==
  ASSUME Types, Books, msgs # <<>>, msgs' = Tail(msgs), heap' \subseteq heap,
         UNCHANGED <<life, mLock, mTimer, starts>>
  PROVE  Books'
<1>1. \A k \in 1..Len(msgs') : k + 1 \in 1..Len(msgs) /\ msgs'[k] = msgs[k + 1]
  BY TakeFirst DEF Types
<1>2. \A j, k \in 1..Len(msgs') : (j + 1 = k + 1 => j = k) /\ (j + 1 < k + 1 => j < k)
  BY TakeFirst DEF Types
<1>3. LifeInv'
  BY DEF Books, LifeInv
<1>4. MsgInv'
  <2>1. \A k \in 1..Len(msgs') : IsPush(k)' => life[msgs'[k].timer] \in Live /\ msgs'[k].timer \notin heap'
    BY <1>1 DEF Books, MsgInv, IsPush
  <2>2. \A k \in 1..Len(msgs') : IsRemove(k)' => life[msgs'[k].timer] \in {"stopped", "fired"}
    BY <1>1 DEF Books, MsgInv, IsRemove
  <2>3. \A j, k \in 1..Len(msgs') :
          IsPush(j)' /\ IsPush(k)' /\ msgs'[j].timer = msgs'[k].timer => j = k
    BY <1>1, <1>2 DEF Books, MsgInv, IsPush
  <2>4. \A j, k \in 1..Len(msgs') :
          IsRemove(j)' /\ IsRemove(k)' /\ msgs'[j].timer = msgs'[k].timer => j = k
    BY <1>1, <1>2 DEF Books, MsgInv, IsRemove
  <2>5. \A j, k \in 1..Len(msgs') :
          IsPush(j)' /\ IsRemove(k)' /\ msgs'[j].timer = msgs'[k].timer => j < k
    BY <1>1, <1>2 DEF Books, MsgInv, IsPush, IsRemove
  <2>6. \A d \in heap' : life[d] \in Live
    BY DEF Books, MsgInv
  <2> QED BY <2>1, <2>2, <2>3, <2>4, <2>5, <2>6 DEF MsgInv, IsPush, IsRemove
<1> QED BY <1>3, <1>4 DEF Books

\* The heap shrinks, or an expiry is announced.
LEMMA BooksShrunk ==
  ASSUME Types, Books, heap' \subseteq heap, UNCHANGED <<msgs, life, mLock, mTimer, starts>>
  PROVE  Books'
  BY DEF Books, LifeInv, MsgInv, IsPush, IsRemove

LEMMA BooksExpire ==
  ASSUME Types, Books, msgs' = Append(msgs, [type |-> "Expire"]),
         UNCHANGED <<heap, life, mLock, mTimer, starts>>
  PROVE  Books'
<1> DEFINE m == [type |-> "Expire"]
<1>1. m \in TimerMsg /\ m.type = "Expire"
  BY DEF TimerMsg
<1>2. \A k \in 1..Len(msgs') :
        \/ k \in 1..Len(msgs) /\ msgs'[k] = msgs[k]
        \/ k = Len(msgs) + 1 /\ msgs'[k].type = "Expire"
  BY <1>1, PutLast DEF Types
<1>3. LifeInv'
  BY DEF Books, LifeInv
<1>4. \A k \in 1..Len(msgs') :
        IsPush(k)' \/ IsRemove(k)' => k \in 1..Len(msgs) /\ msgs'[k] = msgs[k]
  BY <1>2 DEF IsPush, IsRemove
<1>5. MsgInv'
  BY <1>4 DEF Books, MsgInv, IsPush, IsRemove
<1> QED BY <1>3, <1>5 DEF Books

\* A new delegate: unborn before, so named by nothing.
LEMMA BooksStart ==
  ASSUME Types, Books, NEW c \in Client, Start(c)
  PROVE  Books'
<1> DEFINE d == starts + 1
           m == [type |-> "Push", timer |-> d]
<1> USE TimerAssumption
<1>1. d \in Timer /\ life[d] = "unborn" /\ d > starts /\ starts' = d
  BY DEF Start, Types, DelegateType, Timer, Books, LifeInv
<1>2. /\ life' = [life EXCEPT ![d] = "running"] /\ mLock' = [mLock EXCEPT ![d] = c]
      /\ mTimer' = [mTimer EXCEPT ![c] = d] /\ msgs' = Append(msgs, m) /\ heap' = heap
  BY DEF Start
<1>3. \A e \in Timer : /\ life'[e] = IF e = d THEN "running" ELSE life[e]
                       /\ mLock'[e] = IF e = d THEN c ELSE mLock[e]
  BY <1>2 DEF Types, DelegateType
<1>4. \A b \in Client : mTimer'[b] = IF b = c THEN d ELSE mTimer[b]
  BY <1>2 DEF Types, ClientType
<1>5. LifeInv'
  <2>1. \A e \in Timer : life'[e] = "unborn" <=> e > starts'
    BY <1>1, <1>3 DEF Books, LifeInv, Types, DelegateType, Timer
  <2>2. \A e \in Timer : (life'[e] # "unborn" => mLock'[e] \in Client)
                         /\ (life'[e] = "unborn" => mLock'[e] = NoClient)
    BY <1>3 DEF Books, LifeInv
  <2>3. \A b \in Client : mTimer'[b] # None => life'[mTimer'[b]] = "running" /\ mLock'[mTimer'[b]] = b
    <3> SUFFICES ASSUME NEW b \in Client, mTimer'[b] # None
                 PROVE  life'[mTimer'[b]] = "running" /\ mLock'[mTimer'[b]] = b
      OBVIOUS
    <3>1. CASE b = c
      BY <1>1, <1>3, <1>4, <3>1
    <3>2. CASE b # c
      <4>1. mTimer'[b] = mTimer[b] /\ mTimer[b] \in Timer /\ life[mTimer[b]] = "running"
            /\ mLock[mTimer[b]] = b
        BY <1>4, <3>2 DEF Books, LifeInv, Types, ClientType
      <4>2. mTimer[b] # d
        BY <1>1, <4>1
      <4> QED BY <1>3, <4>1, <4>2
    <3> QED BY <3>1, <3>2
  <2> QED BY <2>1, <2>2, <2>3 DEF LifeInv
<1>6. m \in TimerMsg
  BY <1>1 DEF TimerMsg
<1>7. /\ Len(msgs) \in Nat
      /\ \A k \in 1..Len(msgs') :
           \/ k \in 1..Len(msgs) /\ msgs'[k] = msgs[k]
           \/ k = Len(msgs) + 1 /\ msgs'[k] = m
  BY <1>2, <1>6, PutLast DEF Types
<1>8. \A k \in 1..Len(msgs) : IsPush(k) \/ IsRemove(k) =>
        msgs[k].timer \in Timer /\ msgs[k].timer # d
  <2> TAKE k \in 1..Len(msgs)
  <2> HAVE IsPush(k) \/ IsRemove(k)
  <2>1. msgs[k] \in TimerMsg
    BY ElementOfSeq DEF Types, QueueType
  <2>2. msgs[k].timer \in Timer
    BY <2>1, MsgParts DEF IsPush, IsRemove
  <2>3. life[msgs[k].timer] # "unborn"
    BY DEF Books, MsgInv, Live
  <2> QED BY <1>1, <2>2, <2>3
<1>9. d \notin heap
  BY <1>1 DEF Books, MsgInv, Live
<1>10. m.type = "Push" /\ m.timer = d
  OBVIOUS
<1> HIDE DEF m, d
<1>11. MsgInv'
  <2>1. \A k \in 1..Len(msgs') :
          IsPush(k)' => life'[msgs'[k].timer] \in Live /\ msgs'[k].timer \notin heap'
    BY <1>1, <1>2, <1>3, <1>7, <1>8, <1>9, <1>10 DEF Books, MsgInv, IsPush, Live
  <2>2. \A k \in 1..Len(msgs') : IsRemove(k)' => life'[msgs'[k].timer] \in {"stopped", "fired"}
    BY <1>3, <1>7, <1>8, <1>10 DEF Books, MsgInv, IsRemove
  <2>3. \A j, k \in 1..Len(msgs') :
          IsPush(j)' /\ IsPush(k)' /\ msgs'[j].timer = msgs'[k].timer => j = k
    BY <1>7, <1>8, <1>10 DEF Books, MsgInv, IsPush
  <2>4. \A j, k \in 1..Len(msgs') :
          IsRemove(j)' /\ IsRemove(k)' /\ msgs'[j].timer = msgs'[k].timer => j = k
    BY <1>7, <1>10 DEF Books, MsgInv, IsRemove
  <2>5. \A j, k \in 1..Len(msgs') :
          IsPush(j)' /\ IsRemove(k)' /\ msgs'[j].timer = msgs'[k].timer => j < k
    BY <1>7, <1>8, <1>10 DEF Books, MsgInv, IsPush, IsRemove
  <2>6. \A e \in heap' : life'[e] \in Live
    BY <1>2, <1>3, <1>9 DEF Books, MsgInv, Types, QueueType
  <2> QED BY <2>1, <2>2, <2>3, <2>4, <2>5, <2>6 DEF MsgInv, IsPush, IsRemove
<1> QED BY <1>5, <1>11 DEF Books

\* A running delegate is given up: its Remove comes after its Push.
LEMMA BooksStopped ==
  ASSUME Types, Books, NEW c \in Client, mTimer[c] # None, NEW how \in {"stopped", "fired"},
         Stopped(c, how), UNCHANGED <<mLock, starts, heap>>
  PROVE  Books'
<1> DEFINE d == mTimer[c]
           m == [type |-> "Remove", timer |-> d]
<1>1. d \in Timer /\ life[d] = "running" /\ mLock[d] = c
  BY DEF Types, ClientType, Books, LifeInv
<1>2. /\ life' = [life EXCEPT ![d] = how] /\ mTimer' = [mTimer EXCEPT ![c] = None]
      /\ msgs' = Append(msgs, m)
  BY DEF Stopped
<1>3. \A e \in Timer : life'[e] = IF e = d THEN how ELSE life[e]
  BY <1>2 DEF Types, DelegateType
<1>4. \A b \in Client : mTimer'[b] = IF b = c THEN None ELSE mTimer[b]
  BY <1>2 DEF Types, ClientType
<1>5. LifeInv'
  <2>1. \A b \in Client : mTimer'[b] # None => life'[mTimer'[b]] = "running" /\ mLock[mTimer'[b]] = b
    <3> SUFFICES ASSUME NEW b \in Client, mTimer'[b] # None
                 PROVE  life'[mTimer'[b]] = "running" /\ mLock[mTimer'[b]] = b
      OBVIOUS
    <3>1. b # c /\ mTimer'[b] = mTimer[b] /\ mTimer[b] \in Timer
          /\ life[mTimer[b]] = "running" /\ mLock[mTimer[b]] = b
      BY <1>4 DEF Books, LifeInv, Types, ClientType
    <3>2. mTimer[b] # d
      BY <1>1, <3>1
    <3> QED BY <1>3, <3>1, <3>2
  <2>2. \A e \in Timer : life'[e] = "unborn" <=> life[e] = "unborn"
    BY <1>1, <1>3
  <2> QED BY <2>1, <2>2 DEF Books, LifeInv
<1>6. m \in TimerMsg /\ m.type = "Remove" /\ m.timer = d
  BY <1>1 DEF TimerMsg
<1> HIDE DEF m
<1>7. /\ Len(msgs) \in Nat
      /\ \A k \in 1..Len(msgs') :
           \/ k \in 1..Len(msgs) /\ msgs'[k] = msgs[k]
           \/ k = Len(msgs) + 1 /\ msgs'[k] = m
  BY <1>2, <1>6, PutLast DEF Types
<1>8. \A k \in 1..Len(msgs) :
        /\ IsPush(k) \/ IsRemove(k) => msgs[k].timer \in Timer
        /\ IsRemove(k) => msgs[k].timer # d
  <2> TAKE k \in 1..Len(msgs)
  <2>1. msgs[k] \in TimerMsg
    BY ElementOfSeq DEF Types, QueueType
  <2> QED BY <1>1, <2>1, MsgParts DEF Books, MsgInv, IsPush, IsRemove
<1> HIDE DEF d
<1>9. MsgInv'
  <2>1. \A k \in 1..Len(msgs') :
          IsPush(k)' => life'[msgs'[k].timer] \in Live /\ msgs'[k].timer \notin heap
    BY <1>3, <1>6, <1>7, <1>8 DEF Books, MsgInv, IsPush, Live
  <2>2. \A k \in 1..Len(msgs') : IsRemove(k)' => life'[msgs'[k].timer] \in {"stopped", "fired"}
    BY <1>1, <1>3, <1>6, <1>7, <1>8 DEF Books, MsgInv, IsRemove
  <2>3. \A j, k \in 1..Len(msgs') :
          IsPush(j)' /\ IsPush(k)' /\ msgs'[j].timer = msgs'[k].timer => j = k
    BY <1>6, <1>7 DEF Books, MsgInv, IsPush
  <2>4. \A j, k \in 1..Len(msgs') :
          IsRemove(j)' /\ IsRemove(k)' /\ msgs'[j].timer = msgs'[k].timer => j = k
    BY <1>6, <1>7, <1>8 DEF Books, MsgInv, IsRemove
  <2>5. \A j, k \in 1..Len(msgs') :
          IsPush(j)' /\ IsRemove(k)' /\ msgs'[j].timer = msgs'[k].timer => j < k
    BY <1>6, <1>7 DEF Books, MsgInv, IsPush, IsRemove
  <2>6. \A e \in heap : life'[e] \in Live
    BY <1>3 DEF Books, MsgInv, Live, Types, QueueType
  <2> QED BY <2>1, <2>2, <2>3, <2>4, <2>5, <2>6 DEF MsgInv, IsPush, IsRemove
<1> QED BY <1>5, <1>9 DEF Books

\* The delegate of the Push in hand goes into the heap; no other Push has it.
LEMMA BooksPush ==
  ASSUME Types, Books, Push
  PROVE  Books'
<1> DEFINE d == Head(msgs).timer
<1>1. /\ msgs # <<>> /\ msgs' = Tail(msgs) /\ heap' = heap \cup {d} /\ Head(msgs).type = "Push"
      /\ UNCHANGED <<life, mLock, mTimer, starts>>
  BY DEF Push, Takes, Taken, delegates, clients
<1>2. /\ 1 \in 1..Len(msgs) /\ IsPush(1) /\ msgs[1].timer = d
      /\ \A k \in 1..Len(msgs') : k + 1 \in 1..Len(msgs) /\ msgs'[k] = msgs[k + 1] /\ k + 1 # 1
  BY <1>1, TakeFirst DEF Types, IsPush
<1>3. \A j, k \in 1..Len(msgs') : (j + 1 = k + 1 => j = k) /\ (j + 1 < k + 1 => j < k)
  BY <1>1, TakeFirst DEF Types
<1>4. life[d] \in Live
  BY <1>2 DEF Books, MsgInv
<1>5. LifeInv'
  BY <1>1 DEF Books, LifeInv
<1> HIDE DEF d
<1>6. MsgInv'
  <2>1. \A k \in 1..Len(msgs') : IsPush(k)' => life[msgs'[k].timer] \in Live /\ msgs'[k].timer \notin heap'
    BY <1>1, <1>2 DEF Books, MsgInv, IsPush
  <2>2. \A k \in 1..Len(msgs') : IsRemove(k)' => life[msgs'[k].timer] \in {"stopped", "fired"}
    BY <1>2 DEF Books, MsgInv, IsRemove
  <2>3. \A j, k \in 1..Len(msgs') :
          IsPush(j)' /\ IsPush(k)' /\ msgs'[j].timer = msgs'[k].timer => j = k
    BY <1>2, <1>3 DEF Books, MsgInv, IsPush
  <2>4. \A j, k \in 1..Len(msgs') :
          IsRemove(j)' /\ IsRemove(k)' /\ msgs'[j].timer = msgs'[k].timer => j = k
    BY <1>2, <1>3 DEF Books, MsgInv, IsRemove
  <2>5. \A j, k \in 1..Len(msgs') :
          IsPush(j)' /\ IsRemove(k)' /\ msgs'[j].timer = msgs'[k].timer => j < k
    BY <1>2, <1>3 DEF Books, MsgInv, IsPush, IsRemove
  <2>6. \A e \in heap' : life[e] \in Live
    BY <1>1, <1>4 DEF Books, MsgInv
  <2> QED BY <1>1, <2>1, <2>2, <2>3, <2>4, <2>5, <2>6 DEF MsgInv, IsPush, IsRemove
<1> QED BY <1>5, <1>6 DEF Books

\* The delegate of the Remove in hand is deleted: it is out of the heap, its
\* Push is behind, it has no other Remove, and no client has it.
LEMMA BooksRemove ==
  ASSUME Types, Books, Remove
  PROVE  Books'
<1> DEFINE d == Head(msgs).timer
<1>1. /\ msgs # <<>> /\ msgs' = Tail(msgs) /\ heap' = heap \ {d} /\ Head(msgs).type = "Remove"
      /\ life' = [life EXCEPT ![d] = "deleted"]
      /\ UNCHANGED <<mLock, mTimer, starts>>
  BY DEF Remove, Takes, Taken, Without, Deleted
<1>2. /\ 1 \in 1..Len(msgs) /\ IsRemove(1) /\ msgs[1].timer = d /\ d \in Timer
      /\ \A k \in 1..Len(msgs') :
           /\ k + 1 \in 1..Len(msgs) /\ msgs'[k] = msgs[k + 1] /\ k + 1 # 1
           /\ ~(k + 1 < 1) /\ msgs'[k] \in TimerMsg
  <2>1. Head(msgs) \in TimerMsg
    BY <1>1, TakeFirst DEF Types
  <2>2. \A k \in 1..Len(msgs') : msgs'[k] \in TimerMsg
    BY <1>1, TakeFirst, ElementOfSeq DEF Types
  <2> QED BY <1>1, <2>1, <2>2, TakeFirst, MsgParts DEF Types, IsRemove
<1>3. \A j, k \in 1..Len(msgs') : (j + 1 = k + 1 => j = k) /\ (j + 1 < k + 1 => j < k)
  BY <1>1, TakeFirst DEF Types
<1>4. life[d] \in {"stopped", "fired"}
  BY <1>2 DEF Books, MsgInv
<1> HIDE DEF d
<1>5. \A e \in Timer : life'[e] = IF e = d THEN "deleted" ELSE life[e]
  BY <1>1 DEF Types, DelegateType
<1>6. \A k \in 1..Len(msgs') : (IsPush(k)' \/ IsRemove(k)') =>
        msgs'[k].timer # d /\ msgs'[k].timer \in Timer
  BY <1>2, MsgParts DEF Books, MsgInv, IsPush, IsRemove
<1>7. LifeInv'
  <2>1. \A c \in Client : mTimer[c] # None => mTimer[c] # d /\ mTimer[c] \in Timer
    BY <1>4 DEF Books, LifeInv, Types, ClientType
  <2>2. \A e \in Timer : life'[e] = "unborn" <=> life[e] = "unborn"
    BY <1>4, <1>5
  <2> QED BY <1>1, <1>5, <2>1, <2>2 DEF Books, LifeInv
<1>8. MsgInv'
  <2>1. \A k \in 1..Len(msgs') :
          IsPush(k)' => life'[msgs'[k].timer] \in Live /\ msgs'[k].timer \notin heap'
    BY <1>1, <1>2, <1>5, <1>6 DEF Books, MsgInv, IsPush
  <2>2. \A k \in 1..Len(msgs') : IsRemove(k)' => life'[msgs'[k].timer] \in {"stopped", "fired"}
    BY <1>2, <1>5, <1>6 DEF Books, MsgInv, IsRemove
  <2>3. \A j, k \in 1..Len(msgs') :
          IsPush(j)' /\ IsPush(k)' /\ msgs'[j].timer = msgs'[k].timer => j = k
    BY <1>2, <1>3 DEF Books, MsgInv, IsPush
  <2>4. \A j, k \in 1..Len(msgs') :
          IsRemove(j)' /\ IsRemove(k)' /\ msgs'[j].timer = msgs'[k].timer => j = k
    BY <1>2, <1>3 DEF Books, MsgInv, IsRemove
  <2>5. \A j, k \in 1..Len(msgs') :
          IsPush(j)' /\ IsRemove(k)' /\ msgs'[j].timer = msgs'[k].timer => j < k
    BY <1>2, <1>3 DEF Books, MsgInv, IsPush, IsRemove
  <2>6. \A e \in heap' : life'[e] \in Live
    BY <1>1, <1>5 DEF Books, MsgInv, Types, QueueType
  <2> QED BY <2>1, <2>2, <2>3, <2>4, <2>5, <2>6 DEF MsgInv, IsPush, IsRemove
<1> QED BY <1>7, <1>8 DEF Books

-----------------------------------------------------------------------------
(* The shared lock is counted by its users.                                *)

Sharers(c) == {d \in Timer : mLock[d] = c /\ life[d] # "deleted"}

LEMMA FiniteTimers ==
  /\ IsFiniteSet(Timer)
  /\ \A S \in SUBSET Timer : IsFiniteSet(S) /\ Cardinality(S) \in Nat
<1>1. IsFiniteSet(Timer)
  BY FS_Interval, TimerAssumption DEF Timer
<1> QED BY <1>1, FS_Subset, FS_CardinalityType

LEMMA SharersCounted ==
  \A c \in Client : IsFiniteSet(Sharers(c)) /\ Cardinality(Sharers(c)) \in Nat
<1>1. \A c \in Client : Sharers(c) \in SUBSET Timer
  BY DEF Sharers
<1> QED BY <1>1, FiniteTimers

\* A step that deletes and makes no delegate and no LocTimer.
LEMMA LocksKept ==
  ASSUME LockShared, UNCHANGED <<mRef, mLock, alive>>,
         \A d \in Timer : life'[d] = "deleted" <=> life[d] = "deleted"
  PROVE  LockShared'
<1>1. \A c \in Client : Sharers(c)' = Sharers(c)
  BY DEF Sharers
<1> QED BY <1>1 DEF LockShared, Sharers

\* A new delegate shares the lock of the client it was made for.
LEMMA LocksStart ==
  ASSUME Types, Books, LockShared, NEW c \in Client, Start(c)
  PROVE  LockShared'
<1> DEFINE d == starts + 1
<1>1. d \in Timer /\ life[d] = "unborn" /\ mLock[d] = NoClient /\ NoClient \notin Client
  BY TimerAssumption DEF Start, Types, DelegateType, Timer, Books, LifeInv
<1>2. /\ life' = [life EXCEPT ![d] = "running"] /\ mLock' = [mLock EXCEPT ![d] = c]
      /\ mRef' = [mRef EXCEPT ![c] = @ + 1] /\ alive' = alive
  BY DEF Start
<1> HIDE DEF d
<1>3. \A e \in Timer : /\ life'[e] = IF e = d THEN "running" ELSE life[e]
                       /\ mLock'[e] = IF e = d THEN c ELSE mLock[e]
  BY <1>2 DEF Types, DelegateType
<1>4. \A b \in Client : mRef'[b] = IF b = c THEN mRef[b] + 1 ELSE mRef[b]
  BY <1>2 DEF Types, ClientType
<1>5. Sharers(c)' = Sharers(c) \cup {d} /\ d \notin Sharers(c)
  BY <1>1, <1>3 DEF Sharers
<1>6. \A b \in Client \ {c} : Sharers(b)' = Sharers(b)
  BY <1>1, <1>3 DEF Sharers
<1>7. Cardinality(Sharers(c)') = Cardinality(Sharers(c)) + 1
  BY <1>5, SharersCounted, FS_AddElement
<1> SUFFICES ASSUME NEW b \in Client
             PROVE  mRef'[b] = Cardinality(Sharers(b)') + (IF alive'[b] THEN 1 ELSE 0)
  BY DEF LockShared, Sharers
<1>8. mRef[b] = Cardinality(Sharers(b)) + (IF alive[b] THEN 1 ELSE 0) /\ Cardinality(Sharers(b)) \in Nat
  BY SharersCounted DEF LockShared, Sharers
<1>9. CASE b = c
  BY <1>2, <1>4, <1>7, <1>8, <1>9
<1>10. CASE b # c
  BY <1>2, <1>4, <1>6, <1>8, <1>10
<1> QED BY <1>9, <1>10

\* The LocTimer goes, and with it its own share.
LEMMA LocksDelete ==
  ASSUME Types, Books, LockShared, NEW c \in Client, Delete(c)
  PROVE  LockShared'
<1>1. /\ alive[c] /\ alive' = [alive EXCEPT ![c] = FALSE]
      /\ mRef' = [mRef EXCEPT ![c] = @ - 1] /\ mLock' = mLock
  BY DEF Delete
<1>2. \A d \in Timer : life'[d] = "deleted" <=> life[d] = "deleted"
  <2>1. CASE mTimer[c] = None
    BY <2>1 DEF Delete
  <2>2. CASE mTimer[c] # None
    BY <2>2 DEF Delete, Stopped, Books, LifeInv, Types, ClientType, DelegateType
  <2> QED BY <2>1, <2>2
<1>3. \A b \in Client : Sharers(b)' = Sharers(b)
  BY <1>1, <1>2 DEF Sharers
<1> SUFFICES ASSUME NEW b \in Client
             PROVE  mRef'[b] = Cardinality(Sharers(b)) + (IF alive'[b] THEN 1 ELSE 0)
  BY <1>3 DEF LockShared, Sharers
<1>4. mRef[b] = Cardinality(Sharers(b)) + (IF alive[b] THEN 1 ELSE 0) /\ Cardinality(Sharers(b)) \in Nat
  BY SharersCounted DEF LockShared, Sharers
<1> QED BY <1>1, <1>4 DEF Types, ClientType

\* A deleted delegate drops the share of the client it was made for.
LEMMA LocksRemove ==
  ASSUME Types, Books, LockShared, Remove
  PROVE  LockShared'
<1>1. msgs # <<>> /\ IsRemove(1) /\ msgs[1] = Head(msgs) /\ 1 \in 1..Len(msgs) /\ Head(msgs).timer \in Timer
  <2>1. msgs # <<>> /\ Head(msgs).type = "Remove"
    BY DEF Remove, Takes
  <2> QED BY <2>1, TakeFirst, MsgParts DEF Types, IsRemove
<1>2. PICK d \in Timer : d = Head(msgs).timer /\ life[d] \in {"stopped", "fired"}
  BY <1>1 DEF Books, MsgInv
<1>3. PICK c \in Client : mLock[d] = c
  BY <1>2 DEF Books, LifeInv
<1>4. /\ life' = [life EXCEPT ![d] = "deleted"] /\ mRef' = [mRef EXCEPT ![c] = @ - 1]
      /\ UNCHANGED <<mLock, alive>>
  BY <1>2, <1>3 DEF Remove, Deleted
<1>5. \A e \in Timer : life'[e] = IF e = d THEN "deleted" ELSE life[e]
  BY <1>4 DEF Types, DelegateType
<1>6. \A b \in Client : mRef'[b] = IF b = c THEN mRef[b] - 1 ELSE mRef[b]
  BY <1>4 DEF Types, ClientType
<1>7. d \in Sharers(c) /\ Sharers(c)' = Sharers(c) \ {d}
  BY <1>2, <1>3, <1>4, <1>5 DEF Sharers
<1>8. \A b \in Client \ {c} : Sharers(b)' = Sharers(b)
  BY <1>3, <1>4, <1>5 DEF Sharers
<1>9. Cardinality(Sharers(c)') = Cardinality(Sharers(c)) - 1
  BY <1>3, <1>7, SharersCounted, FS_RemoveElement
<1> SUFFICES ASSUME NEW b \in Client
             PROVE  mRef'[b] = Cardinality(Sharers(b)') + (IF alive'[b] THEN 1 ELSE 0)
  BY DEF LockShared, Sharers
<1>10. mRef[b] = Cardinality(Sharers(b)) + (IF alive[b] THEN 1 ELSE 0) /\ Cardinality(Sharers(b)) \in Nat
  BY SharersCounted DEF LockShared, Sharers
<1>11. CASE b = c
  BY <1>4, <1>6, <1>9, <1>10, <1>11
<1>12. CASE b # c
  BY <1>4, <1>6, <1>8, <1>10, <1>12
<1> QED BY <1>11, <1>12

-----------------------------------------------------------------------------
(* The heap and its top.                                                   *)

LEMMA TopOfHeap ==
  ASSUME Types, TopInv
  PROVE  /\ heap = {} <=> top = None
         /\ heap # {} => /\ top \in heap /\ top \in Timer
                         /\ \A e \in heap : ~OutRanks(e, top)
<1>1. None \notin Timer
  BY TimerAssumption DEF Timer, None
<1>2. CASE heap = {}
  BY <1>2 DEF TopInv
<1>3. CASE heap # {}
  BY <1>1, <1>3 DEF TopInv, Soonest, Types, QueueType
<1> QED BY <1>2, <1>3

LEMMA TopKept ==
  ASSUME TopInv, UNCHANGED <<heap, top>>, \A e \in heap : mFutureTime'[e] = mFutureTime[e]
  PROVE  TopInv'
<1>1. CASE heap = {}
  BY <1>1 DEF TopInv
<1>2. CASE heap # {}
  <2>1. \A d, e \in heap : OutRanks(d, e)' <=> OutRanks(d, e)
    BY DEF OutRanks, Sec
  <2>2. top \in heap /\ \A e \in heap : ~OutRanks(e, top)
    BY <1>2 DEF TopInv, Soonest
  <2>3. \A e \in heap : ~OutRanks(e, top)'
    BY <2>1, <2>2
  <2> QED BY <1>2, <2>2, <2>3 DEF TopInv, Soonest, OutRanks
<1> QED BY <1>1, <1>2

\* A member taken out of the heap.
LEMMA TopWithout ==
  ASSUME Types, TopInv, NEW d \in heap, Without(d), mFutureTime' = mFutureTime
  PROVE  TopInv'
<1>1. heap # {} /\ heap' = heap \ {d}
  BY DEF Without
<1>2. top \in heap /\ \A e \in heap : ~OutRanks(e, top)
  BY <1>1, TopOfHeap
<1>3. top' \in IF heap' = {} THEN {None} ELSE Soonest(heap')
  <2>1. CASE d # top
    BY <1>1, <1>2, <2>1 DEF Without, Soonest
  <2>2. CASE d = top
    BY <1>1, <2>2 DEF Without
  <2> QED BY <2>1, <2>2
<1>4. Soonest(heap') = Soonest(heap)'
  BY DEF Soonest, OutRanks
<1> QED BY <1>3, <1>4 DEF TopInv

\* A new member of the heap.
LEMMA TopPush ==
  ASSUME Types, TopInv, NEW d \in Timer, heap' = heap \cup {d}, top' = TopWith(d),
         mFutureTime' = mFutureTime
  PROVE  TopInv'
<1> SUFFICES top' \in Soonest(heap')
  BY DEF TopInv, Soonest, OutRanks
<1>1. \A e \in heap \cup {d} : Sec(mFutureTime[e]) \in Int
  BY FutureInt DEF Types, QueueType
<1>2. CASE heap = {}
  <2>1. top' = d
    BY <1>2, TopOfHeap DEF TopWith
  <2> QED BY <1>1, <1>2, <2>1 DEF Soonest, OutRanks
<1>3. CASE heap # {}
  <2>1. top # None /\ top \in heap /\ \A e \in heap : ~OutRanks(e, top)
    BY <1>3, TopOfHeap
  <2>2. top' \in heap \cup {d}
    BY <2>1 DEF TopWith
  <2>3. CASE OutRanks(d, top)
    <3>1. top' = d
      BY <2>3 DEF TopWith
    <3>2. \A e \in heap \cup {d} : ~OutRanks(e, d)
      BY <1>1, <2>1, <2>3 DEF OutRanks
    <3> QED BY <2>2, <3>1, <3>2 DEF Soonest
  <2>4. CASE ~OutRanks(d, top)
    <3>1. top' = top
      BY <2>1, <2>4 DEF TopWith
    <3>2. \A e \in heap \cup {d} : ~OutRanks(e, top)
      BY <2>1, <2>4
    <3> QED BY <2>2, <3>1, <3>2 DEF Soonest
  <2> QED BY <2>3, <2>4
<1> QED BY <1>2, <1>3

-----------------------------------------------------------------------------
(* The timerfd.                                                            *)

LEMMA FdType ==
  ASSUME Types, TopInv', heap' \subseteq Timer, mFutureTime' = mFutureTime,
         NEW p, UpdateSoonestTime(p)
  PROVE  armed' \in 0..MaxTime /\ polled' \in BOOLEAN
<1>1. top' # None => mFutureTime[top'] \in 0..MaxTime
  <2> HAVE top' # None
  <2>1. heap' # {}
    BY DEF TopInv
  <2>2. top' \in heap'
    BY <2>1 DEF TopInv, Soonest
  <2> QED BY <2>2 DEF Types, DelegateType
<1>2. None \in 0..MaxTime
  BY TimerAssumption DEF None
<1> QED BY <1>1, <1>2 DEF UpdateSoonestTime, fd, Types, ThreadType

Announced == \E k \in DOMAIN msgs : msgs[k].type = "Expire"

\* What is taken or put beside an expiry leaves it announced.
LEMMA AnnouncedTaken ==
  ASSUME Types, msgs # <<>>, Head(msgs).type # "Expire", msgs' = Tail(msgs), Announced
  PROVE  Announced'
<1>1. PICK k \in DOMAIN msgs : msgs[k].type = "Expire"
  BY DEF Announced
<1>2. /\ DOMAIN msgs = 1..Len(msgs) /\ Len(msgs) \in Nat /\ msgs[1] = Head(msgs)
      /\ DOMAIN Tail(msgs) = 1..Len(Tail(msgs)) /\ Len(Tail(msgs)) = Len(msgs) - 1
      /\ \A j \in 1..Len(Tail(msgs)) : Tail(msgs)[j] = msgs[j + 1]
  BY HeadTailProperties, LenProperties, TakeFirst DEF Types, QueueType
<1>3. k # 1
  BY <1>1, <1>2
<1>4. k - 1 \in 1..Len(Tail(msgs)) /\ (k - 1) + 1 = k
  BY <1>1, <1>2, <1>3
<1>5. Tail(msgs)[k - 1] = msgs[k]
  BY <1>2, <1>4
<1> QED BY <1>1, <1>2, <1>4, <1>5 DEF Announced

LEMMA AnnouncedPut ==
  ASSUME Types, NEW m \in TimerMsg, msgs' = Append(msgs, m), Announced \/ m.type = "Expire"
  PROVE  Announced'
<1>1. /\ DOMAIN msgs = 1..Len(msgs) /\ Len(msgs) \in Nat
      /\ DOMAIN msgs' = 1..(Len(msgs) + 1) /\ msgs'[Len(msgs) + 1] = m
      /\ \A k \in 1..Len(msgs) : msgs'[k] = msgs[k]
  BY AppendProperties, LenProperties DEF Types, QueueType
<1>2. CASE Announced
  BY <1>1, <1>2 DEF Announced
<1>3. CASE m.type = "Expire"
  <2>1. Len(msgs) + 1 \in DOMAIN msgs'
    BY <1>1
  <2> QED BY <1>1, <1>3, <2>1 DEF Announced
<1> QED BY <1>2, <1>3

\* A step beside the heap, the timerfd and the two threads.
LEMMA ArmedKept ==
  ASSUME Types, TopInv, SoonestArmed, UNCHANGED <<heap, top, armed, polled, poller, task>>,
         Announced => Announced', \A e \in heap : mFutureTime'[e] = mFutureTime[e]
  PROVE  SoonestArmed'
<1>1. heap # {} => top \in heap
  BY TopOfHeap
<1> QED BY <1>1 DEF SoonestArmed, ExpirePending, Announced

-----------------------------------------------------------------------------
(* Every step keeps the invariant.                                         *)

\* A count that is right is a natural number.
LEMMA RefType ==
  ASSUME LockShared', mRef' \in [Client -> Int] PROVE mRef' \in [Client -> Nat]
<1> SUFFICES ASSUME NEW c \in Client PROVE mRef'[c] \in Nat
  OBVIOUS
<1>1. {d \in Timer : mLock'[d] = c /\ life'[d] # "deleted"} \in SUBSET Timer
  OBVIOUS
<1>2. Cardinality({d \in Timer : mLock'[d] = c /\ life'[d] # "deleted"}) \in Nat
  BY <1>1, FiniteTimers
<1>3. mRef'[c] = Cardinality({d \in Timer : mLock'[d] = c /\ life'[d] # "deleted"})
                 + (IF alive'[c] THEN 1 ELSE 0)
  BY DEF LockShared
<1> QED BY <1>2, <1>3

LEMMA KeepsStart == ASSUME IInv, NEW c \in Client, Start(c) PROVE IInv'
<1> USE DEF IInv
<1>1. Books' BY BooksStart
<1>2. LockShared' BY LocksStart
<1>3. starts + 1 \in Timer /\ life[starts + 1] = "unborn" /\ starts + 1 \in 0..MaxStarts
      /\ mTimer[c] = None /\ starts + 1 \notin heap
  <2>1. starts + 1 \in Timer /\ starts + 1 > starts /\ starts + 1 \in 0..MaxStarts /\ mTimer[c] = None
    BY TimerAssumption DEF Start, Types, DelegateType, Timer
  <2>2. life[starts + 1] = "unborn"
    BY <2>1 DEF Books, LifeInv
  <2>3. starts + 1 \notin heap
    BY <2>2 DEF Books, MsgInv, Live
  <2> QED BY <2>1, <2>2, <2>3
<1>4. PICK t \in now..MaxTime : mFutureTime' = [mFutureTime EXCEPT ![starts + 1] = t]
  BY DEF Start
<1>5. \A e \in heap : mFutureTime'[e] = mFutureTime[e]
  BY <1>3, <1>4 DEF Types, QueueType, DelegateType
<1> DEFINE m == [type |-> "Push", timer |-> starts + 1]
<1>6. m \in TimerMsg
  BY <1>3 DEF TimerMsg
<1>7. msgs' = Append(msgs, m)
  BY DEF Start
<1> HIDE DEF m
<1>8. Types'
  <2>1. ClientType'
    <3>1. mRef' \in [Client -> Int]
      BY DEF Start, Types, ClientType
    <3>2. alive' \in [Client -> BOOLEAN] /\ mTimer' \in [Client -> Timer \cup {None}]
      BY <1>3 DEF Start, Types, ClientType
    <3> QED BY <1>2, <3>1, <3>2, RefType DEF ClientType
  <2>2. DelegateType'
    <3>1. t \in 0..MaxTime
      BY TimerAssumption DEF Types, ThreadType
    <3> QED BY <1>3, <1>4, <3>1 DEF Start, Types, DelegateType
  <2>3. QueueType'
    BY <1>6, <1>7, PutLast DEF Start, Types, QueueType
  <2>4. ThreadType'
    BY DEF Start, Types, ThreadType, fd
  <2> QED BY <2>1, <2>2, <2>3, <2>4 DEF Types
<1>9. TopInv'
  BY <1>5, TopKept DEF Start
<1>10. SoonestArmed'
  BY <1>5, <1>6, <1>7, AnnouncedPut, ArmedKept DEF Start, fd
<1> QED BY <1>1, <1>2, <1>8, <1>9, <1>10

\* What giving up a running delegate keeps.
LEMMA KeepsStopped ==
  ASSUME IInv, NEW c \in Client, mTimer[c] # None, NEW how \in {"stopped", "fired"},
         Stopped(c, how),
         UNCHANGED <<alive, mRef, mLock, mFutureTime, starts, heap, top>>
  PROVE  /\ Books' /\ LockShared' /\ ClientType' /\ DelegateType' /\ QueueType' /\ TopInv'
         /\ Announced => Announced'
<1> USE DEF IInv
<1>1. mTimer[c] \in Timer /\ life[mTimer[c]] = "running"
  BY DEF Types, ClientType, Books, LifeInv
<1>2. Books'
  BY BooksStopped
<1>3. LockShared'
  <2>1. \A d \in Timer : life'[d] = "deleted" <=> life[d] = "deleted"
    BY <1>1 DEF Stopped, Types, DelegateType
  <2> QED BY <2>1, LocksKept
<1> DEFINE m == [type |-> "Remove", timer |-> mTimer[c]]
<1>4. m \in TimerMsg
  BY <1>1 DEF TimerMsg
<1>5. msgs' = Append(msgs, m)
  BY DEF Stopped
<1> HIDE DEF m
<1>6. ClientType' /\ DelegateType'
  BY <1>1 DEF Stopped, Types, ClientType, DelegateType
<1>7. QueueType'
  BY <1>4, <1>5, PutLast DEF Types, QueueType
<1>8. TopInv'
  BY TopKept
<1>9. Announced => Announced'
  BY <1>4, <1>5, AnnouncedPut
<1> QED BY <1>2, <1>3, <1>6, <1>7, <1>8, <1>9

LEMMA KeepsStop == ASSUME IInv, NEW c \in Client, Stop(c) PROVE IInv'
<1>1. /\ Stopped(c, "stopped") /\ mTimer[c] # None
      /\ UNCHANGED <<alive, mRef, mLock, mFutureTime, starts, heap, top>>
      /\ UNCHANGED <<now, task, armed, polled, poller, misused>>
  BY DEF Stop, fd
<1>2. /\ Books' /\ LockShared' /\ ClientType' /\ DelegateType' /\ QueueType' /\ TopInv'
      /\ Announced => Announced'
  BY <1>1, KeepsStopped
<1>3. ThreadType'
  BY <1>1 DEF IInv, Types, ThreadType
<1>4. SoonestArmed'
  BY <1>1, <1>2, ArmedKept DEF IInv
<1> QED BY <1>2, <1>3, <1>4 DEF IInv, Types

LEMMA KeepsDelete == ASSUME IInv, NEW c \in Client, Delete(c) PROVE IInv'
<1> USE DEF IInv
<1>1. LockShared' BY LocksDelete
<1>2. /\ alive' = [alive EXCEPT ![c] = FALSE] /\ mRef' = [mRef EXCEPT ![c] = @ - 1]
      /\ UNCHANGED <<mLock, mFutureTime, starts, heap, top>>
      /\ UNCHANGED <<now, task, armed, polled, poller, misused>>
  BY DEF Delete, fd
<1>3. alive' \in [Client -> BOOLEAN] /\ mRef' \in [Client -> Nat]
  <2>1. alive' \in [Client -> BOOLEAN] /\ mRef' \in [Client -> Int]
    BY <1>2 DEF Types, ClientType
  <2> QED BY <1>1, <2>1, RefType
<1>4. ThreadType'
  BY <1>2 DEF Types, ThreadType
<1>5. TopInv'
  BY <1>2, TopKept
<1>6. CASE mTimer[c] = None
  <2>1. UNCHANGED <<mTimer, mClient, life, msgs>>
    BY <1>6 DEF Delete
  <2>2. Books'
    BY <1>2, <2>1, BooksShrunk
  <2>3. ClientType' /\ DelegateType' /\ QueueType'
    BY <1>2, <1>3, <2>1 DEF Types, ClientType, DelegateType, QueueType
  <2>4. Announced => Announced'
    BY <2>1 DEF Announced
  <2>5. SoonestArmed'
    BY <1>2, <2>4, ArmedKept
  <2> QED BY <1>1, <1>4, <1>5, <2>2, <2>3, <2>5 DEF Types
<1>7. CASE mTimer[c] # None
  <2>1. Stopped(c, "stopped")
    BY <1>7 DEF Delete
  <2>2. mTimer[c] \in Timer
    BY <1>7 DEF Types, ClientType
  <2>3. Books'
    BY <1>2, <1>7, <2>1, BooksStopped
  <2> DEFINE m == [type |-> "Remove", timer |-> mTimer[c]]
  <2>4. m \in TimerMsg
    BY <2>2 DEF TimerMsg
  <2>5. msgs' = Append(msgs, m)
    BY <2>1 DEF Stopped
  <2> HIDE DEF m
  <2>6. ClientType' /\ DelegateType'
    BY <1>2, <1>3, <2>1 DEF Stopped, Types, ClientType, DelegateType
  <2>7. QueueType'
    BY <1>2, <2>4, <2>5, PutLast DEF Types, QueueType
  <2>8. Announced => Announced'
    BY <2>4, <2>5, AnnouncedPut
  <2>9. SoonestArmed'
    BY <1>2, <2>8, ArmedKept
  <2> QED BY <1>1, <1>4, <1>5, <2>3, <2>6, <2>7, <2>9 DEF Types
<1> QED BY <1>6, <1>7

\* The message in hand.
LEMMA HandDoes ==
  ASSUME IInv, NEW type \in {"Push", "Remove", "Expire"}, Takes(type), Taken
  PROVE  /\ msgs # <<>> /\ msgs' = Tail(msgs) /\ Head(msgs) \in TimerMsg
         /\ Head(msgs).type = type /\ msgs' \in Seq(TimerMsg) /\ task = Idle
         /\ type # "Expire" => Head(msgs).timer \in Timer
  BY TakeFirst, MsgParts DEF IInv, Types, Takes, Taken

LEMMA KeepsPush == ASSUME IInv, Push PROVE IInv'
<1> USE DEF IInv
<1>1. /\ msgs # <<>> /\ msgs' = Tail(msgs) /\ Head(msgs) \in TimerMsg
      /\ Head(msgs).type = "Push" /\ msgs' \in Seq(TimerMsg) /\ task = Idle
      /\ Head(msgs).timer \in Timer
  BY HandDoes DEF Push
<1>2. PICK d \in Timer : d = Head(msgs).timer
  BY <1>1
<1>3. /\ heap' = heap \cup {d} /\ top' = TopWith(d) /\ UpdateSoonestTime(top)
      /\ UNCHANGED <<now, task, poller, misused, alive, mTimer, mRef>>
      /\ UNCHANGED <<mClient, mLock, mFutureTime, life, starts>>
  BY <1>2 DEF Push, clients, delegates
<1>4. Books' BY BooksPush
<1>5. LockShared'
  BY <1>3, LocksKept
<1>6. TopInv'
  BY <1>3, TopPush
<1>7. d \notin heap
  <2>1. IsPush(1) /\ msgs[1].timer = d /\ 1 \in 1..Len(msgs)
    BY <1>1, <1>2, TakeFirst DEF Types, IsPush
  <2> QED BY <2>1 DEF Books, MsgInv
<1>8. Types'
  <2>1. ClientType' /\ DelegateType' /\ QueueType'
    BY <1>1, <1>3 DEF Types, ClientType, DelegateType, QueueType
  <2>2. armed' \in 0..MaxTime /\ polled' \in BOOLEAN
    <3>1. heap' \subseteq Timer
      BY <1>3 DEF Types, QueueType
    <3> QED BY <1>3, <1>6, <3>1, FdType
  <2> QED BY <1>3, <2>1, <2>2 DEF Types, ThreadType
<1>9. SoonestArmed'
  <2> SUFFICES ASSUME ~ExpirePending' PROVE polled' /\ armed' = mFutureTime[top']
    BY <1>3 DEF SoonestArmed
  <2>1. ~ExpirePending
    <3>1. ~Announced
      BY <1>1, AnnouncedTaken DEF ExpirePending, Announced
    <3> QED BY <1>3, <3>1 DEF ExpirePending, Announced
  <2>2. CASE top' = top
    <3>1. UNCHANGED <<armed, polled>>
      BY <1>3, <2>2 DEF UpdateSoonestTime, fd
    <3>2. heap # {}
      <4>1. None \notin Timer
        BY TimerAssumption DEF Timer, None
      <4> QED BY <1>3, <2>2, <4>1, TopOfHeap DEF TopWith
    <3> QED BY <2>1, <2>2, <3>1, <3>2 DEF SoonestArmed
  <2>3. CASE top' # top
    <3>1. top' = d /\ (top = None \/ OutRanks(d, top))
      BY <1>3, <2>3 DEF TopWith
    <3>2. d # None
      BY TimerAssumption DEF Timer, None
    <3> QED BY <1>3, <2>3, <3>1, <3>2 DEF UpdateSoonestTime
  <2> QED BY <2>2, <2>3
<1> QED BY <1>4, <1>5, <1>6, <1>8, <1>9

LEMMA KeepsRemove == ASSUME IInv, Remove PROVE IInv'
<1> USE DEF IInv
<1>1. /\ msgs # <<>> /\ msgs' = Tail(msgs) /\ Head(msgs) \in TimerMsg
      /\ Head(msgs).type = "Remove" /\ msgs' \in Seq(TimerMsg) /\ task = Idle
      /\ Head(msgs).timer \in Timer
  BY HandDoes DEF Remove
<1>2. PICK d \in Timer : d = Head(msgs).timer
  BY <1>1
<1>3. /\ IF d \in heap THEN Without(d) ELSE UNCHANGED <<heap, top>>
      /\ IF d \in heap /\ d = top THEN UpdateSoonestTime(None) ELSE UNCHANGED <<armed, polled>>
      /\ UNCHANGED <<now, task, poller, misused, alive, mTimer>>
      /\ UNCHANGED <<mClient, mLock, mFutureTime, starts>>
      /\ Deleted(d)
  BY <1>2 DEF Remove, fd
<1>4. Books' BY BooksRemove
<1>5. LockShared' BY LocksRemove
<1>6. TopInv'
  <2>1. CASE d \in heap
    BY <1>3, <2>1, TopWithout
  <2>2. CASE d \notin heap
    BY <1>3, <2>2, TopKept
  <2> QED BY <2>1, <2>2
<1>7. heap' \subseteq heap
  BY <1>3 DEF Without
<1>8. Types'
  <2>1. ClientType'
    <3>1. mLock[d] \in Client
      <4>1. IsRemove(1) /\ msgs[1].timer = d /\ 1 \in 1..Len(msgs)
        BY <1>1, <1>2, TakeFirst DEF Types, IsRemove
      <4> QED BY <4>1 DEF Books, MsgInv, LifeInv
    <3>2. mRef' \in [Client -> Int]
      BY <1>3, <3>1 DEF Deleted, Types, ClientType
    <3> QED BY <1>3, <1>5, <3>2, RefType DEF Types, ClientType
  <2>2. DelegateType' /\ QueueType'
    BY <1>1, <1>3, <1>7 DEF Deleted, Types, DelegateType, QueueType
  <2>3. armed' \in 0..MaxTime /\ polled' \in BOOLEAN
    <3>1. CASE UpdateSoonestTime(None)
      BY <1>3, <1>6, <1>7, <3>1, FdType DEF Types, QueueType
    <3>2. CASE UNCHANGED <<armed, polled>>
      BY <3>2 DEF Types, ThreadType
    <3> QED BY <1>3, <3>1, <3>2
  <2> QED BY <1>3, <2>1, <2>2, <2>3 DEF Types, ThreadType
<1>9. SoonestArmed'
  <2> SUFFICES ASSUME heap' # {}, ~ExpirePending' PROVE polled' /\ armed' = mFutureTime[top']
    BY <1>3 DEF SoonestArmed
  <2>1. ~ExpirePending
    <3>1. ~Announced
      BY <1>1, AnnouncedTaken DEF ExpirePending, Announced
    <3> QED BY <1>3, <3>1 DEF ExpirePending, Announced
  <2>2. polled /\ armed = mFutureTime[top]
    BY <1>7, <2>1 DEF SoonestArmed
  <2>3. CASE d \in heap /\ d = top
    <3>1. top' # None
      <4>1. None \notin heap'
        BY <1>7, TimerAssumption DEF Types, QueueType, Timer, None
      <4> QED BY <1>6, <4>1 DEF TopInv, Soonest
    <3> QED BY <1>3, <2>3, <3>1 DEF UpdateSoonestTime
  <2>4. CASE ~(d \in heap /\ d = top)
    BY <1>3, <2>2, <2>4 DEF Without
  <2> QED BY <2>3, <2>4
<1> QED BY <1>4, <1>5, <1>6, <1>8, <1>9

\* A thread that has an expiry in hand is not idle.
LEMMA Busy == ASSUME NEW t, t.at # "idle" PROVE t # Idle
  BY DEF Idle

\* The top is popped by a thread that goes on handling an expiry.
LEMMA KeepsPopped ==
  ASSUME IInv, heap # {}, NEW at \in 0..MaxTime, Popped(at),
         UNCHANGED <<now, alive, mTimer, mRef, mClient, mLock, mFutureTime, life, starts,
                     armed, polled, poller, misused>>,
         msgs' \in Seq(TimerMsg)
  PROVE  Types' /\ LockShared' /\ TopInv' /\ SoonestArmed' /\ heap' \subseteq heap
<1> USE DEF IInv
<1>1. top \in heap /\ top \in Timer
  BY TopOfHeap
<1>2. heap' \subseteq heap
  BY DEF Popped, Without
<1>3. TopInv'
  BY <1>1, TopWithout DEF Popped
<1>4. LockShared'
  BY LocksKept
<1>5. task' \in Handling /\ task'.at # "idle"
  <2>1. mClient[top] \in Client \cup {NoClient}
    BY <1>1 DEF Types, DelegateType
  <2>2. task' = [at |-> IF mClient[top] = NoClient THEN "next" ELSE "stopping",
                 client |-> mClient[top], now |-> at]
    BY DEF Popped
  <2>3. CASE mClient[top] = NoClient
    BY <2>1, <2>2, <2>3 DEF Handling
  <2>4. CASE mClient[top] # NoClient
    BY <2>1, <2>2, <2>4 DEF Handling
  <2> QED BY <2>3, <2>4
<1>6. SoonestArmed'
  BY <1>5, Busy DEF SoonestArmed, ExpirePending
<1>7. Types'
  BY <1>2, <1>5 DEF Types, ClientType, DelegateType, QueueType, ThreadType
<1> QED BY <1>2, <1>3, <1>4, <1>6, <1>7

LEMMA KeepsExpireBegins == ASSUME IInv, ExpireBegins PROVE IInv'
<1> USE DEF IInv
<1>1. msgs # <<>> /\ msgs' = Tail(msgs) /\ msgs' \in Seq(TimerMsg)
  BY HandDoes DEF ExpireBegins
<1>2. UNCHANGED <<now, alive, mTimer, mRef, mClient, mLock, mFutureTime, life, starts,
                  armed, polled, poller, misused>>
  BY DEF ExpireBegins, clients, delegates, fd
<1>3. CASE heap = {}
  <2>1. UNCHANGED <<heap, top, task>>
    BY <1>3 DEF ExpireBegins
  <2>2. Books'
    BY <1>1, <1>2, <2>1, BooksTaken
  <2>3. LockShared'
    BY <1>2, LocksKept
  <2>4. TopInv'
    BY <1>2, <2>1, TopKept
  <2>5. SoonestArmed'
    BY <1>3, <2>1 DEF SoonestArmed
  <2>6. Types'
    BY <1>1, <1>2, <2>1 DEF Types, ClientType, DelegateType, QueueType, ThreadType
  <2> QED BY <2>2, <2>3, <2>4, <2>5, <2>6
<1>4. CASE heap # {}
  <2>1. Popped(now) /\ now \in 0..MaxTime
    BY <1>4 DEF ExpireBegins, Types, ThreadType
  <2>2. Types' /\ LockShared' /\ TopInv' /\ SoonestArmed' /\ heap' \subseteq heap
    BY <1>1, <1>2, <1>4, <2>1, KeepsPopped
  <2>3. Books'
    BY <1>1, <1>2, <2>2, BooksTaken
  <2> QED BY <2>2, <2>3
<1> QED BY <1>3, <1>4

\* The client in hand is one, and stays so.
LEMMA InHand ==
  ASSUME Types, task # Idle, NEW at \in {"stopping", "calling", "next"}
  PROVE  /\ task \in Handling /\ task.now \in 0..MaxTime
         /\ task.at # "next" => task.client \in Client /\ [task EXCEPT !.at = at] \in Handling
         /\ [task EXCEPT !.at = at].at = at
  BY DEF Types, ThreadType, Handling

LEMMA KeepsExpireStops == ASSUME IInv, ExpireStops PROVE IInv'
<1> USE DEF IInv
<1>1. task.at = "stopping" /\ task # Idle
  BY Busy DEF ExpireStops
<1>2. PICK c \in Client : c = task.client
  BY <1>1, InHand
<1>3. UNCHANGED <<now, alive, mRef, mLock, mFutureTime, starts, heap, top, armed, polled, poller>>
  BY DEF ExpireStops, fd
<1>4. task' \in Handling /\ task'.at # "idle"
  <2>1. task' \in {task, [task EXCEPT !.at = "calling"], [task EXCEPT !.at = "next"]}
    BY DEF ExpireStops
  <2> QED BY <1>1, <2>1, InHand
<1>5. misused' \in BOOLEAN
  BY DEF ExpireStops, Types, ThreadType
<1>6. ThreadType'
  BY <1>3, <1>4, <1>5 DEF Types, ThreadType
<1>7. SoonestArmed'
  BY <1>4, Busy DEF SoonestArmed, ExpirePending
<1>8. CASE alive[c] /\ mTimer[c] # None
  <2>1. Stopped(c, "fired")
    BY <1>2, <1>8 DEF ExpireStops
  <2>2. Books' /\ LockShared' /\ ClientType' /\ DelegateType' /\ QueueType' /\ TopInv'
    BY <1>3, <1>8, <2>1, KeepsStopped
  <2> QED BY <1>6, <1>7, <2>2 DEF Types
<1>9. CASE ~(alive[c] /\ mTimer[c] # None)
  <2>1. UNCHANGED <<mTimer, mClient, life, msgs>>
    BY <1>2, <1>9 DEF ExpireStops
  <2>2. Books'
    BY <1>3, <2>1, BooksShrunk
  <2>3. LockShared'
    BY <1>3, <2>1, LocksKept
  <2>4. TopInv'
    BY <1>3, TopKept
  <2>5. ClientType' /\ DelegateType' /\ QueueType'
    BY <1>3, <2>1 DEF Types, ClientType, DelegateType, QueueType
  <2> QED BY <1>6, <1>7, <2>2, <2>3, <2>4, <2>5 DEF Types
<1> QED BY <1>8, <1>9

LEMMA KeepsExpireCalls == ASSUME IInv, ExpireCalls PROVE IInv'
<1> USE DEF IInv
<1>1. task.at = "calling" /\ task # Idle /\ task' = [task EXCEPT !.at = "next"]
  BY Busy DEF ExpireCalls
<1>2. task' \in Handling /\ task'.at # "idle" /\ task.client \in Client
  BY <1>1, InHand
<1>3. /\ UNCHANGED <<now, alive, mTimer, mRef, mClient, mLock, mFutureTime, life, starts>>
      /\ UNCHANGED <<heap, top, msgs, armed, polled, poller>>
      /\ misused' = ~alive[task.client]
  BY DEF ExpireCalls, clients, delegates, fd
<1>4. Books'
  BY <1>3, BooksShrunk
<1>5. LockShared'
  BY <1>3, LocksKept
<1>6. TopInv'
  BY <1>3, TopKept
<1>7. SoonestArmed'
  BY <1>2, Busy DEF SoonestArmed, ExpirePending
<1>8. misused' \in BOOLEAN
  BY <1>3
<1>9. Types'
  BY <1>2, <1>3, <1>8 DEF Types, ClientType, DelegateType, QueueType, ThreadType
<1> QED BY <1>4, <1>5, <1>6, <1>7, <1>9

LEMMA KeepsExpireGoesOn == ASSUME IInv, ExpireGoesOn PROVE IInv'
<1> USE DEF IInv
<1>1. task.at = "next" /\ task # Idle
  BY Busy DEF ExpireGoesOn
<1>2. UNCHANGED <<now, alive, mTimer, mRef, mClient, mLock, mFutureTime, life, starts,
                  msgs, poller, misused>>
  BY DEF ExpireGoesOn, clients, delegates
<1>3. CASE top # None /\ Sec(mFutureTime[top]) <= Sec(task.now)
  <2>1. Popped(task.now) /\ UNCHANGED <<armed, polled>>
    BY <1>3 DEF ExpireGoesOn, fd
  <2>2. heap # {}
    BY <1>3, TopOfHeap
  <2>3. task.now \in 0..MaxTime
    BY <1>1, InHand
  <2>4. msgs' \in Seq(TimerMsg)
    BY <1>2 DEF Types, QueueType
  <2>5. Types' /\ LockShared' /\ TopInv' /\ SoonestArmed' /\ heap' \subseteq heap
    BY <1>2, <2>1, <2>2, <2>3, <2>4, KeepsPopped
  <2>6. Books'
    BY <1>2, <2>5, BooksShrunk
  <2> QED BY <2>5, <2>6
<1>4. CASE ~(top # None /\ Sec(mFutureTime[top]) <= Sec(task.now))
  <2>1. task' = Idle /\ UNCHANGED <<heap, top>> /\ UpdateSoonestTime(None)
    BY <1>4 DEF ExpireGoesOn
  <2>2. Books'
    BY <1>2, <2>1, BooksShrunk
  <2>3. LockShared'
    BY <1>2, LocksKept
  <2>4. TopInv'
    BY <1>2, <2>1, TopKept
  <2>5. armed' \in 0..MaxTime /\ polled' \in BOOLEAN
    <3>1. heap' \subseteq Timer
      BY <2>1 DEF Types, QueueType
    <3> QED BY <1>2, <2>1, <2>4, <3>1, FdType
  <2>6. Types'
    BY <1>2, <2>1, <2>5 DEF Types, ClientType, DelegateType, QueueType, ThreadType
  <2>7. SoonestArmed'
    <3> SUFFICES ASSUME heap # {} PROVE polled' /\ armed' = mFutureTime'[top']
      BY <2>1 DEF SoonestArmed
    <3>1. top # None
      BY TopOfHeap
    <3> QED BY <1>2, <2>1, <3>1 DEF UpdateSoonestTime
  <2> QED BY <2>2, <2>3, <2>4, <2>6, <2>7
<1> QED BY <1>3, <1>4

LEMMA KeepsPoll == ASSUME IInv, Poll PROVE IInv'
<1> USE DEF IInv
<1>1. /\ UNCHANGED <<now, alive, mTimer, mRef, mClient, mLock, mFutureTime, life, starts>>
      /\ UNCHANGED <<heap, top, task, misused>>
  BY DEF Poll, PollWakes, Disarm, RemovePoll, SendExpire, clients, delegates
<1>2. LockShared'
  BY <1>1, LocksKept
<1>3. TopInv'
  BY <1>1, TopKept
<1>4. None \in 0..MaxTime
  BY TimerAssumption DEF None
<1>5. ThreadType'
  BY <1>1, <1>4 DEF Poll, PollWakes, Disarm, RemovePoll, SendExpire, fd, Types, ThreadType
<1>6. CASE SendExpire
  <2> DEFINE m == [type |-> "Expire"]
  <2>1. m \in TimerMsg /\ m.type = "Expire"
    BY DEF TimerMsg
  <2>2. msgs' = Append(msgs, m)
    BY <1>6 DEF SendExpire
  <2>3. Books'
    BY <1>1, <2>2, BooksExpire
  <2> HIDE DEF m
  <2>4. Announced'
    BY <2>1, <2>2, AnnouncedPut
  <2>5. SoonestArmed'
    BY <2>4 DEF SoonestArmed, ExpirePending, Announced
  <2>6. msgs' \in Seq(TimerMsg)
    BY <2>1, <2>2, PutLast DEF Types
  <2>7. Types'
    BY <1>1, <1>5, <2>6 DEF Types, ClientType, DelegateType, QueueType
  <2> QED BY <1>2, <1>3, <2>3, <2>5, <2>7
<1>7. CASE PollWakes \/ Disarm \/ RemovePoll
  <2>1. msgs' = msgs /\ poller' # "wait"
    BY <1>7 DEF PollWakes, Disarm, RemovePoll
  <2>2. Books'
    BY <1>1, <2>1, BooksShrunk
  <2>3. SoonestArmed'
    BY <2>1 DEF SoonestArmed, ExpirePending
  <2>4. Types'
    BY <1>1, <1>5, <2>1 DEF Types, ClientType, DelegateType, QueueType
  <2> QED BY <1>2, <1>3, <2>2, <2>3, <2>4
<1> QED BY <1>6, <1>7 DEF Poll

\* Nothing but the clock moves, or not even that.
LEMMA KeepsRest ==
  ASSUME IInv, now' \in 0..MaxTime,
         UNCHANGED <<alive, mTimer, mRef, mClient, mLock, mFutureTime, life, starts,
                     heap, top, msgs, task, armed, polled, poller, misused>>
  PROVE  IInv'
<1> USE DEF IInv
<1>1. Books' BY BooksShrunk
<1>2. LockShared' BY LocksKept
<1>3. TopInv' BY TopKept
<1>4. SoonestArmed' BY ArmedKept DEF Announced
<1>5. Types' BY DEF Types, ClientType, DelegateType, QueueType, ThreadType
<1> QED BY <1>1, <1>2, <1>3, <1>4, <1>5

LEMMA InitHolds == ASSUME TicksPerSecond <= MaxTime, Init PROVE IInv
<1> USE TimerAssumption
<1>1. None \notin Timer /\ starts = 0
  BY DEF Init, Timer, None
<1>2. Types
  <2>1. ClientType
    BY DEF Init, ClientType
  <2>2. DelegateType
    <3>1. None \in 0..MaxTime
      BY DEF None
    <3> QED BY <3>1 DEF Init, DelegateType
  <2>3. QueueType
    BY EmptySeq DEF Init, QueueType
  <2>4. ThreadType
    <3>1. now \in 0..MaxTime /\ armed \in 0..MaxTime
      BY DEF Init, None
    <3>2. polled \in BOOLEAN /\ misused \in BOOLEAN
      BY DEF Init
    <3>3. task \in {Idle} \cup Handling /\ poller \in {"wait", "disarm", "remove", "send"}
      BY DEF Init
    <3> QED BY <3>1, <3>2, <3>3 DEF ThreadType
  <2> QED BY <2>1, <2>2, <2>3, <2>4 DEF Types
<1>3. Len(msgs) = 0 /\ DOMAIN msgs = {}
  BY DEF Init
<1>4. Books
  <2>1. \A d \in Timer : life[d] = "unborn" /\ mLock[d] = NoClient /\ d > starts
    BY DEF Init, Timer
  <2>2. LifeInv
    BY <2>1 DEF Init, LifeInv
  <2>3. MsgInv
    BY <1>3 DEF Init, MsgInv
  <2> QED BY <2>2, <2>3 DEF Books
<1>5. LockShared
  <2> SUFFICES ASSUME NEW c \in Client
               PROVE  mRef[c] = Cardinality(Sharers(c)) + (IF alive[c] THEN 1 ELSE 0)
    BY DEF LockShared, Sharers
  <2>1. Sharers(c) = {}
    BY DEF Init, Sharers
  <2>2. Cardinality(Sharers(c)) = 0
    BY <2>1, FS_EmptySet
  <2> QED BY <2>2 DEF Init
<1>6. TopInv /\ SoonestArmed
  BY DEF Init, TopInv, SoonestArmed
<1> QED BY <1>2, <1>4, <1>5, <1>6 DEF IInv

LEMMA NextKeeps == ASSUME IInv, [Next]_vars PROVE IInv'
<1>1. ASSUME NEW c \in Client, Start(c) PROVE IInv'
  BY <1>1, KeepsStart
<1>2. ASSUME NEW c \in Client, Stop(c) PROVE IInv'
  BY <1>2, KeepsStop
<1>3. ASSUME NEW c \in Client, Delete(c) PROVE IInv'
  BY <1>3, KeepsDelete
<1>4. CASE MsgTask
  BY <1>4, KeepsPush, KeepsRemove, KeepsExpireBegins, KeepsExpireStops, KeepsExpireCalls,
     KeepsExpireGoesOn DEF MsgTask
<1>5. CASE Poll
  BY <1>5, KeepsPoll
<1>6. CASE Tick
  <2>1. now' \in 0..MaxTime
    BY <1>6, TimerAssumption DEF Tick, IInv, Types, ThreadType
  <2> QED BY <1>6, <2>1, KeepsRest DEF Tick, clients, delegates, fd
<1>7. CASE UNCHANGED vars
  <2>1. now' \in 0..MaxTime
    BY <1>7 DEF vars, IInv, Types, ThreadType
  <2> QED BY <1>7, <2>1, KeepsRest DEF vars, clients, delegates, fd
<1> QED BY <1>1, <1>2, <1>3, <1>4, <1>5, <1>6, <1>7 DEF Next

LEMMA Invariant == ASSUME TicksPerSecond <= MaxTime PROVE Spec => []IInv
<1>1. Init => IInv BY InitHolds
<1>2. IInv /\ [Next]_vars => IInv' BY NextKeeps
<1> QED BY <1>1, <1>2, PTL DEF Spec

\* The books say that no message, heap or LocTimer names a deleted delegate.
LEMMA BooksDangle == ASSUME Types, Books PROVE NoDangling
<1> SUFFICES ASSUME NEW d \in Timer, life[d] = "deleted"
             PROVE  /\ d \notin heap \cup Of("Push") \cup Of("Remove")
                    /\ \A c \in Client : mTimer[c] # d
  BY DEF NoDangling
<1>1. d \notin heap
  BY DEF Books, MsgInv, Live
<1>2. DOMAIN msgs = 1..Len(msgs)
  BY LenProperties DEF Types, QueueType
<1>3. d \notin Of("Push")
  BY <1>2 DEF Of, Books, MsgInv, IsPush, Live
<1>4. d \notin Of("Remove")
  BY <1>2 DEF Of, Books, MsgInv, IsRemove
<1>5. \A c \in Client : mTimer[c] # d
  <2>1. d # None
    BY TimerAssumption DEF Timer, None
  <2> QED BY <2>1 DEF Books, LifeInv
<1> QED BY <1>1, <1>3, <1>4, <1>5

\* The variables keep their types, and a delegate is deleted only after its
\* last use: at its deletion by MsgTimerRemove it is out of the heap, its push
\* is behind and no client has it.
THEOREM TimersSafe == ASSUME TicksPerSecond <= MaxTime PROVE Spec => []TimersSound
<1>1. IInv => TimersSound
  <2> SUFFICES ASSUME IInv PROVE TypeOK /\ NoDangling
    BY DEF TimersSound
  <2>1. task.at \in {"idle", "stopping", "calling", "next"}
    BY DEF IInv, Types, ThreadType, Idle, Handling
  <2>2. TypeOK
    BY <2>1 DEF IInv, Types, ClientType, DelegateType, QueueType, ThreadType, TopInv, TypeOK
  <2>3. NoDangling
    BY BooksDangle DEF IInv
  <2> QED BY <2>2, <2>3
<1> QED BY <1>1, Invariant, PTL

\* The reference count of a LocSharedLock is the number of its users: the
\* LocTimer while it is there and every delegate made for it that is not yet
\* deleted.
THEOREM LockSafe == ASSUME TicksPerSecond <= MaxTime PROVE Spec => []LockShared
<1>1. IInv => LockShared
  BY DEF IInv
<1> QED BY <1>1, Invariant, PTL

\* The timerfd waits for the soonest timer whenever no expiry is on its way,
\* however the poll thread's disarming falls between the arming of the MsgTask
\* thread.
THEOREM ArmedSafe == ASSUME TicksPerSecond <= MaxTime PROVE Spec => []SoonestArmed
<1>1. IInv => SoonestArmed
  BY DEF IInv
<1> QED BY <1>1, Invariant, PTL
=============================================================================
