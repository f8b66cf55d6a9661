----------------------------- MODULE MsgQProofs -----------------------------
(***************************************************************************)
(* No wakeup of the message queue is lost, whatever the set of receivers,  *)
(* the messages and the length the queue may grow to.                      *)
(***************************************************************************)
EXTENDS MsgQ, Integers, SequenceTheorems, FiniteSetTheorems, TLAPS

\* Only finitely many threads have ever entered msg_q_rcv, so those that were
\* woken can be counted without any assumption on the set of receivers.
Inside == {r \in Receiver : receiver[r] # "out"}

IInv == TypeOK /\ IsFiniteSet(Inside) /\ NoLostWakeup

LEMMA WokenFinite ==
  ASSUME IInv
  PROVE  IsFiniteSet(Woken) /\ Cardinality(Woken) \in Nat
<1>1. Woken \in SUBSET Inside
  BY DEF Woken, Inside
<1> QED BY <1>1, FS_Subset, FS_CardinalityType DEF IInv

\* Nobody but r enters.
LEMMA InsideFinite ==
  ASSUME IInv, NEW r \in Receiver, NEW place,
         receiver' = [receiver EXCEPT ![r] = place]
  PROVE  IsFiniteSet(Inside')
<1>1. IsFiniteSet(Inside \cup {r})
  BY FS_AddElement DEF IInv
<1>2. Inside' \in SUBSET (Inside \cup {r})
  BY DEF Inside, IInv, TypeOK
<1> QED BY <1>1, <1>2, FS_Subset

\* One more thread is awake.
LEMMA WakeCounts ==
  ASSUME IInv, NEW r \in Waiting, receiver' = [receiver EXCEPT ![r] = "woken"]
  PROVE  /\ Cardinality(Woken') = Cardinality(Woken) + 1
         /\ Waiting' \subseteq Waiting
<1>1. Woken' = Woken \cup {r} /\ r \notin Woken
  BY DEF Woken, Waiting, IInv, TypeOK
<1>2. Waiting' \subseteq Waiting
  BY DEF Waiting, IInv, TypeOK
<1> QED BY <1>1, <1>2, WokenFinite, FS_AddElement

LEMMA InitInv == Init => IInv
<1> SUFFICES ASSUME Init PROVE IInv
  OBVIOUS
<1>1. TypeOK
  BY EmptySeq DEF Init, TypeOK
<1>2. Inside = {} /\ Waiting = {}
  BY DEF Init, Inside, Waiting
<1> QED BY <1>1, <1>2, FS_EmptySet DEF IInv, NoLostWakeup

LEMMA SndKeeps ==
  ASSUME IInv, NEW m \in Message, Snd(m)
  PROVE  IInv'
<1>1. Len(msgs') = Len(msgs) + 1 /\ msgs' \in Seq(Message)
  BY DEF Snd, IInv, TypeOK
<1>2. CASE Waiting = {} /\ UNCHANGED receiver
  <2>1. TypeOK'
    BY <1>1, <1>2 DEF Snd, IInv, TypeOK
  <2>2. IsFiniteSet(Inside') /\ Waiting' = {}
    BY <1>2 DEF IInv, Inside, Waiting
  <2> QED BY <2>1, <2>2 DEF IInv, NoLostWakeup
<1>3. CASE \E r \in Waiting : receiver' = [receiver EXCEPT ![r] = "woken"]
  <2>1. PICK r \in Waiting : receiver' = [receiver EXCEPT ![r] = "woken"]
    BY <1>3
  <2>2. r \in Receiver
    BY DEF Waiting
  <2>3. TypeOK'
    BY <1>1, <2>1, <2>2 DEF Snd, IInv, TypeOK
  <2>4. IsFiniteSet(Inside')
    BY <2>1, <2>2, InsideFinite
  <2>5. Cardinality(Woken) >= Len(msgs)
    BY <2>1 DEF IInv, NoLostWakeup, Snd
  <2>6. Cardinality(Woken') = Cardinality(Woken) + 1
    BY <2>1, WakeCounts
  <2>7. Cardinality(Woken) \in Nat /\ Len(msgs) \in Nat
    BY WokenFinite DEF IInv, TypeOK
  <2>8. Cardinality(Woken') >= Len(msgs')
    BY <1>1, <2>5, <2>6, <2>7
  <2> QED BY <2>3, <2>4, <2>8 DEF IInv, NoLostWakeup
<1> QED BY <1>2, <1>3 DEF Snd, Signal

\* A receiver that leaves takes a message with it, or finds the queue empty
\* or unblocked; one that goes to sleep has found it empty.
LEMMA LoopKeeps ==
  ASSUME IInv, NEW r \in Receiver, receiver[r] \in {"out", "woken"},
         WaitOrRemove(r), UNCHANGED unblocked
  PROVE  IInv'
<1>1. CASE msgs = << >> /\ ~unblocked
  <2>1. receiver' = [receiver EXCEPT ![r] = "waiting"] /\ UNCHANGED <<msgs, got>>
    BY <1>1 DEF WaitOrRemove
  <2>2. TypeOK' /\ Len(msgs') = 0
    BY <1>1, <2>1 DEF IInv, TypeOK
  <2>3. IsFiniteSet(Inside')
    BY <2>1, InsideFinite
  <2>4. Cardinality(Woken') \in Nat
    <3>1. Woken' \in SUBSET Inside'
      BY DEF Woken, Inside
    <3> QED BY <3>1, <2>3, FS_Subset, FS_CardinalityType
  <2> QED BY <2>2, <2>3, <2>4 DEF IInv, NoLostWakeup
<1>2. CASE msgs = << >> /\ unblocked
  <2>1. /\ receiver' = [receiver EXCEPT ![r] = "out"]
        /\ got' = [got EXCEPT ![r] = NoMessage] /\ msgs' = msgs
    BY <1>2 DEF WaitOrRemove, Remove, Return
  <2>2. TypeOK'
    BY <2>1 DEF IInv, TypeOK
  <2> QED BY <1>2, <2>1, <2>2, InsideFinite DEF IInv, NoLostWakeup
<1>3. CASE msgs # << >>
  <2>1. /\ receiver' = [receiver EXCEPT ![r] = "out"]
        /\ got' = [got EXCEPT ![r] = Head(msgs)] /\ msgs' = Tail(msgs)
    BY <1>3 DEF WaitOrRemove, Remove, Return
  <2>2. /\ Head(msgs) \in Message /\ Tail(msgs) \in Seq(Message)
        /\ Len(Tail(msgs)) = Len(msgs) - 1 /\ Len(msgs) \in Nat
    BY <1>3 DEF IInv, TypeOK
  <2>3. TypeOK'
    BY <2>1, <2>2 DEF IInv, TypeOK
  <2>4. Woken' = Woken \ {r} /\ Waiting' = Waiting
    BY <2>1 DEF Woken, Waiting, IInv, TypeOK
  <2>5. /\ Cardinality(Woken) \in Nat
        /\ Cardinality(Woken') = Cardinality(Woken) \/ Cardinality(Woken') = Cardinality(Woken) - 1
    <3>1. IsFiniteSet(Woken) /\ Cardinality(Woken) \in Nat
      BY WokenFinite
    <3> QED BY <2>4, <3>1, FS_RemoveElement
  <2>6. Cardinality(Woken') \in Nat
    BY <2>4, WokenFinite, FS_RemoveElement, FS_CardinalityType
  <2>7. NoLostWakeup'
    BY <2>1, <2>2, <2>4, <2>5, <2>6 DEF IInv, NoLostWakeup
  <2> QED BY <2>1, <2>3, <2>7, InsideFinite DEF IInv
<1> QED BY <1>1, <1>2, <1>3

LEMMA RcvKeeps ==
  ASSUME IInv, NEW r \in Receiver, Rcv(r)
  PROVE  IInv'
<1>1. CASE unblocked
  <2>1. /\ receiver' = [receiver EXCEPT ![r] = "out"] /\ unblocked'
        /\ got' = [got EXCEPT ![r] = NoMessage] /\ msgs' = msgs
    BY <1>1 DEF Rcv, Return
  <2>2. TypeOK'
    BY <2>1, <1>1 DEF Rcv, IInv, TypeOK
  <2> QED BY <2>1, <2>2, InsideFinite DEF IInv, NoLostWakeup
<1>2. CASE ~unblocked
  BY <1>2, LoopKeeps DEF Rcv
<1> QED BY <1>1, <1>2

LEMMA SpuriousKeeps ==
  ASSUME IInv, NEW r \in Receiver, SpuriousWakeup(r)
  PROVE  IInv'
<1>1. r \in Waiting /\ receiver' = [receiver EXCEPT ![r] = "woken"]
  BY DEF SpuriousWakeup, Waiting
<1>2. TypeOK'
  BY <1>1 DEF SpuriousWakeup, IInv, TypeOK
<1>3. Len(msgs) \in Nat
  BY DEF IInv, TypeOK
<1>4. Cardinality(Woken') = Cardinality(Woken) + 1 /\ Cardinality(Woken) \in Nat
  BY <1>1, WakeCounts, WokenFinite
<1>5. ~unblocked => Cardinality(Woken) >= Len(msgs)
  BY <1>1 DEF IInv, NoLostWakeup
<1>6. NoLostWakeup'
  BY <1>3, <1>4, <1>5 DEF SpuriousWakeup, NoLostWakeup
<1> QED BY <1>1, <1>2, <1>6, InsideFinite DEF IInv

LEMMA FlushKeeps ==
  ASSUME IInv, Flush
  PROVE  IInv'
<1>1. TypeOK' /\ Len(msgs') = 0
  BY DEF Flush, IInv, TypeOK
<1>2. Inside' = Inside /\ Woken' = Woken
  BY DEF Flush, Inside, Woken
<1> QED BY <1>1, <1>2, WokenFinite DEF IInv, NoLostWakeup

LEMMA UnblockKeeps ==
  ASSUME IInv, Unblock
  PROVE  IInv'
<1>1. TypeOK' /\ unblocked'
  BY DEF Unblock, Broadcast, IInv, TypeOK
<1>2. Inside' = Inside
  BY DEF Unblock, Broadcast, Inside, IInv, TypeOK
<1> QED BY <1>1, <1>2 DEF IInv, NoLostWakeup

\* What the receivers do with the messages once they have them is nothing to
\* the queue.
LEMMA OutsideKeeps ==
  ASSUME IInv, UNCHANGED <<msgs, unblocked, receiver>>,
         got' \in [Receiver -> Message \cup {NoMessage}]
  PROVE  IInv'
<1>1. TypeOK' /\ Inside' = Inside /\ Woken' = Woken /\ Waiting' = Waiting
  BY DEF IInv, TypeOK, Inside, Woken, Waiting
<1> QED BY <1>1 DEF IInv, NoLostWakeup

LEMMA StepKeeps == IInv /\ [Next]_vars => IInv'
<1> SUFFICES ASSUME IInv, [Next]_vars PROVE IInv'
  OBVIOUS
<1>1. CASE Next
  <2>1. ASSUME NEW r \in Receiver, Resume(r) PROVE IInv'
    BY <2>1, LoopKeeps DEF Resume
  <2> QED
    BY <1>1, <2>1, SndKeeps, RcvKeeps, SpuriousKeeps, FlushKeeps, UnblockKeeps DEF Next
<1>2. CASE UNCHANGED vars
  BY <1>2, OutsideKeeps DEF vars, IInv, TypeOK
<1> QED BY <1>1, <1>2

\* While somebody sleeps in msg_q_rcv there is a thread awake for every
\* message of the queue, for any number of senders and receivers, with
\* signals, spurious wakeups, flushes and unblocking in any order.
THEOREM WakeupsKept == Spec => []NoLostWakeup
<1>1. IInv => NoLostWakeup
  BY DEF IInv
<1> QED BY InitInv, StepKeeps, <1>1, PTL DEF Spec
=============================================================================
