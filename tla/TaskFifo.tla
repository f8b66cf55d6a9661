------------------------------ MODULE TaskFifo ------------------------------
(***************************************************************************)
(* What a MsgTask promises those who send it messages: they are handled    *)
(* one at a time, in the order they were sent, each at most once, and none *)
(* is accepted or waited for any more once the task has been closed.       *)
(***************************************************************************)
EXTENDS Sequences

CONSTANTS Message, NoMessage

VARIABLES pending,   \* accepted and not yet begun
          current,   \* the one being handled
          closed

Init == pending = << >> /\ current = NoMessage /\ closed = FALSE

Post(m) ==
  /\ ~closed
  /\ pending' = Append(pending, m)
  /\ UNCHANGED <<current, closed>>

Begin ==
  /\ current = NoMessage /\ pending # << >>
  /\ current' = Head(pending) /\ pending' = Tail(pending)
  /\ UNCHANGED closed

End == current # NoMessage /\ current' = NoMessage /\ UNCHANGED <<pending, closed>>

Close == ~closed /\ closed' = TRUE /\ UNCHANGED <<pending, current>>

\* What was left when the task was closed is thrown away together.
Drop ==
  /\ closed /\ current = NoMessage
  /\ pending' = << >>
  /\ UNCHANGED <<current, closed>>

Next == (\E m \in Message : Post(m)) \/ Begin \/ End \/ Close \/ Drop

Spec == Init /\ [][Next]_<<pending, current, closed>>
=============================================================================
