------------------------------ MODULE NifLease ------------------------------
(***************************************************************************)
(* What an AGPS machine promises its clients, without states, lists,       *)
(* queues or a connectivity service: one interface is leased to all of     *)
(* them together.  Those who wait get it at the same moment, those who use *)
(* it lose it at the same moment, nobody waits for an interface that is    *)
(* held, and it is given back when the last user leaves.  A leave may end  *)
(* others too: the code tells the leaver through a freed list element.     *)
(***************************************************************************)
CONSTANT ID
VARIABLES client,   \* [ID -> idle, asked, open or closing]
          held      \* the machine has the interface

AllIdle == [i \in ID |-> "idle"]

Init == client = AllIdle /\ held = FALSE

Request(i) ==
  /\ client[i] = "idle"
  /\ client' = [client EXCEPT ![i] = IF held THEN "open" ELSE "asked"]
  /\ UNCHANGED held

Grant ==
  /\ ~held /\ held' = TRUE
  /\ client' = [i \in ID |-> IF client[i] = "asked" THEN "open" ELSE client[i]]

\* Refused, lost, or the close has completed: for everybody at once.
End == held' = FALSE /\ client' = AllIdle

\* The clients in `also' are told that they have left.
Leave(i, also) ==
  /\ client[i] \in {"asked", "open"} /\ i \notin also
  /\ \A j \in also : client[j] \in {"asked", "open"}
  /\ \E next \in {"idle", "closing"} :
       client' = [j \in ID |-> IF j \in also THEN "idle"
                               ELSE IF j = i THEN next ELSE client[j]]
  /\ held' = (held /\ \E j \in ID : client'[j] = "open")

\* The clients restart; the interface stays as it is.
Restart == client' = AllIdle /\ UNCHANGED held

Next == Grant \/ End \/ Restart \/ \E i \in ID : Request(i) \/ \E also \in SUBSET ID : Leave(i, also)

Spec == Init /\ [][Next]_<<client, held>>
=============================================================================
