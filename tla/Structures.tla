----------------------------- MODULE Structures -----------------------------
(***************************************************************************)
(* The two containers of utils in one process: the list a message queue is *)
(* built on and the heap that orders the timers.  Each is called under its *)
(* owner's lock, so a call is one step and the two owners' calls mix.      *)
(***************************************************************************)
EXTENDS LinkedList, LocHeap

StructuresInit == ListInit /\ HeapInit

StructuresNext == \/ ListNext /\ UNCHANGED heapVars
                  \/ HeapNext /\ UNCHANGED listVars

StructuresSpec == StructuresInit /\ [][StructuresNext]_<<listVars, heapVars>>

(* The containers hold what was put in and not taken out and give back     *)
(* what they should: the chain of the list and the objects it owns, the    *)
(* order and the counts of the heap (linked_list.c, LocHeap.cpp).          *)
StructuresKept == ListKept /\ HeapKept
=============================================================================
