----------------------------- MODULE LinkedList -----------------------------
(***************************************************************************)
(* utils/linked_list.c: the doubly linked list under every message queue.  *)
(* Elements are added at the head and taken from the tail; a search walks  *)
(* from the head and may unlink what it finds.  Memory is modelled by its  *)
(* addresses (0 is NULL), so that a lost link or a leaked element shows.   *)
(***************************************************************************)
EXTENDS Naturals, Sequences, FiniteSets

CONSTANTS Data,        \* the objects the callers put into the list
          MaxElems     \* bound: list elements allocated at once

ASSUME ListAssumption == MaxElems \in Nat

VARIABLES
  list,    \* list_state: p_head and p_tail, or {} while no list is initialised
  elems,   \* the allocated list_elements by address
  held,    \* ghost: what the list holds, the newest first
  freed,   \* ghost: how often dealloc_func has freed each object
  gave     \* ghost: the object the last call returned, {} for none, and whether it should have

listVars == <<list, elems, held, freed, gave>>

Nil     == 0
Address == 1..MaxElems
Pointer == Address \cup {Nil}
None    == {}

ListTypeOK ==
  /\ list \in {None} \cup {{l} : l \in [head : Pointer, tail : Pointer]}
  /\ DOMAIN elems \subseteq Address
  /\ \A a \in DOMAIN elems :
       elems[a] \in [next : Pointer, prev : Pointer, data : Data, dealloc : BOOLEAN]
  /\ freed \in [Data -> 0..2]
  /\ gave.got \subseteq Data /\ gave.due \subseteq Data

ListInit ==
  /\ list = None /\ elems = <<>> /\ held = <<>>
  /\ freed = [d \in Data |-> 0]
  /\ gave = [got |-> {}, due |-> {}]

The(s)  == CHOOSE x \in s : TRUE
p_head  == The(list).head
p_tail  == The(list).tail
Silent  == [got |-> {}, due |-> {}]
EntriesOf(s) == {s[i] : i \in DOMAIN s}
InList  == {held[i].data : i \in DOMAIN held}

\* The sequence without its element at k.
CutAt(s, k) == [i \in 1..(Len(s) - 1) |-> IF i < k THEN s[i] ELSE s[i + 1]]

\* dealloc_func has been called on the objects of ds.
Dealloc(ds) == [d \in Data |-> freed[d] + (IF d \in ds THEN 1 ELSE 0)]

linked_list_init ==
  /\ list = None
  /\ list' = {[head |-> Nil, tail |-> Nil]}
  /\ gave' = Silent
  /\ UNCHANGED <<elems, held, freed>>

\* calloc gives any free address; the least one stands for them all.
FreeAddress == CHOOSE a \in Address \ DOMAIN elems :
                 \A b \in Address \ DOMAIN elems : a <= b

linked_list_add(d, dealloc) ==
  /\ list # None /\ Address # DOMAIN elems
  /\ LET e == FreeAddress
         old == p_head
         new == [next |-> old, prev |-> Nil, data |-> d, dealloc |-> dealloc]
     IN /\ list' = {[head |-> e, tail |-> IF old = Nil THEN e ELSE p_tail]}
        /\ elems' = [a \in DOMAIN elems \cup {e} |->
                       IF a = e THEN new
                       ELSE IF a = old THEN [elems[a] EXCEPT !.prev = e] ELSE elems[a]]
  /\ held' = <<[data |-> d, dealloc |-> dealloc]>> \o held
  /\ gave' = Silent
  /\ UNCHANGED freed

linked_list_remove ==
  /\ list # None /\ p_tail # Nil
  /\ LET tmp == p_tail
         tail == elems[tmp].prev
     IN /\ list' = {[head |-> IF tail = Nil THEN Nil ELSE p_head, tail |-> tail]}
        /\ elems' = [a \in DOMAIN elems \ {tmp} |->
                       IF a = tail THEN [elems[a] EXCEPT !.next = Nil] ELSE elems[a]]
        /\ gave' = [got |-> {elems[tmp].data}, due |-> {held[Len(held)].data}]
  /\ held' = CutAt(held, Len(held))
  /\ UNCHANGED freed

\* The elements met from a on, along next.  At most MaxElems: a cycle ends too.
Walk(a) ==
  LET at[n \in 1..MaxElems] ==
        IF n = 1 THEN a ELSE IF at[n - 1] \in DOMAIN elems THEN elems[at[n - 1]].next ELSE Nil
  IN [i \in 1..Cardinality({n \in 1..MaxElems : at[n] \in DOMAIN elems}) |-> at[i]]

linked_list_flush ==
  /\ list # None
  /\ freed' = Dealloc({elems[a].data : a \in {x \in EntriesOf(Walk(p_head)) : elems[x].dealloc}})
  /\ elems' = [a \in DOMAIN elems \ EntriesOf(Walk(p_head)) |-> elems[a]]
  /\ list' = {[head |-> Nil, tail |-> Nil]}
  /\ held' = <<>>
  /\ gave' = Silent

\* It flushes the list, frees it and clears the caller's handle.
linked_list_destroy ==
  /\ list # None
  /\ freed' = Dealloc({elems[a].data : a \in {x \in EntriesOf(Walk(p_head)) : elems[x].dealloc}})
  /\ elems' = [a \in DOMAIN elems \ EntriesOf(Walk(p_head)) |-> elems[a]]
  /\ list' = None
  /\ held' = <<>>
  /\ gave' = Silent

\* Mutant: p_tail is left at an element that is unlinked.
UnlinkKeepsTail(tmp) ==
  LET e == elems[tmp]
  IN /\ list' = {[head |-> IF e.prev = Nil THEN e.next ELSE p_head, tail |-> p_tail]}
     /\ elems' = [a \in DOMAIN elems \ {tmp} |->
                    IF a = e.prev THEN [elems[a] EXCEPT !.next = e.next]
                    ELSE IF a = e.next THEN [elems[a] EXCEPT !.prev = e.prev]
                    ELSE elems[a]]

\* Element tmp leaves the chain: its neighbours, or the list's ends, close up.
Unlink(tmp) ==
  LET e == elems[tmp]
  IN /\ list' = {[head |-> IF e.prev = Nil THEN e.next ELSE p_head,
                  tail |-> IF e.next = Nil THEN e.prev ELSE p_tail]}
     /\ elems' = [a \in DOMAIN elems \ {tmp} |->
                    IF a = e.prev THEN [elems[a] EXCEPT !.next = e.next]
                    ELSE IF a = e.next THEN [elems[a] EXCEPT !.prev = e.prev]
                    ELSE elems[a]]

\* equal() accepts the objects of match; wanted says whether data_p is given.
linked_list_search(match, wanted, rm_if_found) ==
  /\ list # None /\ p_tail # Nil
  /\ LET w     == Walk(p_head)
         hits  == {i \in DOMAIN w : elems[w[i]].data \in match}
         first == CHOOSE i \in hits : \A j \in hits : i <= j
         due   == {i \in DOMAIN held : held[i].data \in match}
         same  == CHOOSE i \in due : \A j \in due : i <= j
     IN /\ gave' = [got |-> IF wanted /\ hits # {} THEN {elems[w[first]].data} ELSE {},
                    due |-> IF wanted /\ due # {} THEN {held[same].data} ELSE {}]
        /\ IF hits # {} /\ rm_if_found
           THEN /\ Unlink(w[first])
                /\ held' = IF due = {} THEN held ELSE CutAt(held, same)
                /\ freed' = Dealloc(IF ~wanted /\ elems[w[first]].dealloc
                                    THEN {elems[w[first]].data} ELSE {})
           ELSE UNCHANGED <<list, elems, held, freed>>

\* A caller adds an object it owns: one not in the list and not freed.
ListNext ==
  \/ linked_list_init
  \/ \E d \in Data, dealloc \in BOOLEAN :
       freed[d] = 0 /\ d \notin InList /\ linked_list_add(d, dealloc)
  \/ linked_list_remove
  \/ linked_list_flush
  \/ linked_list_destroy
  \/ \E match \in SUBSET Data \ {{}}, wanted, rm \in BOOLEAN : linked_list_search(match, wanted, rm)

ListSpec == ListInit /\ [][ListNext]_listVars

-----------------------------------------------------------------------------
(* The chain of elements is the list the callers built: along next from    *)
(* the head, and along prev from the tail, it holds exactly what was put   *)
(* in and not taken out, and no element is leaked or left dangling.        *)
ChainWhole ==
  LET w == IF list = None THEN <<>> ELSE Walk(p_head)
  IN /\ [i \in DOMAIN w |-> [data |-> elems[w[i]].data, dealloc |-> elems[w[i]].dealloc]] = held
     /\ EntriesOf(w) = DOMAIN elems
     /\ \A i \in DOMAIN w : elems[w[i]].prev = IF i = 1 THEN Nil ELSE w[i - 1]
     /\ list # None => p_tail = IF w = <<>> THEN Nil ELSE w[Len(w)]

(* Every call hands out the object it should: remove the oldest one,       *)
(* search the newest that matches; and an object is freed at most once,    *)
(* never while the list holds it.                                          *)
ObjectsOwned ==
  /\ gave.got = gave.due
  /\ \A d \in Data : freed[d] <= (IF d \in InList THEN 0 ELSE 1)

ListKept == ChainWhole /\ ObjectsOwned
=============================================================================
