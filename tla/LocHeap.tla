------------------------------ MODULE LocHeap -------------------------------
(***************************************************************************)
(* utils/LocHeap.cpp: the heap of the pending timers.  A node keeps its    *)
(* data and the size of its subtree; push drops the lower ranking data     *)
(* into the smaller subtree, pop pulls the higher ranking child up to the  *)
(* leaf, and remove searches the subtrees that may hold the data.  A node  *)
(* is its place: the pointers mLeft and mRight that lead to it from mTree. *)
(* The code descends by recursion; here a level is a step of a function.   *)
(***************************************************************************)
EXTENDS Integers, Sequences, FiniteSets

CONSTANTS Item,        \* the LocRankables
          Rank         \* their ranks: Rank[i] < Rank[j] when i outranks j

ASSUME HeapAssumption == Rank \in [Item -> Int]

VARIABLES
  mTree,   \* the nodes by place: their data and mSize
  pushed,  \* ghost: what is in the heap
  popped   \* ghost: what the last call returned, and the answers that are right

heapVars == <<mTree, pushed, popped>>

\* ranks() is positive when the first of the two is more urgent.
outRanks(x, y) == Rank[x] < Rank[y]

Top      == <<>>
Left(n)  == Append(n, "mLeft")
Right(n) == Append(n, "mRight")
Kids(t, n) == {Left(n), Right(n)} \cap DOMAIN t
SizeOf(t, n) == IF n \in DOMAIN t THEN t[n].mSize ELSE 0

\* The nodes on the way from the top to n.
Above(n) == {SubSeq(n, 1, k) : k \in 0..(Len(n) - 1)}

HeapTypeOK ==
  /\ \A n \in DOMAIN mTree : n \in Seq({"mLeft", "mRight"}) /\ mTree[n].data \in Item /\ mTree[n].mSize \in Int
  /\ pushed \subseteq Item
  /\ popped.got \subseteq Item /\ popped.due \subseteq Item

HeapInit == mTree = <<>> /\ pushed = {} /\ popped = [got |-> {}, due |-> {}]

\* The subtree of n that takes what is pushed: one that is missing, or the smaller.
Taker(t, n) ==
  IF Left(n) \notin DOMAIN t \/ (Right(n) \in DOMAIN t /\ SizeOf(t, Left(n)) <= SizeOf(t, Right(n)))
  THEN Left(n) ELSE Right(n)

\* LocHeapNode::push at one node: the lower ranking data goes on, until it has
\* come to a place without a node.
PushLevel(s) ==
  IF s.at \notin DOMAIN s.tree THEN s
  ELSE LET here == s.tree[s.at]
           swap == outRanks(s.data, here.data)
       IN [tree |-> [s.tree EXCEPT ![s.at] = [data |-> IF swap THEN s.data ELSE here.data,
                                              mSize |-> here.mSize + 1]],
           at   |-> Taker(s.tree, s.at),
           data |-> IF swap THEN here.data ELSE s.data]

\* The tree with x: no way down is longer than the tree has nodes.
Pushed(t, x) ==
  LET s[k \in 0..Cardinality(DOMAIN t)] ==
        IF k = 0 THEN [tree |-> t, at |-> Top, data |-> x] ELSE PushLevel(s[k - 1])
      end == s[Cardinality(DOMAIN t)]
  IN [n \in DOMAIN t \cup {end.at} |->
        IF n = end.at THEN [data |-> end.data, mSize |-> 1] ELSE end.tree[n]]

\* The child whose data takes its parent's place.
SubTop(t, n) ==
  IF Kids(t, n) # {Left(n), Right(n)} THEN CHOOSE k \in Kids(t, n) : TRUE
  ELSE IF outRanks(t[Left(n)].data, t[Right(n)].data) THEN Left(n) ELSE Right(n)

\* LocHeapNode::pop at one node: it loses its data to the child's, and the child
\* is next, until a leaf is reached.
PopLevel(s) ==
  IF Kids(s.tree, s.at) = {} THEN s
  ELSE LET sub == SubTop(s.tree, s.at)
       IN [tree |-> [s.tree EXCEPT ![s.at] = [data |-> s.tree[sub].data, mSize |-> @.mSize - 1]],
           at   |-> sub]

\* The tree without the data of n: the leaf at the end of the way is detached.
Popped(t, n) ==
  LET s[k \in 0..Cardinality(DOMAIN t)] ==
        IF k = 0 THEN [tree |-> t, at |-> n] ELSE PopLevel(s[k - 1])
      end == s[Cardinality(DOMAIN t)]
  IN [m \in DOMAIN t \ {end.at} |-> end.tree[m]]

\* The node with x that LocHeapNode::remove comes to: it does not look below a
\* node that x outranks.  No data is in two nodes.
Met(t, x) == {n \in DOMAIN t : t[n].data = x /\ \A a \in Above(n) : ~outRanks(x, t[a].data)}

\* The tree without x: every node on the way has one less below it.
Removed(t, x) ==
  LET n == CHOOSE m \in Met(t, x) : TRUE
  IN IF Met(t, x) = {} THEN t
     ELSE Popped([m \in DOMAIN t |-> IF m \in Above(n) THEN [t[m] EXCEPT !.mSize = @ - 1] ELSE t[m]], n)

push(x) ==
  /\ mTree' = Pushed(mTree, x)
  /\ pushed' = pushed \cup {x}
  /\ popped' = [got |-> {}, due |-> {}]

\* The most urgent of a set; several of the same rank are equally right.
MostUrgent(s) == {x \in s : \A y \in s : ~outRanks(y, x)}

pop ==
  /\ mTree # <<>>
  /\ mTree' = Popped(mTree, Top)
  /\ popped' = [got |-> {mTree[Top].data}, due |-> MostUrgent(pushed)]
  /\ pushed' = pushed \ {mTree[Top].data}

\* x may be in the heap or not: a timer that is stopped may have gone off.
remove(x) ==
  /\ mTree # <<>>
  /\ mTree' = Removed(mTree, x)
  /\ popped' = [got |-> {mTree[n].data : n \in Met(mTree, x)}, due |-> {x} \cap pushed]
  /\ pushed' = pushed \ {x}

HeapNext == \/ \E x \in Item \ pushed : push(x)
            \/ pop
            \/ \E x \in Item : remove(x)

HeapSpec == HeapInit /\ [][HeapNext]_heapVars

-----------------------------------------------------------------------------
(* checkNodes holds after every call: no child outranks its parent and     *)
(* each node counts its subtree.  The heap holds each pushed item once, no *)
(* subtree outgrows what its node says, pop returns one of the most urgent *)
(* items, and remove finds an item exactly when it is there, though it     *)
(* skips the subtrees the item would outrank.                              *)
HeapKept ==
  /\ \A n \in DOMAIN mTree : \A k \in Kids(mTree, n) : ~outRanks(mTree[k].data, mTree[n].data)
  /\ \A n \in DOMAIN mTree :
       mTree[n].mSize = 1 + SizeOf(mTree, Left(n)) + SizeOf(mTree, Right(n))
  /\ {mTree[n].data : n \in DOMAIN mTree} = pushed
  /\ Cardinality(DOMAIN mTree) = Cardinality(pushed)
  /\ popped.got \subseteq popped.due /\ (popped.got = {} <=> popped.due = {})
=============================================================================
