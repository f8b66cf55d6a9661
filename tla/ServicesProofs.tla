---------------------------- MODULE ServicesProofs ----------------------------
(***************************************************************************)
(* The services around the engine.  Contexts: however many threads ask for *)
(* them, and however often, there is one task, each context is built once, *)
(* features are injected once and first.  The emergency data call: however *)
(* requests, retries, closes and reports mix, machine and call agree.  The *)
(* daemons' server: what they write, however badly, valid requests arrive. *)
(* LocApi: every event wanted is registered or will be, and each adapter   *)
(* in front of the holes hears of each event once.  The HAL: the settings  *)
(* that are not behind reach an engine that may crash, and what it can do  *)
(* is told.  The ULP proxy: one is installed and knows the session wanted, *)
(* however often it is replaced.                                           *)
(***************************************************************************)
EXTENDS LocContext, DmnConn, DsNif, LocApi, Hal, Ulp, FiniteSetTheorems, FunctionTheorems, TLAPS

-----------------------------------------------------------------------------
(* Contexts.                                                               *)

\* Where a thread may be between its question and its first message.
Inside   == {"locked", "building", "built"}
CallerAt == {"idle", "asking", "unlocked"} \cup Inside
Exists   == {k \in Kind : context[k] # NoContext}

\* A context that was built.
Made == [task : {1}, api : {"lbs", "v02", "rpc", "dummy"}, exMask : {"mFgExclMask", "mBgExclMask"}]

ThreadType ==
  /\ caller \in [Caller -> [at : CallerAt, want : Kind \cup {"none"}]]
  /\ \A c \in Caller : caller[c].at # "idle" => caller[c].want \in Kind

\* The one thread between lock and unlock is the holder of the mutex.
Excluded ==
  /\ mutex \in Caller \cup {Nobody}
  /\ \A c \in Caller : caller[c].at \in Inside <=> mutex = c

\* What a thread has seen under the mutex is still so: the context it builds
\* is missing, the one it has found or built is there, and injection is done
\* when it lets go.
SeenIsSo ==
  \A c \in Caller :
    /\ caller[c].at = "building" => caller[c].want \notin Exists
    /\ caller[c].at \in {"built", "unlocked"} => caller[c].want \in Exists
    /\ caller[c].at = "unlocked" => mInjectContext # "none"

\* Contexts stand on the one task, and the ghosts count what was built.
Counted ==
  /\ platform \in Platform
  /\ mMsgTask \in 0..1 /\ made.tasks = mMsgTask
  /\ context \in [Kind -> {NoContext} \cup Made]
  /\ mMsgTask = 0 => Exists = {}
  /\ made = [tasks |-> made.tasks, contexts |-> made.contexts]
  /\ made.contexts = Cardinality(Exists)

\* One injection, before any message; messages name the task.
InjectedFirst ==
  /\ mInjectContext \in Kind \cup {"none"}
  /\ injected \in Seq(Kind)
  /\ Len(injected) = IF mInjectContext = "none" THEN 0 ELSE 1
  /\ sent # {} => mInjectContext # "none"
  /\ \A s \in sent : s[3] = 1 /\ mMsgTask = 1

IInv == ThreadType /\ Excluded /\ SeenIsSo /\ Counted /\ InjectedFirst

-----------------------------------------------------------------------------
LEMMA NothingBuilt == ASSUME Init PROVE Exists = {}
  BY DEF Init, Exists

LEMMA InitHolds == ASSUME Nobody \notin Caller PROVE Init => IInv
<1> SUFFICES ASSUME Init PROVE IInv
  OBVIOUS
<1>1. ThreadType /\ Excluded /\ SeenIsSo
  BY DEF Init, ThreadType, Excluded, SeenIsSo, Working, CallerAt, Inside, Nobody
<1>2. Cardinality(Exists) = 0
  BY NothingBuilt, FS_EmptySet
<1>3. Counted
  BY <1>2, NothingBuilt DEF Init, Counted, Kind
<1>4. InjectedFirst
  BY DEF Init, InjectedFirst
<1> QED BY <1>1, <1>3, <1>4 DEF IInv

\* What a thread does alone: others keep their place, and so what they saw.
LEMMA AskKeeps ==
  ASSUME IInv, NEW c \in Caller, NEW k \in Kind, Ask(c, k)
  PROVE  IInv'
<1>1. ThreadType' /\ Excluded' /\ SeenIsSo'
  BY DEF IInv, ThreadType, Excluded, SeenIsSo, Ask, CallerAt, Inside, Exists
<1>2. Counted' /\ InjectedFirst'
  BY DEF IInv, Counted, InjectedFirst, Ask, Exists
<1> QED BY <1>1, <1>2 DEF IInv

LEMMA LockKeeps ==
  ASSUME Nobody \notin Caller, IInv, NEW c \in Caller, Lock(c)
  PROVE  IInv'
<1>1. ThreadType' /\ Excluded' /\ SeenIsSo'
  BY DEF IInv, ThreadType, Excluded, SeenIsSo, Lock, Step, MayEnter, CallerAt, Inside, Exists
<1>2. Counted' /\ InjectedFirst'
  BY DEF IInv, Counted, InjectedFirst, Lock, Exists
<1> QED BY <1>1, <1>2 DEF IInv

LEMMA FindKeeps ==
  ASSUME IInv, NEW c \in Caller, FindContext(c)
  PROVE  IInv'
<1>1. ThreadType' /\ Excluded' /\ SeenIsSo'
  BY DEF IInv, ThreadType, Excluded, SeenIsSo, FindContext, CallerAt, Inside, Exists
<1>2. Counted' /\ InjectedFirst'
  BY DEF IInv, Counted, InjectedFirst, FindContext, Exists
<1> QED BY <1>1, <1>2 DEF IInv

\* The holder of the mutex adds the missing context, and with the first one
\* the task: it is the only thread that builds.
LEMMA BuildKeeps ==
  ASSUME IInv, NEW c \in Caller, BuildContext(c)
  PROVE  IInv'
<1> DEFINE k == caller[c].want
<1>1. k \in Kind /\ k \notin Exists /\ caller[c].at = "building" /\ mutex = c
  BY DEF IInv, ThreadType, Excluded, SeenIsSo, BuildContext, Step, Inside
<1>2. mMsgTask' = 1 /\ (mMsgTask # 0 => mMsgTask' = mMsgTask)
  BY DEF IInv, Counted, BuildContext
<1>3. createLocApi \in {"lbs", "v02", "rpc", "dummy"}
  BY DEF createLocApi
<1>4. PICK new \in Made : context' = [context EXCEPT ![k] = new]
  <2> DEFINE mask == IF k = "Fg" THEN "mFgExclMask" ELSE "mBgExclMask"
  <2>1. context' = [context EXCEPT ![k] = [task |-> 1, api |-> createLocApi, exMask |-> mask]]
    BY <1>2 DEF BuildContext
  <2>2. mask \in {"mFgExclMask", "mBgExclMask"}
    OBVIOUS
  <2>3. [task |-> 1, api |-> createLocApi, exMask |-> mask] \in Made
    BY <1>3, <2>2 DEF Made
  <2> QED BY <2>1, <2>3
<1>5. Exists' = Exists \cup {k}
  <2>1. new # NoContext BY DEF NoContext, Made
  <2> QED BY <1>1, <1>4, <2>1 DEF Exists, IInv, Counted
<1>6. ThreadType' /\ Excluded' /\ SeenIsSo'
  BY <1>1, <1>5 DEF IInv, ThreadType, Excluded, SeenIsSo, BuildContext, Step, CallerAt, Inside
<1>7. Cardinality(Exists') = Cardinality(Exists) + 1
  <2>1. IsFiniteSet(Kind)
    <3>1. IsFiniteSet({"Bg"}) BY FS_Singleton
    <3>2. Kind = {"Bg"} \cup {"Fg"} BY DEF Kind
    <3> QED BY <3>1, <3>2, FS_AddElement
  <2>2. IsFiniteSet(Exists)
    BY <2>1, FS_Subset DEF Exists
  <2> QED BY <1>1, <1>5, <2>2, FS_AddElement
<1>8. Counted'
  <2>1. made'.tasks = 1 /\ made'.contexts = made.contexts + 1
        /\ made' = [tasks |-> made'.tasks, contexts |-> made'.contexts]
    BY DEF IInv, Counted, BuildContext
  <2>2. context' \in [Kind -> {NoContext} \cup Made]
    BY <1>4 DEF IInv, Counted
  <2>3. platform' \in Platform
    BY DEF IInv, Counted, BuildContext
  <2>4. made'.contexts = Cardinality(Exists')
    BY <1>7, <2>1 DEF IInv, Counted
  <2> QED BY <1>2, <2>1, <2>2, <2>3, <2>4 DEF Counted
<1>9. InjectedFirst'
  BY <1>2 DEF IInv, InjectedFirst, BuildContext
<1> QED BY <1>6, <1>8, <1>9 DEF IInv

LEMMA InjectKeeps ==
  ASSUME Nobody \notin Caller, IInv, NEW c \in Caller, Inject(c)
  PROVE  IInv'
<1>1. caller[c].want \in Kind /\ mInjectContext' # "none" /\ "none" \notin Kind
  BY DEF IInv, ThreadType, Inject, Step, Kind
<1>2. ThreadType' /\ Excluded' /\ SeenIsSo'
  BY <1>1 DEF IInv, ThreadType, Excluded, SeenIsSo, Inject, Step, CallerAt, Inside, Exists
<1>3. Counted'
  BY DEF IInv, Counted, Inject, Exists
<1>4. InjectedFirst'
  <2>1. CASE mInjectContext = "none"
    <3>1. mInjectContext' = caller[c].want /\ injected' = Append(injected, caller[c].want)
      BY <2>1 DEF Inject
    <3>2. injected' \in Seq(Kind) /\ Len(injected') = 1
      BY <1>1, <2>1, <3>1 DEF IInv, InjectedFirst
    <3> QED BY <1>1, <3>1, <3>2 DEF IInv, InjectedFirst, Inject
  <2>2. CASE mInjectContext # "none"
    BY <2>2 DEF IInv, InjectedFirst, Inject
  <2> QED BY <2>1, <2>2
<1> QED BY <1>2, <1>3, <1>4 DEF IInv

LEMMA SendKeeps ==
  ASSUME IInv, NEW c \in Caller, SendFirst(c)
  PROVE  IInv'
<1>1. caller[c].want \in Exists /\ mInjectContext # "none"
  BY DEF IInv, SeenIsSo, SendFirst, Step
<1>2. context[caller[c].want].task = 1 /\ mMsgTask = 1
  BY <1>1 DEF IInv, Counted, Exists, Made
<1>3. ThreadType' /\ Excluded' /\ SeenIsSo'
  BY DEF IInv, ThreadType, Excluded, SeenIsSo, SendFirst, Step, CallerAt, Inside, Exists
<1>4. Counted'
  BY DEF IInv, Counted, SendFirst, Exists
<1>5. InjectedFirst'
  BY <1>1, <1>2 DEF IInv, InjectedFirst, SendFirst
<1> QED BY <1>3, <1>4, <1>5 DEF IInv

LEMMA NextKeeps ==
  ASSUME Nobody \notin Caller, IInv, [Next]_vars
  PROVE  IInv'
<1>1. CASE UNCHANGED vars
  BY <1>1 DEF vars, IInv, ThreadType, Excluded, SeenIsSo, Counted, InjectedFirst, Exists
<1>2. CASE Next
  BY <1>2, AskKeeps, LockKeeps, FindKeeps, BuildKeeps, InjectKeeps, SendKeeps DEF Next
<1> QED BY <1>1, <1>2

LEMMA Shares == IInv => ContextsShared
<1> SUFFICES ASSUME IInv PROVE ContextsShared
  OBVIOUS
<1>1. made.tasks <= 1 /\ made.contexts = Cardinality(Exists)
  BY DEF IInv, Counted
<1>2. Len(injected) <= 1 /\ (sent # {} => Len(injected) = 1)
  BY DEF IInv, InjectedFirst
<1>3. \A s \in sent : s[3] = mMsgTask /\ mMsgTask # 0
  BY DEF IInv, InjectedFirst
<1> QED BY <1>1, <1>2, <1>3 DEF ContextsShared, Exists

\* getLocFgContext and getLocBgContext, called by any threads in any order:
\* one task for both contexts, each built once, the features injected once and
\* before any message.  It is assumed only that the value that stands for a
\* free mutex is no thread.
THEOREM SharedSafe ==
  ASSUME Nobody \notin Caller
  PROVE  Spec => []ContextsShared
<1>1. Init => IInv BY InitHolds
<1>2. IInv /\ [Next]_vars => IInv' BY NextKeeps
<1>3. IInv => ContextsShared BY Shares
<1> QED BY <1>1, <1>2, <1>3, PTL DEF Spec

\* The types hold in every execution, whatever libraries the platform has.
THEOREM TypeCorrect ==
  ASSUME Nobody \notin Caller
  PROVE  Spec => []TypeOK
<1>1. Init => IInv BY InitHolds
<1>2. IInv /\ [Next]_vars => IInv' BY NextKeeps
<1>3. IInv => TypeOK BY DEF IInv, Excluded, Counted, TypeOK, Made
<1> QED BY <1>1, <1>2, <1>3, PTL DEF Spec

-----------------------------------------------------------------------------
(* The emergency data call.                                                *)

\* A message names a connection, but the reports of the data service client do not.
Naming  == [name : {"RequestSuplEs", "ReleaseATL", "RequestATL"}, id : ID]
Reports == {"SuplEsOpened", "SuplEsClosed"}
Waiting == Naming \cup [name : Reports]
Listing == [ID -> {"absent", "active", "inactive"}]
Opened  == Queued("SuplEsOpened")
Gone    == Queued("SuplEsClosed")

\* The list holds each subscriber, and nobody else.
ListIs(list, left) == /\ list \in Seq(ID)
                      /\ {list[k] : k \in DOMAIN list} = States!Listed(left)

DsTyped ==
  /\ mState \in States!State /\ dataCall \in {"none", "starting", "up", "stopping"}
  /\ subs \in Listing /\ ListIs(order, subs)
  /\ mRetries \in Nat /\ RetriesBounded
  /\ dsMsgs \in Seq(Waiting)

\* Of the two reports each waits at most once, the call's end last.
ReportsInOrder ==
  \A j, k \in DOMAIN dsMsgs :
    j < k /\ dsMsgs[j].name \in Reports /\ dsMsgs[k].name \in Reports =>
      dsMsgs[j].name = "SuplEsOpened" /\ dsMsgs[k].name = "SuplEsClosed"

\* What the call and its waiting reports are in each state of the machine.
CallInStep ==
  /\ mState = "Released" => dataCall = "none" /\ ~Opened /\ ~Gone
  /\ mState = "Pending" => \/ dataCall = "starting" /\ ~Opened /\ ~Gone
                           \/ dataCall = "up" /\ Opened /\ ~Gone
                           \/ dataCall = "none" /\ (Opened => Gone)
  /\ mState = "Acquired" => \/ dataCall = "up" /\ ~Opened /\ ~Gone
                            \/ dataCall = "none" /\ ~Opened /\ Gone
  /\ mState = "Releasing" => \/ dataCall = "stopping" /\ ~Gone
                             \/ dataCall = "none"

\* A released machine keeps nobody that is closing.
NoneClosing == mState = "Released" => States!Inactive(subs) = {}

DsInv == DsTyped /\ ReportsInOrder /\ CallInStep /\ NoneClosing

\* The head is handled, and only messages that name a connection are added.
Handled ==
  /\ dsMsgs # << >> /\ dsMsgs' \in Seq(Waiting) /\ Len(dsMsgs') >= Len(dsMsgs) - 1
  /\ \A k \in 1..(Len(dsMsgs) - 1) : dsMsgs'[k] = dsMsgs[k + 1]
  /\ \A k \in Len(dsMsgs)..Len(dsMsgs') : dsMsgs'[k] \in Naming

LEMMA HandledHow ==
  ASSUME dsMsgs \in Seq(Waiting), dsMsgs # << >>, NEW new \in Seq(Naming),
         dsMsgs' = Tail(dsMsgs) \o new
  PROVE  Handled
<1>1. Tail(dsMsgs) \in Seq(Waiting) /\ Len(Tail(dsMsgs)) = Len(dsMsgs) - 1
      /\ \A k \in 1..(Len(dsMsgs) - 1) : Tail(dsMsgs)[k] = dsMsgs[k + 1]
  OBVIOUS
<1>2. new \in Seq(Waiting)
  BY DEF Waiting
<1> DEFINE t == Tail(dsMsgs)
<1> HIDE DEF t
<1>3. /\ t \o new \in Seq(Waiting) /\ Len(t \o new) = Len(t) + Len(new)
      /\ \A k \in 1..Len(t) : (t \o new)[k] = t[k]
      /\ \A k \in (Len(t) + 1)..(Len(t) + Len(new)) : (t \o new)[k] = new[k - Len(t)]
  BY <1>1, <1>2 DEF t
<1>4. \A k \in Len(dsMsgs)..Len(dsMsgs') : dsMsgs'[k] \in Naming
  BY <1>1, <1>3 DEF t
<1> QED BY <1>1, <1>3, <1>4 DEF Handled, t

LEMMA HandledKinds ==
  ASSUME dsMsgs \in Seq(Waiting), dsMsgs # << >>
  PROVE  /\ dsMsgs' = Tail(dsMsgs) => Handled
         /\ \A m \in Naming : dsMsgs' = Append(Tail(dsMsgs), m) => Handled
<1>1. dsMsgs' = Tail(dsMsgs) => Handled
  BY DEF Handled
<1>2. ASSUME NEW m \in Naming, dsMsgs' = Append(Tail(dsMsgs), m) PROVE Handled
  <2>1. m \in Waiting
    BY DEF Waiting
  <2> QED BY <1>2, <2>1 DEF Handled
<1> QED BY <1>1, <1>2

\* What handling the head and adding a message do to the reports that wait.
LEMMA ReportsAfter ==
  ASSUME dsMsgs \in Seq(Waiting), ReportsInOrder, Handled
  PROVE  /\ ReportsInOrder'
         /\ Opened' <=> Opened /\ Head(dsMsgs).name # "SuplEsOpened"
         /\ Gone' <=> Gone /\ Head(dsMsgs).name # "SuplEsClosed"
<1> DEFINE n == Len(dsMsgs)
<1>1. /\ n \in Nat /\ n >= 1 /\ DOMAIN dsMsgs = 1..n /\ Head(dsMsgs) = dsMsgs[1]
      /\ DOMAIN dsMsgs' = 1..Len(dsMsgs') /\ Len(dsMsgs') \in Nat /\ Len(dsMsgs') >= n - 1
  BY DEF Handled
<1>2. \A k \in DOMAIN dsMsgs' : dsMsgs'[k].name \in Reports =>
        k + 1 \in DOMAIN dsMsgs /\ dsMsgs'[k] = dsMsgs[k + 1]
  <2> SUFFICES ASSUME NEW k \in DOMAIN dsMsgs', dsMsgs'[k].name \in Reports
               PROVE  k + 1 \in DOMAIN dsMsgs /\ dsMsgs'[k] = dsMsgs[k + 1]
    OBVIOUS
  <2>1. dsMsgs'[k] \notin Naming
    BY DEF Naming, Reports
  <2>2. k \in 1..(n - 1)
    BY <1>1, <2>1 DEF Handled
  <2> QED BY <1>1, <2>2 DEF Handled
<1>3. \A k \in DOMAIN dsMsgs : k # 1 => /\ k - 1 \in DOMAIN dsMsgs'
                                        /\ dsMsgs'[k - 1] = dsMsgs[k]
  BY <1>1 DEF Handled
<1>4. ReportsInOrder'
  BY <1>1, <1>2 DEF ReportsInOrder
<1>5. ASSUME NEW r \in Reports
      PROVE  Queued(r)' <=> \E k \in DOMAIN dsMsgs : k # 1 /\ dsMsgs[k].name = r
  <2>1. ASSUME Queued(r)' PROVE \E k \in DOMAIN dsMsgs : k # 1 /\ dsMsgs[k].name = r
    <3>1. PICK k \in DOMAIN dsMsgs' : dsMsgs'[k].name = r
      BY <2>1 DEF Queued
    <3> QED BY <1>1, <1>2, <3>1
  <2>2. ASSUME NEW k \in DOMAIN dsMsgs, k # 1, dsMsgs[k].name = r PROVE Queued(r)'
    BY <1>3, <2>2 DEF Queued
  <2> QED BY <2>1, <2>2
<1>6. ASSUME NEW r \in Reports
      PROVE  Queued(r)' <=> Queued(r) /\ Head(dsMsgs).name # r
  <2>1. \A k \in DOMAIN dsMsgs : k # 1 /\ dsMsgs[k].name = r => dsMsgs[1].name # r
    BY <1>1, <1>6 DEF ReportsInOrder, Reports
  <2>2. Queued(r) <=> \/ dsMsgs[1].name = r
                      \/ \E k \in DOMAIN dsMsgs : k # 1 /\ dsMsgs[k].name = r
    BY <1>1 DEF Queued
  <2> QED BY <1>1, <1>5, <2>1, <2>2
<1> QED BY <1>4, <1>6 DEF Opened, Gone, Reports

LEMMA ReportsAdded ==
  ASSUME dsMsgs \in Seq(Waiting), ReportsInOrder, NEW m \in Waiting,
         dsMsgs' = Append(dsMsgs, m)
  PROVE  /\ dsMsgs' \in Seq(Waiting)
         /\ Opened' <=> Opened \/ m.name = "SuplEsOpened"
         /\ Gone' <=> Gone \/ m.name = "SuplEsClosed"
         /\ m.name \notin Reports => ReportsInOrder'
         /\ ~Gone /\ (m.name = "SuplEsOpened" => ~Opened) => ReportsInOrder'
<1> DEFINE n == Len(dsMsgs)
<1>1. /\ dsMsgs' \in Seq(Waiting) /\ n \in Nat /\ DOMAIN dsMsgs = 1..n
      /\ DOMAIN dsMsgs' = 1..(n + 1) /\ dsMsgs'[n + 1] = m
      /\ \A k \in 1..n : dsMsgs'[k] = dsMsgs[k]
  OBVIOUS
<1>2. /\ Opened' <=> Opened \/ m.name = "SuplEsOpened"
      /\ Gone' <=> Gone \/ m.name = "SuplEsClosed"
  BY <1>1 DEF Opened, Gone, Queued
<1>3. m.name \notin Reports => ReportsInOrder'
  BY <1>1 DEF ReportsInOrder
<1>4. ~Gone /\ (m.name = "SuplEsOpened" => ~Opened) => ReportsInOrder'
  <2> SUFFICES ASSUME ~Gone, m.name = "SuplEsOpened" => ~Opened, m.name \in Reports,
                      NEW j \in 1..n, dsMsgs[j].name \in Reports
               PROVE  dsMsgs[j].name = "SuplEsOpened" /\ m.name = "SuplEsClosed"
    BY <1>1, <1>3 DEF ReportsInOrder
  <2> QED BY <1>1 DEF Gone, Opened, Queued, Reports
<1> QED BY <1>1, <1>2, <1>3, <1>4

\* The list after an event is one of those that are left, and the first active
\* of it a connection.
LEMMA ListAfter ==
  ASSUME NEW left \in Listing, NEW list \in Reordered(left)
  PROVE  ListIs(list, left)
<1> DEFINE S == States!Listed(left)
<1>1. IsFiniteSet(S) /\ S \subseteq ID
  <2>1. S \subseteq ID
    BY DEF States!Listed
  <2> QED BY <2>1, DsAssumption, FS_Subset
<1>2. Cardinality(S) \in Nat
  BY <1>1, FS_CardinalityType
<1>3. list \in [1..Cardinality(S) -> S] /\ \A i \in S : \E k \in DOMAIN list : list[k] = i
  BY DEF Reordered
<1> QED BY <1>1, <1>2, <1>3 DEF ListIs

LEMMA FirstNames ==
  ASSUME NEW left \in Listing, NEW list, ListIs(list, left)
  PROVE  /\ States!Active(left) # {} => FirstActive(list, left) \subseteq ID
         /\ FirstActive(list, left) \subseteq ID \cup {NoHandle}
<1> DEFINE K == {k \in DOMAIN list : left[list[k]] = "active"}
<1>1. K \subseteq DOMAIN list /\ \A k \in DOMAIN list : list[k] \in ID
  BY DEF ListIs
<1>2. ASSUME NEW i \in ID, left[i] = "active" PROVE K # {}
  <2>1. i \in States!Listed(left)
    BY <1>2 DEF States!Listed
  <2> QED BY <1>2, <2>1 DEF ListIs
<1>3. K # {} => FirstActive(list, left) \subseteq ID
  BY <1>1 DEF FirstActive
<1>4. K = {} => FirstActive(list, left) = {NoHandle}
  BY DEF FirstActive
<1> QED BY <1>2, <1>3, <1>4 DEF States!Active

\* DENIED names whom the list holds.
LEMMA FallbacksName ==
  ASSUME order \in Seq(ID), NEW heard
  PROVE  Fallbacks(heard) \in Seq(Naming)
<1>1. Len(order) \in Nat /\ \A k \in 1..Len(order) : order[k] \in ID
  OBVIOUS
<1>2. \A k \in 1..Len(order) : DsMsg("RequestATL", order[k]) \in Naming
  BY <1>1 DEF DsMsg, Naming
<1> DEFINE f == [k \in 1..Len(order) |-> DsMsg("RequestATL", order[k])]
<1>3. f \in Seq(Naming)
  BY <1>1, <1>2
<1>4. << >> \in Seq(Naming)
  OBVIOUS
<1> HIDE DEF f
<1> QED BY <1>3, <1>4 DEF Fallbacks, f

\* What any outcome o comes to, once the call is asked for only if one is active.
LEMMA OutcomeApplied ==
  ASSUME DsInv, dsMsgs # << >>, NEW o, o.subs \in Listing, o.state \in States!State,
         o.ask = "REQUEST" => States!Active(o.subs) # {}, ApplyOutcome(o)
  PROVE  /\ Handled /\ subs' = o.subs /\ ListIs(order', subs')
         /\ mRetries' \in Nat /\ RetriesBounded'
         /\ o.ask # "REQUEST" =>
              /\ mState' = o.state
              /\ dataCall' = IF o.ask = "RELEASE" THEN Stopped ELSE Closed(o.told)
         /\ o.ask = "REQUEST" =>
              \/ mState' = o.state /\ dataCall' = "starting" /\ Closed(o.told) = "none"
              \/ /\ mState' = IF mState = "Released" THEN "Released" ELSE o.state
                 /\ dataCall' = Closed(o.told)
<1>1. subs' = o.subs /\ ListIs(order', subs')
  BY ListAfter DEF ApplyOutcome
<1>2. CASE o.ask # "REQUEST"
  <2>1. ApplyOther(o)
    BY <1>2 DEF ApplyOutcome
  <2>2. Handled
    <3>1. dsMsgs' = Tail(dsMsgs) \o Fallbacks(o.told) /\ Fallbacks(o.told) \in Seq(Naming)
      BY <2>1, FallbacksName DEF ApplyOther, DsInv, DsTyped, ListIs
    <3> QED BY <3>1, HandledHow DEF DsInv, DsTyped
  <2>3. mRetries' \in Nat /\ RetriesBounded'
    BY <2>1, DsAssumption DEF ApplyOther, DsInv, DsTyped, RetriesBounded
  <2> QED BY <1>1, <1>2, <2>1, <2>2, <2>3 DEF ApplyOther
<1>3. CASE o.ask = "REQUEST"
  <2>1. PICK ret \in StartResult(Closed(o.told)) :
          IF ret = "SUCCESS"
          THEN /\ mState' = o.state /\ dataCall' = "starting"
               /\ dsMsgs' = Tail(dsMsgs) /\ UNCHANGED <<mRetries, timers>>
          ELSE /\ mState' = IF mState = "Released" THEN "Released" ELSE o.state
               /\ dataCall' = Closed(o.told)
               /\ \E handle \in FirstActive(order', o.subs) : Refused(ret, handle)
    BY <1>3 DEF ApplyOutcome, ApplyRequest
  <2>2. CASE ret = "SUCCESS"
    <3>1. Closed(o.told) = "none"
      BY <2>2 DEF StartResult
    <3>2. Handled
      BY <2>1, <2>2, HandledKinds DEF DsInv, DsTyped
    <3>3. mRetries' \in Nat /\ RetriesBounded'
      BY <2>1, <2>2 DEF DsInv, DsTyped, RetriesBounded
    <3> QED BY <1>1, <1>3, <2>1, <2>2, <3>1, <3>2, <3>3
  <2>3. CASE ret # "SUCCESS"
    <3>1. PICK handle \in FirstActive(order', o.subs) : Refused(ret, handle)
      BY <2>1, <2>3
    <3>2. handle \in ID
      BY <1>1, <1>3, <3>1, FirstNames
    <3>3. DsMsg("RequestATL", handle) \in Naming
      BY <3>2 DEF DsMsg, Naming
    <3>4. \/ dsMsgs' = Tail(dsMsgs)
          \/ dsMsgs' = Append(Tail(dsMsgs), DsMsg("RequestATL", handle))
      BY <3>1 DEF Refused
    <3>5. Handled
      BY <3>3, <3>4, HandledKinds DEF DsInv, DsTyped
    <3>6. mRetries' \in Nat /\ RetriesBounded'
      BY <3>1, DsAssumption DEF Refused, DsInv, DsTyped, RetriesBounded
    <3> QED BY <1>1, <1>3, <2>1, <2>3, <3>5, <3>6
  <2> QED BY <2>2, <2>3
<1> QED BY <1>2, <1>3

LEMMA HeadNames ==
  ASSUME dsMsgs \in Seq(Waiting), dsMsgs # << >>
  PROVE  Head(dsMsgs) \in Waiting /\ (Head(dsMsgs).name \notin Reports => Head(dsMsgs).id \in ID)
<1>1. Head(dsMsgs) \in Waiting
  OBVIOUS
<1> QED BY <1>1 DEF Waiting, Naming, Reports

\* The lists that the events leave.
LEMMA ListsLeft ==
  ASSUME NEW s \in Listing
  PROVE  /\ \A i \in ID : States!AddSubscriber(s, i) \in Listing
         /\ \A i \in ID : States!Close(s, i) \in Listing /\ i \in States!Listed(States!Close(s, i))
         /\ \A S : States!Without(s, S) \in Listing
         /\ States!Inactive(States!Without(s, States!Inactive(s))) = {}
         /\ States!Inactive(States!Without(s, ID)) = {}
<1>1. \A i \in ID : States!AddSubscriber(s, i) \in Listing
  BY DEF States!AddSubscriber, Listing
<1>2. \A i \in ID : States!Close(s, i) \in Listing /\ i \in States!Listed(States!Close(s, i))
  BY DEF States!Close, States!WaitForClose, States!Listed, Listing
<1>3. \A S : States!Without(s, S) \in Listing
  BY DEF States!Without, Listing
<1>4. States!Inactive(States!Without(s, States!Inactive(s))) = {}
  BY DEF States!Without, States!Inactive
<1>5. States!Inactive(States!Without(s, ID)) = {}
  BY DEF States!Without, States!Inactive
<1> QED BY <1>1, <1>2, <1>3, <1>4, <1>5

\* Nobody is told RELEASED, then the call is what it was.
LEMMA CallKept ==
  /\ Closed(States!Nobody) = dataCall
  /\ \A S : \A status \in {"GRANTED", "DENIED", "UNSUBSCRIBE"} :
       Closed(States!Notify(S, status)) = dataCall
  /\ \A i : Closed(States!CloseNotice(i)) = dataCall
  BY DEF Closed, States!Nobody, States!Notify, States!CloseNotice

\* The new state, call and list of a step put the invariant together.
LEMMA PutTogether ==
  ASSUME DsInv, Handled, ListIs(order', subs'), subs' \in Listing, mRetries' \in Nat,
         RetriesBounded', mState' \in States!State,
         dataCall' \in {"none", "starting", "up", "stopping"}, CallInStep', NoneClosing'
  PROVE  DsInv'
<1>1. DsTyped'
  BY DEF DsTyped, Handled
<1>2. ReportsInOrder'
  BY ReportsAfter DEF DsInv, DsTyped
<1> QED BY <1>1, <1>2 DEF DsInv

LEMMA RequestKeeps ==
  ASSUME DsInv, RequestSuplEs
  PROVE  DsInv'
<1> DEFINE i == Head(dsMsgs).id
           o == States!OnRsrcEvent(mState, "SUBSCRIBE", subs, i)
           more == States!AddSubscriber(subs, i)
<1>1. dsMsgs # << >> /\ Head(dsMsgs).name = "RequestSuplEs" /\ ApplyOutcome(o)
  BY DEF RequestSuplEs, HeadIs
<1>2. i \in ID /\ Head(dsMsgs).name \notin Reports
  BY <1>1, HeadNames DEF DsInv, DsTyped, Reports
<1>3. more \in Listing /\ States!Inactive(more) = States!Inactive(subs)
  BY <1>2 DEF States!AddSubscriber, States!Inactive, Listing, DsInv, DsTyped
<1>4. mState = "Released" => States!Active(more) # {}
  BY <1>2 DEF States!AddSubscriber, States!Inactive, States!Active, Listing, DsInv, DsTyped,
              NoneClosing
<1>5. /\ mState = "Released" =>
           o = States!Outcome("Pending", more, States!Nobody, "REQUEST")
      /\ mState \in {"Pending", "Releasing"} =>
           o = States!Outcome(mState, more, States!Nobody, "none")
      /\ mState = "Acquired" =>
           o = States!Outcome("Acquired", more, States!Notify({i}, "GRANTED"), "none")
  BY DEF States!OnRsrcEvent, States!ReleasedOn, States!PendingOn, States!AcquiredOn,
         States!ReleasingOn, States!GrantNewcomer
<1>6. mState \in States!State
  BY DEF DsInv, DsTyped
<1> HIDE DEF o, more, i
<1>7. /\ o.subs = more /\ o.state \in States!State /\ Closed(o.told) = dataCall
      /\ o.ask = (IF mState = "Released" THEN "REQUEST" ELSE "none")
      /\ o.state = (IF mState = "Released" THEN "Pending" ELSE mState)
  BY <1>5, <1>6, CallKept DEF States!Outcome, States!State
<1>8. /\ Handled /\ subs' = more /\ ListIs(order', subs')
      /\ mRetries' \in Nat /\ RetriesBounded'
      /\ \/ mState' = mState /\ dataCall' = dataCall
         \/ mState = "Released" /\ mState' = "Pending" /\ dataCall' \in {"starting", dataCall}
  BY <1>1, <1>3, <1>4, <1>7, OutcomeApplied
<1>9. (Opened' <=> Opened) /\ (Gone' <=> Gone)
  BY <1>1, <1>2, <1>8, ReportsAfter DEF DsInv, DsTyped
<1>10. CallInStep'
  BY <1>6, <1>8, <1>9 DEF DsInv, CallInStep
<1>11. NoneClosing'
  BY <1>3, <1>8 DEF DsInv, NoneClosing, States!Inactive
<1> QED BY <1>3, <1>6, <1>8, <1>10, <1>11, PutTogether DEF DsInv, DsTyped, States!State

\* A message that the machine has no part in.
LEMMA MessageOnly ==
  ASSUME DsInv, dsMsgs # << >>, Head(dsMsgs).name \notin Reports, dsMsgs' = Tail(dsMsgs),
         UNCHANGED <<mState, subs, order, mRetries, dataCall>>
  PROVE  DsInv'
<1>1. Handled
  BY HandledKinds DEF DsInv, DsTyped
<1>2. (Opened' <=> Opened) /\ (Gone' <=> Gone)
  BY <1>1, ReportsAfter DEF DsInv, DsTyped, Reports
<1>3. CallInStep' /\ NoneClosing' /\ RetriesBounded'
  BY <1>2 DEF DsInv, DsTyped, CallInStep, NoneClosing, RetriesBounded, States!Inactive
<1> QED BY <1>1, <1>3, PutTogether DEF DsInv, DsTyped

LEMMA ReleaseKeeps ==
  ASSUME DsInv, ReleaseATL
  PROVE  DsInv'
<1> DEFINE i == Head(dsMsgs).id
           o == States!OnRsrcEvent(mState, "UNSUBSCRIBE", subs, i)
           left == States!Close(subs, i)
<1>1. dsMsgs # << >> /\ Head(dsMsgs).name = "ReleaseATL"
  BY DEF ReleaseATL, HeadIs
<1>2. i \in ID /\ Head(dsMsgs).name \notin Reports
  BY <1>1, HeadNames DEF DsInv, DsTyped, Reports
<1>3. CASE /\ dsMsgs' = Tail(dsMsgs)
           /\ UNCHANGED <<mState, subs, order, mRetries, timers, dataCall>>
  BY <1>1, <1>2, <1>3, MessageOnly
<1>4. CASE ApplyOutcome(o)
  <2>1. left \in Listing /\ States!Listed(left) # {}
    BY <1>2, ListsLeft DEF DsInv, DsTyped
  <2>2. /\ mState = "Released" =>
             o = States!Outcome("Released", subs, States!CloseNotice(i), "none")
        /\ mState = "Releasing" =>
             o = States!Outcome("Releasing", left, States!CloseNotice(i), "none")
        /\ mState \in {"Pending", "Acquired"} =>
             \/ o = States!Outcome("Releasing", left, States!CloseNotice(i), "RELEASE")
             \/ o = States!Outcome(mState, left, States!CloseNotice(i), "none")
    BY <2>1 DEF States!OnRsrcEvent, States!ReleasedOn, States!PendingOn, States!AcquiredOn,
                States!ReleasingOn, States!UnsubscribeIn
  <2>3. mState \in States!State
    BY DEF DsInv, DsTyped
  <2> HIDE DEF o, left, i
  <2>4. /\ o.subs \in Listing /\ o.state \in States!State /\ Closed(o.told) = dataCall
        /\ o.subs = (IF mState = "Released" THEN subs ELSE left)
        /\ \/ o.ask = "none" /\ o.state = mState
           \/ /\ o.ask = "RELEASE" /\ o.state = "Releasing" /\ mState \in {"Pending", "Acquired"}
    BY <2>1, <2>2, <2>3, CallKept DEF States!Outcome, States!State, DsInv, DsTyped
  <2>5. /\ Handled /\ subs' = o.subs /\ ListIs(order', subs')
        /\ mRetries' \in Nat /\ RetriesBounded'
        /\ \/ mState' = mState /\ dataCall' = dataCall
           \/ mState \in {"Pending", "Acquired"} /\ mState' = "Releasing" /\ dataCall' = Stopped
    BY <1>1, <1>4, <2>4, OutcomeApplied
  <2>6. (Opened' <=> Opened) /\ (Gone' <=> Gone)
    BY <1>1, <1>2, <2>5, ReportsAfter DEF DsInv, DsTyped
  <2>7. CallInStep'
    BY <2>3, <2>5, <2>6 DEF DsInv, DsTyped, CallInStep, Stopped
  <2>8. NoneClosing'
    BY <2>4, <2>5 DEF DsInv, NoneClosing, States!Inactive
  <2>9. mState' \in States!State /\ dataCall' \in {"none", "starting", "up", "stopping"}
    BY <2>3, <2>5 DEF DsInv, DsTyped, States!State, Stopped
  <2> QED BY <2>4, <2>5, <2>7, <2>8, <2>9, PutTogether
<1> QED BY <1>3, <1>4 DEF ReleaseATL

LEMMA OpenedKeeps ==
  ASSUME DsInv, SuplEsOpened
  PROVE  DsInv'
<1>1. dsMsgs # << >> /\ Head(dsMsgs).name = "SuplEsOpened"
  BY DEF SuplEsOpened, HeadIs
<1>2. PICK i \in ID : ApplyOutcome(States!OnRsrcEvent(mState, "GRANTED", subs, i))
  BY DEF SuplEsOpened
<1> DEFINE o == States!OnRsrcEvent(mState, "GRANTED", subs, i)
<1>3. /\ mState = "Pending" =>
           o = States!Outcome("Acquired", subs, States!Notify(States!Active(subs), "GRANTED"), "none")
      /\ mState \in {"Released", "Acquired", "Releasing"} =>
           o = States!Outcome(mState, subs, States!Nobody, "none")
  BY DEF States!OnRsrcEvent, States!ReleasedOn, States!PendingOn, States!AcquiredOn,
         States!ReleasingOn, States!GrantActive, States!Ignore
<1>4. mState \in States!State /\ subs \in Listing
  BY DEF DsInv, DsTyped
<1> HIDE DEF o
<1>5. /\ o.subs = subs /\ o.state \in States!State /\ Closed(o.told) = dataCall /\ o.ask = "none"
      /\ o.state = (IF mState = "Pending" THEN "Acquired" ELSE mState)
  BY <1>3, <1>4, CallKept DEF States!Outcome, States!State
<1>6. /\ Handled /\ subs' = subs /\ ListIs(order', subs') /\ dataCall' = dataCall
      /\ mRetries' \in Nat /\ RetriesBounded'
      /\ mState' = (IF mState = "Pending" THEN "Acquired" ELSE mState)
  BY <1>1, <1>2, <1>4, <1>5, OutcomeApplied DEF o
<1>7. ~Opened' /\ (Gone' <=> Gone) /\ Opened
  <2>1. ~Opened' /\ (Gone' <=> Gone)
    BY <1>1, <1>6, ReportsAfter DEF DsInv, DsTyped
  <2>2. Opened
    <3>1. 1 \in DOMAIN dsMsgs /\ Head(dsMsgs) = dsMsgs[1]
      BY <1>1 DEF DsInv, DsTyped
    <3> QED BY <1>1, <3>1 DEF Opened, Queued
  <2> QED BY <2>1, <2>2
<1>8. CallInStep'
  BY <1>4, <1>6, <1>7 DEF DsInv, CallInStep
<1>9. NoneClosing'
  BY <1>6 DEF DsInv, NoneClosing, States!Inactive
<1> QED BY <1>4, <1>6, <1>8, <1>9, PutTogether DEF DsInv, DsTyped, States!State

\* The last report is handled when the call is gone and no other waits; whichever
\* way the machine takes it, nobody that was closing is left.
LEMMA ClosedKeeps ==
  ASSUME DsInv, SuplEsClosed
  PROVE  DsInv'
<1>1. dsMsgs # << >> /\ Head(dsMsgs).name = "SuplEsClosed"
  BY DEF SuplEsClosed, HeadIs
<1>2. Gone /\ ~Opened
  <2>1. /\ 1 \in DOMAIN dsMsgs /\ Head(dsMsgs) = dsMsgs[1]
        /\ \A k \in DOMAIN dsMsgs : k # 1 => 1 < k
    BY <1>1 DEF DsInv, DsTyped
  <2> QED BY <1>1, <2>1 DEF Opened, Gone, Queued, DsInv, ReportsInOrder, Reports
<1>3. mState \in {"Pending", "Acquired", "Releasing"} /\ dataCall = "none"
  BY <1>2 DEF DsInv, DsTyped, CallInStep, States!State
<1> DEFINE r(i) == States!OnRsrcEvent(mState, "RELEASED", subs, i)
           d(i) == States!OnRsrcEvent(mState, "DENIED", subs, i)
           left == States!Without(subs, States!Inactive(subs))
<1>4. PICK i \in ID : ApplyOutcome(IF r(i).state # mState THEN r(i) ELSE d(i))
  BY DEF SuplEsClosed
<1> DEFINE o == IF r(i).state # mState THEN r(i) ELSE d(i)
<1>5. subs \in Listing
  BY DEF DsInv, DsTyped
<1>6. \E heard : \/ o = States!Outcome("Released", States!Without(subs, ID), heard, "none")
                 \/ o = States!Outcome("Released", left, heard, "none")
                 \/ /\ States!Active(left) # {} /\ mState = "Releasing"
                    /\ o = States!Outcome("Pending", left, heard, "REQUEST")
  <2>1. CASE mState = "Pending"
    <3>1. r(i).state = "Pending"
      BY <2>1 DEF States!OnRsrcEvent, States!PendingOn, States!Ignore, States!Outcome
    <3>2. d(i) = States!DropAll(subs, "DENIED")
      BY <2>1 DEF States!OnRsrcEvent, States!PendingOn
    <3> QED BY <2>1, <3>1, <3>2 DEF States!DropAll
  <2>2. CASE mState = "Acquired"
    <3>1. r(i) = States!DropAll(subs, "RELEASED")
      BY <2>2 DEF States!OnRsrcEvent, States!AcquiredOn, States!ForcedRelease
    <3>2. r(i).state = "Released"
      BY <3>1 DEF States!DropAll, States!Outcome
    <3> QED BY <2>2, <3>1, <3>2 DEF States!DropAll
  <2>3. CASE mState = "Releasing"
    <3>1. r(i) = States!CompleteClose("RELEASED", subs)
      BY <2>3 DEF States!OnRsrcEvent, States!ReleasingOn
    <3>2. r(i).state \in {"Pending", "Released"}
      BY <3>1 DEF States!CompleteClose, States!Outcome
    <3> QED BY <2>3, <3>1, <3>2 DEF States!CompleteClose
  <2> QED BY <1>3, <2>1, <2>2, <2>3
<1>7. ApplyOutcome(o)
  BY <1>4
<1> HIDE DEF o, left
<1>8. left \in Listing /\ States!Inactive(left) = {}
      /\ States!Without(subs, ID) \in Listing /\ States!Inactive(States!Without(subs, ID)) = {}
  BY <1>5, ListsLeft DEF left
<1>9. /\ o.subs \in Listing /\ States!Inactive(o.subs) = {} /\ o.state \in States!State
      /\ \/ o.ask = "none" /\ o.state = "Released"
         \/ /\ o.ask = "REQUEST" /\ o.state = "Pending" /\ mState = "Releasing"
            /\ States!Active(o.subs) # {}
  BY <1>6, <1>8 DEF States!Outcome, States!State
<1>10. Closed(o.told) = "none"
  BY <1>3 DEF Closed
<1>11. /\ Handled /\ subs' = o.subs /\ ListIs(order', subs')
       /\ mRetries' \in Nat /\ RetriesBounded'
       /\ \/ mState' = "Released" /\ dataCall' = "none"
          \/ mState' = "Pending" /\ dataCall' \in {"starting", "none"}
  BY <1>1, <1>3, <1>7, <1>9, <1>10, OutcomeApplied
<1>12. ~Opened' /\ ~Gone'
  BY <1>1, <1>2, <1>11, ReportsAfter DEF DsInv, DsTyped
<1>13. CallInStep'
  BY <1>11, <1>12 DEF CallInStep
<1>14. NoneClosing'
  BY <1>9, <1>11 DEF NoneClosing, States!Inactive
<1> QED BY <1>9, <1>11, <1>13, <1>14, PutTogether DEF States!State

\* A request of the modem or of the timer, and a report, join the queue.
LEMMA NamedJoins ==
  ASSUME DsInv, NEW m \in Naming, dsMsgs' = Append(dsMsgs, m),
         UNCHANGED <<mState, subs, order, mRetries, dataCall>>
  PROVE  DsInv'
<1>1. m \in Waiting /\ m.name \notin Reports
  BY DEF Waiting, Naming, Reports
<1>2. dsMsgs' \in Seq(Waiting) /\ ReportsInOrder' /\ (Opened' <=> Opened) /\ (Gone' <=> Gone)
  BY <1>1, ReportsAdded DEF DsInv, DsTyped, Reports
<1>3. CallInStep' /\ NoneClosing' /\ RetriesBounded'
  BY <1>2 DEF DsInv, DsTyped, CallInStep, NoneClosing, RetriesBounded, States!Inactive
<1> QED BY <1>2, <1>3 DEF DsInv, DsTyped

LEMMA ReportKeeps ==
  ASSUME DsInv, CallOpened \/ CallFailed \/ CallDropped \/ CallStopped
  PROVE  DsInv'
<1>1. PICK name \in Reports, from \in {"starting", "up", "stopping"}, to \in {"up", "none"} :
        /\ ServiceReports(from, to, name)
        /\ \/ from = "starting" /\ to = "up" /\ name = "SuplEsOpened"
           \/ from \in {"starting", "up", "stopping"} /\ to = "none" /\ name = "SuplEsClosed"
  BY DEF CallOpened, CallFailed, CallDropped, CallStopped, Reports
<1>2. /\ dataCall = from /\ dataCall' = to /\ dsMsgs' = Append(dsMsgs, [name |-> name])
      /\ UNCHANGED <<mState, subs, order, mRetries>>
  BY <1>1 DEF ServiceReports, Machine
<1>3. [name |-> name] \in Waiting
  BY DEF Waiting
<1>4. mState \in States!State /\ ~Gone /\ (name = "SuplEsOpened" => ~Opened)
  BY <1>1, <1>2 DEF DsInv, DsTyped, CallInStep, States!State
<1>5. /\ dsMsgs' \in Seq(Waiting) /\ ReportsInOrder'
      /\ Opened' <=> Opened \/ name = "SuplEsOpened"
      /\ Gone' <=> Gone \/ name = "SuplEsClosed"
  BY <1>2, <1>3, <1>4, ReportsAdded DEF DsInv, DsTyped
<1>6. CallInStep'
  BY <1>1, <1>2, <1>4, <1>5 DEF DsInv, CallInStep, States!State
<1>7. NoneClosing' /\ RetriesBounded'
  BY <1>2 DEF DsInv, DsTyped, NoneClosing, RetriesBounded, States!Inactive
<1>8. DsTyped'
  BY <1>1, <1>2, <1>5, <1>7 DEF DsInv, DsTyped
<1> QED BY <1>5, <1>6, <1>7, <1>8 DEF DsInv

\* The steps of the lease, and those that change only what the modem sees.
LEMMA ElsewhereKeeps ==
  ASSUME DsInv, UNCHANGED <<mState, subs, order, mRetries, dataCall, dsMsgs>>
  PROVE  DsInv'
  BY DEF DsInv, DsTyped, ReportsInOrder, CallInStep, NoneClosing, RetriesBounded, Opened, Gone,
         Queued, States!Inactive

LEMMA RetryKeeps ==
  ASSUME DsInv, RetryCallback
  PROVE  DsInv'
<1>1. PICK i \in FirstActive(order, subs) :
        dsMsgs' = IF i = NoHandle THEN dsMsgs ELSE Append(dsMsgs, DsMsg("RequestSuplEs", i))
  BY DEF RetryCallback
<1>2. UNCHANGED <<mState, subs, order, mRetries, dataCall>>
  BY DEF RetryCallback
<1>3. i \in ID \cup {NoHandle}
  BY FirstNames DEF DsInv, DsTyped
<1>4. CASE i = NoHandle
  BY <1>1, <1>2, <1>4, ElsewhereKeeps
<1>5. CASE i # NoHandle
  <2>1. DsMsg("RequestSuplEs", i) \in Naming
    BY <1>3, <1>5 DEF DsMsg, Naming
  <2> QED BY <1>1, <1>2, <1>5, <2>1, NamedJoins
<1> QED BY <1>4, <1>5

LEMMA ModemKeeps ==
  ASSUME DsInv, NEW i \in ID, ModemRequests(i) \/ ModemReleases(i)
  PROVE  DsInv'
<1>1. PICK m \in Naming : dsMsgs' = Append(dsMsgs, m)
  <2>1. DsMsg("RequestSuplEs", i) \in Naming /\ DsMsg("ReleaseATL", i) \in Naming
    BY DEF DsMsg, Naming
  <2> QED BY <2>1 DEF ModemRequests, ModemReleases
<1>2. UNCHANGED <<mState, subs, order, mRetries, dataCall>>
  BY DEF ModemRequests, ModemReleases, Machine
<1> QED BY <1>1, <1>2, NamedJoins

LEMMA DsStep ==
  ASSUME DsInv, [DsNext]_dsVars
  PROVE  DsInv'
<1>1. CASE UNCHANGED dsVars
  BY <1>1, ElsewhereKeeps DEF dsVars
<1>2. CASE RequestATL
  <2>1. dsMsgs # << >> /\ Head(dsMsgs).name \notin Reports /\ dsMsgs' = Tail(dsMsgs)
        /\ UNCHANGED <<mState, subs, order, mRetries, dataCall>>
    BY <1>2 DEF RequestATL, HeadIs, Reports
  <2> QED BY <2>1, MessageOnly
<1>3. CASE AtlGranted \/ AtlEnded
  BY <1>3, ElsewhereKeeps DEF AtlGranted, AtlEnded, Machine
<1> QED BY <1>1, <1>2, <1>3, RequestKeeps, ReleaseKeeps, OpenedKeeps, ClosedKeeps, ReportKeeps,
           RetryKeeps, ModemKeeps DEF DsNext

LEMMA DsInitHolds == DsInit => DsInv
<1> SUFFICES ASSUME DsInit PROVE DsInv
  OBVIOUS
<1>1. /\ subs \in Listing /\ States!Listed(subs) = {} /\ States!Inactive(subs) = {}
  BY DEF DsInit, Listing, States!Listed, States!Inactive
<1>2. ListIs(order, subs)
  BY <1>1 DEF DsInit, ListIs
<1>3. DsTyped
  BY <1>1, <1>2, DsAssumption DEF DsInit, DsTyped, RetriesBounded, States!State
<1>4. ~Opened /\ ~Gone /\ ReportsInOrder
  BY DEF DsInit, Opened, Gone, Queued, ReportsInOrder
<1> QED BY <1>1, <1>3, <1>4 DEF DsInv, DsInit, CallInStep, NoneClosing

LEMMA DsInvariant == DsSpec => []DsInv
  BY DsInitHolds, DsStep, PTL DEF DsSpec

\* For any connections and any limit of retries: failed starts are never
\* counted past the limit, the machine and the call agree up to the reports
\* that wait, and each fallback names a connection.
THEOREM RetriesStayBounded == DsSpec => []RetriesBounded
<1>1. DsInv => RetriesBounded
  BY DEF DsInv, DsTyped
<1> QED BY DsInvariant, <1>1, PTL

\* The machine and the data call agree, up to the reports that wait.
THEOREM CallStaysTracked == DsSpec => []CallTracked
<1>1. DsInv => CallTracked
  BY DEF DsInv, DsTyped, CallInStep, CallTracked, Opened, Gone, States!State
<1> QED BY DsInvariant, <1>1, PTL

\* A request sent again after a failure names the connection it is for.
THEOREM FallbacksHaveHandles == DsSpec => []FallbackHasHandle
<1>1. DsInv => FallbackHasHandle
  <2> SUFFICES ASSUME DsInv, NEW k \in DOMAIN dsMsgs, dsMsgs[k].name = "RequestATL"
               PROVE  dsMsgs[k].id # NoHandle
    BY DEF FallbackHasHandle
  <2>1. dsMsgs[k] \in Waiting
    BY DEF DsInv, DsTyped
  <2> QED BY <2>1, DsAssumption DEF Waiting, Naming, Reports
<1> QED BY DsInvariant, <1>1, PTL

\* What the modem and the lease add to the types.
Distinct(list) == \A j, k \in DOMAIN list : list[j] = list[k] => j = k
Outside ==
  /\ Distinct(order) /\ timers \in Nat
  /\ conn \in [ID -> {"idle", "asked", "open", "closing"}]
  /\ atl \in [ID -> {"idle", "asked", "open"}] /\ atlHeld \in BOOLEAN

LEMMA EachOnce ==
  ASSUME NEW left \in Listing, NEW list \in Reordered(left)
  PROVE  Distinct(list)
<1> DEFINE S == States!Listed(left)
           n == Cardinality(S)
<1>1. IsFiniteSet(S)
  BY DsAssumption, FS_Subset DEF States!Listed, Listing
<1>2. n \in Nat
  BY <1>1, FS_CardinalityType
<1>3. IsFiniteSet(1..n) /\ Cardinality(1..n) = n
  BY <1>2, FS_Interval
<1>4. list \in [1..n -> S] /\ \A i \in S : \E k \in DOMAIN list : list[k] = i
  BY DEF Reordered
<1> HIDE DEF S, n
<1>5. list \in Surjection(1..n, S)
  BY <1>4 DEF Surjection
<1>6. Cardinality(1..n) = Cardinality(S)
  BY <1>3 DEF n
<1>7. list \in Injection(1..n, S)
  BY <1>3, <1>5, <1>6, FS_SurjSameCardinalityImpliesInj
<1>8. \A j, k \in 1..n : list[j] = list[k] => j = k
  BY <1>7 DEF Injection, IsInjective
<1> QED BY <1>4, <1>8 DEF Distinct

LEMMA OutcomeTyped ==
  ASSUME Outside, DsInv', NEW o, ApplyOutcome(o)
  PROVE  Outside'
<1>1. subs' = o.subs /\ o.subs \in Listing /\ order' \in Reordered(o.subs)
  BY DEF ApplyOutcome, DsInv, DsTyped
<1>2. Distinct(order')
  BY <1>1, EachOnce
<1>3. timers' \in Nat
  <2>1. \A ret, handle : Refused(ret, handle) => timers' \in {timers, timers + 1}
    BY DEF Refused
  <2>2. ApplyRequest(o) => timers' \in {timers, timers + 1}
    BY <2>1 DEF ApplyRequest
  <2>3. ApplyOther(o) => timers' = timers
    BY DEF ApplyOther
  <2> QED BY <2>2, <2>3 DEF Outside, ApplyOutcome
<1>4. conn' \in [ID -> {"idle", "asked", "open", "closing"}]
  BY DEF Outside, ApplyOutcome, ModemTold
<1> QED BY <1>2, <1>3, <1>4 DEF Outside, ApplyOutcome

\* A connection leaves agnss_nif, and others may be ended with it.
HasLeft(i) ==
  \E also \in SUBSET ID :
    /\ Atl!Leave(i, also) /\ atl'[i] = "idle"
    /\ conn' = [j \in ID |-> IF j = i \/ (j \in also /\ conn[j] # "closing")
                            THEN "idle" ELSE conn[j]]

LEMMA LeftTyped ==
  ASSUME Outside, NEW i, HasLeft(i)
  PROVE  /\ atl' \in [ID -> {"idle", "asked", "open"}] /\ atlHeld' \in BOOLEAN
         /\ conn' \in [ID -> {"idle", "asked", "open", "closing"}]
<1>1. PICK also \in SUBSET ID :
        /\ Atl!Leave(i, also) /\ atl'[i] = "idle"
        /\ conn' = [j \in ID |-> IF j = i \/ (j \in also /\ conn[j] # "closing")
                                THEN "idle" ELSE conn[j]]
  BY DEF HasLeft
<1>2. PICK next \in {"idle", "closing"} :
        atl' = [j \in ID |-> IF j \in also THEN "idle" ELSE IF j = i THEN next ELSE atl[j]]
  BY <1>1 DEF Atl!Leave
<1>3. \A j \in ID : atl'[j] \in {"idle", "asked", "open"}
  BY <1>1, <1>2 DEF Outside
<1>4. atlHeld' \in BOOLEAN
  BY <1>1 DEF Atl!Leave, Outside
<1> QED BY <1>1, <1>2, <1>3, <1>4 DEF Outside

LEMMA OutsideKeeps ==
  ASSUME Outside, DsInv', [DsNext]_dsVars
  PROVE  Outside'
<1>1. CASE UNCHANGED dsVars
  BY <1>1 DEF dsVars, Outside
<1>2. CASE RequestSuplEs \/ SuplEsOpened \/ SuplEsClosed
  <2>1. PICK o : ApplyOutcome(o)
    BY <1>2 DEF RequestSuplEs, SuplEsOpened, SuplEsClosed
  <2> QED BY <2>1, OutcomeTyped
<1>3. CASE ReleaseATL
  <2> DEFINE i == Head(dsMsgs).id
  <2>1. \/ HasLeft(i) /\ UNCHANGED <<order, timers>>
        \/ ApplyOutcome(States!OnRsrcEvent(mState, "UNSUBSCRIBE", subs, i))
        \/ conn' = [conn EXCEPT ![i] = "idle"] /\ UNCHANGED <<order, timers, atl, atlHeld>>
    BY <1>3 DEF ReleaseATL, HasLeft
  <2> HIDE DEF i
  <2>2. CASE HasLeft(i) /\ UNCHANGED <<order, timers>>
    BY <2>2, LeftTyped DEF Outside
  <2>3. CASE ApplyOutcome(States!OnRsrcEvent(mState, "UNSUBSCRIBE", subs, i))
    BY <2>3, OutcomeTyped
  <2>4. CASE conn' = [conn EXCEPT ![i] = "idle"] /\ UNCHANGED <<order, timers, atl, atlHeld>>
    BY <2>4 DEF Outside
  <2> QED BY <2>1, <2>2, <2>3, <2>4
<1>4. CASE RequestATL
  <2> DEFINE i == Head(dsMsgs).id
  <2>1. /\ Atl!Request(i) \/ UNCHANGED <<atl, atlHeld>>
        /\ conn' = conn \/ conn' = [conn EXCEPT ![i] = "open"]
        /\ UNCHANGED <<order, timers>>
    BY <1>4 DEF RequestATL
  <2> HIDE DEF i
  <2>2. conn' \in [ID -> {"idle", "asked", "open", "closing"}]
    BY <2>1 DEF Outside
  <2>3. atl' \in [ID -> {"idle", "asked", "open"}] /\ atlHeld' \in BOOLEAN
    BY <2>1 DEF Outside, Atl!Request
  <2> QED BY <2>1, <2>2, <2>3 DEF Outside
<1>5. CASE RetryCallback
  BY <1>5 DEF RetryCallback, Outside
<1>6. ASSUME NEW i \in ID, ModemRequests(i) \/ ModemReleases(i)
      PROVE  Outside'
  BY <1>6 DEF ModemRequests, ModemReleases, Machine, Outside
<1>7. CASE CallOpened \/ CallFailed \/ CallDropped \/ CallStopped
  <2>1. UNCHANGED <<Machine, conn, atl, atlHeld>>
    BY <1>7 DEF CallOpened, CallFailed, CallDropped, CallStopped, ServiceReports
  <2> QED BY <2>1 DEF Machine, Outside
<1>8. CASE AtlGranted
  <2>1. /\ atl' = [i \in ID |-> IF atl[i] = "asked" THEN "open" ELSE atl[i]] /\ atlHeld' = TRUE
        /\ conn' = [i \in ID |-> IF atl[i] = "asked" /\ conn[i] # "closing" THEN "open" ELSE conn[i]]
        /\ UNCHANGED <<order, timers>>
    BY <1>8 DEF AtlGranted, Atl!Grant, Machine
  <2> QED BY <2>1 DEF Outside
<1>9. CASE AtlEnded
  <2>1. /\ atl' = [i \in ID |-> "idle"] /\ atlHeld' = FALSE
        /\ conn' = [i \in ID |-> IF atl[i] # "idle" /\ conn[i] # "closing" THEN "idle" ELSE conn[i]]
        /\ UNCHANGED <<order, timers>>
    BY <1>9 DEF AtlEnded, Atl!End, Atl!AllIdle, Machine
  <2> QED BY <2>1 DEF Outside
<1> QED BY <1>1, <1>2, <1>3, <1>4, <1>5, <1>6, <1>7, <1>8, <1>9 DEF DsNext

\* Every reachable state is well typed, and no subscriber is listed twice
\* (linked_list_add is only called for one that a search did not find).
THEOREM DsTypes == DsSpec => []DsTypeOK
<1>1. DsInit => Outside
  <2> SUFFICES ASSUME DsInit PROVE Outside
    OBVIOUS
  <2>1. Distinct(order)
    BY DEF DsInit, Distinct
  <2>2. atl = [i \in ID |-> "idle"] /\ atlHeld = FALSE
    BY DEF DsInit, Atl!Init, Atl!AllIdle
  <2> QED BY <2>1, <2>2 DEF DsInit, Outside
<1>2. DsInv /\ Outside => DsTypeOK
  BY DEF DsInv, DsTyped, ListIs, Listing, Outside, Distinct, DsTypeOK
<1>3. DsInv /\ DsInv' /\ Outside /\ [DsNext]_dsVars => Outside'
  BY OutsideKeeps
<1> QED BY DsInvariant, <1>1, <1>2, <1>3, PTL DEF DsSpec

-----------------------------------------------------------------------------
(* The daemons' server.                                                    *)

\* Where the launch, the thread and the pipes are together.
LaunchInv ==
  /\ launcher = "idle" => thread = "none"
  /\ thread \in {"none", "init", "ended"} => pipes = {}
  /\ pipes \subseteq Pipe
  /\ launcher \in {"locking", "asleep"} /\ ~creator.works => creator.by = "create_thread_cb"
  /\ launcher \in {"locking", "asleep"} /\ creator.works => thread # "none"
  /\ creator \in [by : {"create_thread_cb", "pthread_create"}, works : BOOLEAN]
  /\ thread \in {"none", "init", "ready", "proc", "post", "ended"}
  /\ thread_ready \in BOOLEAN /\ thread_exit \in BOOLEAN
  /\ thread_ready <=> thread \in {"proc", "post", "ended"}
  /\ thread_exit => thread \in {"post", "ended"}
  /\ LaunchWaits

\* The pipe and the requests, and that what waits are the next valid ones.
PipeEntry == [msg : Wire, nth : Nat]
PipeTyped ==
  /\ inbox \in Seq(PipeEntry)
  /\ forwarded \in Seq(Wire) /\ wellFormed \in Seq(Wire)
Prefix ==
  /\ Len(forwarded) <= Len(wellFormed)
  /\ \A k \in DOMAIN forwarded : forwarded[k] = wellFormed[k]
NextOnes ==
  /\ \A k \in DOMAIN inbox :
       /\ UpTo(k) <= Len(wellFormed)
       /\ IF Valid(inbox[k].msg)
          THEN UpTo(k) = UpTo(k - 1) + 1 /\ wellFormed[UpTo(k)] = inbox[k].msg
          ELSE UpTo(k) = UpTo(k - 1)
  /\ UpTo(Len(inbox)) = Len(wellFormed)

ServerInv == LaunchInv /\ PipeTyped /\ Prefix /\ (thread # "ended" => NextOnes)

LEMMA ServerInitHolds == ServerInit => ServerInv
<1> SUFFICES ASSUME ServerInit PROVE ServerInv
  OBVIOUS
<1>1. LaunchInv
  BY DEF ServerInit, LaunchInv, LaunchWaits
<1>2. PipeTyped /\ Prefix /\ NextOnes
  BY DEF ServerInit, PipeTyped, Prefix, NextOnes, UpTo
<1> QED BY <1>1, <1>2 DEF ServerInv

\* Steps that leave the pipe alone.
LEMMA PipeAlone ==
  ASSUME ServerInv, LaunchInv', UNCHANGED <<inbox, forwarded, wellFormed>>,
         thread' # "ended" => thread # "ended"
  PROVE  ServerInv'
<1>1. PipeTyped' /\ Prefix'
  BY DEF ServerInv, PipeTyped, Prefix
<1>2. NextOnes => NextOnes'
  BY DEF NextOnes, UpTo
<1> QED BY <1>1, <1>2 DEF ServerInv

LEMMA LaunchKeeps ==
  ASSUME ServerInv, \/ Launch \/ thelper_signal_wait \/ SpuriousWakeup
                    \/ loc_api_server_proc_init \/ thelper_signal_ready
  PROVE  ServerInv'
<1>1. LaunchInv'
  <2>1. CASE Launch
    BY <2>1 DEF ServerInv, LaunchInv, LaunchWaits, Launch
  <2>2. CASE thelper_signal_wait
    BY <2>2 DEF ServerInv, LaunchInv, LaunchWaits, thelper_signal_wait
  <2>3. CASE SpuriousWakeup
    BY <2>3 DEF ServerInv, LaunchInv, LaunchWaits, SpuriousWakeup
  <2>4. CASE loc_api_server_proc_init
    BY <2>4 DEF ServerInv, LaunchInv, LaunchWaits, loc_api_server_proc_init, helper
  <2>5. CASE thelper_signal_ready
    BY <2>5 DEF ServerInv, LaunchInv, LaunchWaits, thelper_signal_ready
  <2> QED BY <2>1, <2>2, <2>3, <2>4, <2>5
<1>2. /\ UNCHANGED <<inbox, forwarded, wellFormed>>
      /\ thread' # "ended" => thread # "ended"
  BY DEF ServerInv, LaunchInv, Launch, thelper_signal_wait, SpuriousWakeup,
         loc_api_server_proc_init, thelper_signal_ready, daemon
<1> QED BY <1>1, <1>2, PipeAlone

\* A message joins the pipe with the number of valid ones up to it.
LEMMA WriteKeeps ==
  ASSUME ServerInv, NEW m \in Wire, Write(m)
  PROVE  ServerInv'
<1>0. PICK n \in Nat, w \in Nat : n = Len(inbox) /\ w = Len(wellFormed)
  BY DEF ServerInv, PipeTyped
<1>1. LaunchInv' /\ thread # "ended" /\ UNCHANGED <<forwarded, thread>>
  BY <1>0 DEF ServerInv, LaunchInv, LaunchWaits, Write, helper
<1>2. /\ wellFormed' \in Seq(Wire) /\ w \in Nat /\ Len(wellFormed') >= w
      /\ \A k \in 1..w : wellFormed'[k] = wellFormed[k]
      /\ IF Valid(m) THEN Len(wellFormed') = w + 1 /\ wellFormed'[w + 1] = m
         ELSE Len(wellFormed') = w
  BY <1>0 DEF Write, ServerInv, PipeTyped
<1>3. /\ inbox' = Append(inbox, [msg |-> m, nth |-> Len(wellFormed')])
      /\ [msg |-> m, nth |-> Len(wellFormed')] \in PipeEntry
  BY <1>0, <1>2 DEF Write, PipeEntry
<1>4. /\ inbox' \in Seq(PipeEntry) /\ n \in Nat /\ Len(inbox') = n + 1
      /\ \A k \in 1..n : inbox'[k] = inbox[k]
      /\ inbox'[n + 1].msg = m /\ inbox'[n + 1].nth = Len(wellFormed')
  BY <1>0, <1>3 DEF ServerInv, PipeTyped
<1>5. /\ \A k \in 0..n : UpTo(k)' = UpTo(k) /\ UpTo(k) \in Nat
      /\ UpTo(n + 1)' = Len(wellFormed') /\ UpTo(n) = w
  <2>1. \A k \in 1..n : inbox[k].nth \in Nat
    <3>1. \A k \in 1..n : inbox[k] \in PipeEntry
      BY <1>0 DEF ServerInv, PipeTyped
    <3> QED BY <1>0, <3>1 DEF PipeEntry
  <2>2. Len(forwarded) \in Nat
    BY <1>0 DEF ServerInv, PipeTyped
  <2>3. \A k \in 0..n : UpTo(k) \in Nat
    BY <1>0, <1>4, <2>1, <2>2 DEF UpTo
  <2>4. \A k \in 0..n : UpTo(k)' = UpTo(k)
    BY <1>0, <1>1, <1>4 DEF UpTo
  <2>5. UpTo(n + 1)' = Len(wellFormed')
    BY <1>0, <1>4 DEF UpTo
  <2>6. UpTo(n) = w
    BY <1>0, <1>1 DEF ServerInv, NextOnes
  <2> QED BY <1>0, <2>3, <2>4, <2>5, <2>6
<1>6. Prefix'
  <2>1. forwarded \in Seq(Wire) /\ Prefix
    BY DEF ServerInv, PipeTyped
  <2>2. \A k \in DOMAIN forwarded : k \in 1..w /\ forwarded[k] = wellFormed[k]
    BY <1>0, <2>1 DEF Prefix
  <2>3. Len(forwarded) <= Len(wellFormed')
    BY <1>0, <1>2, <2>1 DEF Prefix
  <2> QED BY <1>1, <1>2, <2>2, <2>3 DEF Prefix
<1>7. ASSUME NEW k \in 1..n
      PROVE  /\ UpTo(k)' <= Len(wellFormed')
             /\ IF Valid(inbox'[k].msg)
                THEN UpTo(k)' = UpTo(k - 1)' + 1 /\ wellFormed'[UpTo(k)'] = inbox'[k].msg
                ELSE UpTo(k)' = UpTo(k - 1)'
  <2>1. k \in DOMAIN inbox /\ k - 1 \in 0..n /\ k \in 0..n
    BY <1>0, <1>4 DEF ServerInv, PipeTyped
  <2>2. /\ UpTo(k) <= w
        /\ IF Valid(inbox[k].msg)
           THEN UpTo(k) = UpTo(k - 1) + 1 /\ wellFormed[UpTo(k)] = inbox[k].msg
           ELSE UpTo(k) = UpTo(k - 1)
    BY <1>0, <1>1, <2>1 DEF ServerInv, NextOnes
  <2>3. UpTo(k)' = UpTo(k) /\ UpTo(k - 1)' = UpTo(k - 1) /\ inbox'[k] = inbox[k]
        /\ UpTo(k) \in Nat /\ UpTo(k - 1) \in Nat
    BY <1>4, <1>5, <2>1
  <2>4. Valid(inbox[k].msg) => UpTo(k) \in 1..w
    BY <1>0, <2>2, <2>3
  <2> QED BY <1>0, <1>2, <2>2, <2>3, <2>4
<1>8. IF Valid(inbox'[n + 1].msg)
      THEN UpTo(n + 1)' = UpTo(n)' + 1 /\ wellFormed'[UpTo(n + 1)'] = inbox'[n + 1].msg
      ELSE UpTo(n + 1)' = UpTo(n)'
  <2>1. n \in 0..n /\ UpTo(n)' = w
    BY <1>0, <1>4, <1>5
  <2> QED BY <1>0, <1>2, <1>4, <1>5, <2>1
<1>9. NextOnes'
  <2>1. DOMAIN inbox' = 1..(n + 1) /\ Len(inbox') = n + 1 /\ (n + 1) - 1 = n
    BY <1>0, <1>4
  <2>2. UpTo(n + 1)' <= Len(wellFormed')
    BY <1>0, <1>2, <1>5
  <2>3. \A k \in 1..(n + 1) : k \in 1..n \/ k = n + 1
    BY <1>0, <1>4
  <2> QED BY <1>0, <1>5, <1>7, <1>8, <2>1, <2>2, <2>3 DEF NextOnes
<1> QED BY <1>0, <1>1, <1>2, <1>4, <1>6, <1>9 DEF ServerInv, PipeTyped

\* The head is handed on if it is valid: it was the next one.
LEMMA ProcKeeps ==
  ASSUME ServerInv, loc_api_server_proc, Requests \in pipes
  PROVE  ServerInv'
<1>0. PICK n, f, m : n = Len(inbox) /\ f = Len(forwarded) /\ m = Head(inbox).msg
  BY DEF ServerInv, PipeTyped
<1>1. /\ thread = "proc" /\ thread' \in {"proc", "post"} /\ NextOnes
      /\ wellFormed' = wellFormed /\ inbox # << >> /\ inbox' = Tail(inbox)
  BY <1>0 DEF loc_api_server_proc, thelper_main, ServerInv, daemon
<1>2. LaunchInv'
  BY <1>0, <1>1 DEF ServerInv, LaunchInv, LaunchWaits, loc_api_server_proc, thelper_main
<1>3. forwarded' = IF Valid(m) THEN Append(forwarded, m) ELSE forwarded
  BY <1>0 DEF loc_api_server_proc, Handle, msgrcv, Valid
<1>4. /\ n \in Nat /\ n >= 1 /\ DOMAIN inbox = 1..n /\ m = inbox[1].msg /\ m \in Wire
      /\ inbox' \in Seq(PipeEntry) /\ Len(inbox') = n - 1
      /\ DOMAIN inbox' = 1..(n - 1)
      /\ \A k \in 1..(n - 1) : inbox'[k] = inbox[k + 1]
  <2>1. inbox \in Seq(PipeEntry)
    BY <1>0 DEF ServerInv, PipeTyped
  <2>2. inbox[1] \in PipeEntry /\ m = inbox[1].msg
    BY <1>0, <1>1, <2>1
  <2>3. m \in Wire
    BY <1>0, <2>2 DEF PipeEntry
  <2> QED BY <1>0, <1>1, <2>1, <2>2, <2>3
<1>5. /\ f \in Nat /\ forwarded' \in Seq(Wire)
      /\ \A k \in 1..f : forwarded'[k] = forwarded[k]
      /\ IF Valid(m) THEN Len(forwarded') = f + 1 /\ forwarded'[f + 1] = m
         ELSE Len(forwarded') = f
  BY <1>0, <1>3, <1>4 DEF ServerInv, PipeTyped
<1>6. /\ UpTo(1) <= Len(wellFormed)
      /\ IF Valid(m) THEN UpTo(1) = f + 1 /\ wellFormed[UpTo(1)] = m ELSE UpTo(1) = f
  <2>1. UpTo(1 - 1) = f
    BY <1>0 DEF UpTo
  <2>2. 1 \in DOMAIN inbox
    BY <1>0, <1>4
  <2>3. /\ UpTo(1) <= Len(wellFormed)
        /\ IF Valid(inbox[1].msg)
           THEN UpTo(1) = UpTo(1 - 1) + 1 /\ wellFormed[UpTo(1)] = inbox[1].msg
           ELSE UpTo(1) = UpTo(1 - 1)
    BY <1>0, <1>1, <2>2 DEF NextOnes
  <2> QED BY <1>0, <1>4, <2>1, <2>3
<1>7. Prefix'
  <2>1. forwarded \in Seq(Wire) /\ Prefix /\ Len(wellFormed) \in Nat
    BY DEF ServerInv, PipeTyped
  <2>2. f <= Len(wellFormed) /\ \A k \in 1..f : forwarded'[k] = wellFormed[k]
    BY <1>0, <1>5, <2>1 DEF Prefix
  <2>3. DOMAIN forwarded' = 1..Len(forwarded')
    BY <1>5
  <2>4. CASE Valid(m)
    <3>1. Len(forwarded') <= Len(wellFormed) /\ forwarded'[f + 1] = wellFormed[f + 1]
      BY <1>5, <1>6, <2>4
    <3>2. \A k \in 1..Len(forwarded') : k \in 1..f \/ k = f + 1
      BY <1>0, <1>5, <2>4
    <3> QED BY <1>1, <2>2, <2>3, <3>1, <3>2 DEF Prefix
  <2>5. CASE ~Valid(m)
    BY <1>1, <1>5, <2>2, <2>3, <2>5 DEF Prefix
  <2> QED BY <2>4, <2>5
<1>8. \A k \in 0..(n - 1) : UpTo(k)' = UpTo(k + 1)
  BY <1>0, <1>4, <1>5, <1>6 DEF UpTo
<1>9. NextOnes'
  <2>1. ASSUME NEW k \in 1..(n - 1)
        PROVE  /\ UpTo(k)' <= Len(wellFormed')
               /\ IF Valid(inbox'[k].msg)
                  THEN UpTo(k)' = UpTo(k - 1)' + 1 /\ wellFormed'[UpTo(k)'] = inbox'[k].msg
                  ELSE UpTo(k)' = UpTo(k - 1)'
    <3>1. /\ k + 1 \in 1..n /\ (k + 1) - 1 = k /\ (k - 1) + 1 = k
          /\ k \in 0..(n - 1) /\ k - 1 \in 0..(n - 1)
      BY <1>4
    <3>2. /\ UpTo(k + 1) <= Len(wellFormed)
          /\ IF Valid(inbox[k + 1].msg)
             THEN UpTo(k + 1) = UpTo(k) + 1 /\ wellFormed[UpTo(k + 1)] = inbox[k + 1].msg
             ELSE UpTo(k + 1) = UpTo(k)
      BY <1>0, <1>1, <1>4, <3>1 DEF NextOnes
    <3>3. UpTo(k)' = UpTo(k + 1) /\ UpTo(k - 1)' = UpTo(k)
      BY <1>0, <1>8, <3>1
    <3> QED BY <1>0, <1>1, <1>4, <3>2, <3>3
  <2>2. UpTo(n - 1)' = Len(wellFormed')
    <3>1. n - 1 \in 0..(n - 1) /\ (n - 1) + 1 = n
      BY <1>4
    <3> QED BY <1>0, <1>1, <1>8, <3>1 DEF NextOnes
  <2> QED BY <1>0, <1>4, <2>1, <2>2 DEF NextOnes
<1> QED BY <1>0, <1>1, <1>2, <1>4, <1>5, <1>7, <1>9 DEF ServerInv, PipeTyped

\* A server whose request pipe is not open ends without a request.
LEMMA UnopenedEnds ==
  ASSUME ServerInv, loc_api_server_proc, Requests \notin pipes
  PROVE  ServerInv'
<1>1. /\ thread = "proc" /\ thread' = "post" /\ thread_exit' = TRUE
      /\ UNCHANGED <<launcher, creator, thread_ready, spurious, pipes, inbox, forwarded, wellFormed>>
  BY DEF loc_api_server_proc, msgrcv, thelper_main, daemon
<1>2. LaunchInv'
  BY <1>1 DEF ServerInv, LaunchInv, LaunchWaits
<1> QED BY <1>1, <1>2, PipeAlone

LEMMA ServerStep ==
  ASSUME ServerInv, [ServerNext]_serverVars
  PROVE  ServerInv'
<1>1. CASE UNCHANGED serverVars
  <2>1. LaunchInv'
    BY <1>1 DEF serverVars, ServerInv, LaunchInv, LaunchWaits
  <2> QED BY <1>1, <2>1, PipeAlone DEF serverVars
<1>2. CASE loc_api_server_proc_post
  <2>1. LaunchInv' /\ thread' = "ended" /\ inbox' = << >> /\ UNCHANGED <<forwarded, wellFormed>>
    BY <1>2 DEF loc_api_server_proc_post, helper, daemon, ServerInv, LaunchInv, LaunchWaits
  <2> QED BY <2>1 DEF ServerInv, PipeTyped, Prefix
<1>3. CASE ReqRel \/ \E s \in Sender : Notify(s) \/ Read(s)
  <2>1. /\ UNCHANGED <<launcher, creator, thread, thread_ready, thread_exit, spurious, pipes>>
        /\ UNCHANGED <<inbox, forwarded, wellFormed>>
    BY <1>3 DEF ReqRel, Notify, Read, helper, daemon
  <2>2. LaunchInv'
    BY <2>1 DEF ServerInv, LaunchInv, LaunchWaits
  <2> QED BY <2>1, <2>2, PipeAlone
<1> QED BY <1>1, <1>2, <1>3, LaunchKeeps, WriteKeeps, ProcKeeps, UnopenedEnds DEF ServerNext

\* Whatever the daemons write and when, however the thread is created and ends:
\* the launch returns once the pipes were tried, unless nobody was created to
\* wake it, and each valid request reaches the message task once and in order.
THEOREM DaemonsAreServed == ServerSpec => []DaemonsServed
<1>1. ServerInv => DaemonsServed
  BY DEF ServerInv, LaunchInv, Prefix, NextOnes, DaemonsServed, RequestsForwarded
<1> QED BY ServerInitHolds, ServerStep, <1>1, PTL DEF ServerSpec

\* The launcher, the message task and the pipes of the answers, whose type the
\* bound on them needs.
Status == {"REQUEST_SUCCESS", "FAILURE", "RELEASE_SUCCESS"}
PipesFit == outbox \in [Sender -> Seq(Status)] /\ \A s \in Sender : Len(outbox[s]) <= MaxPipe
Answered ==
  /\ launcher \in {"idle", "locking", "asleep", "returned"} /\ lost \in BOOLEAN
  /\ accepted \in 0..Len(forwarded)
  /\ PipesFit

\* The writer of a pipe waits for room in it.
LEMMA AnswerFits ==
  ASSUME Answered, NEW s \in Sender, NEW status \in Status, data_conn(s, status)
  PROVE  lost' \in BOOLEAN /\ PipesFit'
<1>1. CASE s \notin pipes
  BY <1>1 DEF Answered, PipesFit, data_conn
<1>2. CASE s \in pipes
  <2>1. /\ Len(outbox[s]) < MaxPipe /\ outbox' = [outbox EXCEPT ![s] = Append(outbox[s], status)]
        /\ lost' = lost
    BY <1>2 DEF data_conn
  <2>2. /\ outbox[s] \in Seq(Status) /\ Append(outbox[s], status) \in Seq(Status)
        /\ Len(Append(outbox[s], status)) = Len(outbox[s]) + 1 /\ Len(outbox[s]) \in Nat
    BY DEF Answered, PipesFit
  <2>3. Len(Append(outbox[s], status)) <= MaxPipe
    BY <2>1, <2>2, ServerAssumption
  <2> QED BY <2>1, <2>2, <2>3 DEF Answered, PipesFit
<1> QED BY <1>1, <1>2

LEMMA AnswersKeep ==
  ASSUME ServerInv, Answered, [ServerNext]_serverVars
  PROVE  Answered'
<1>1. forwarded \in Seq(Wire)
  BY DEF ServerInv, PipeTyped
<1>2. CASE UNCHANGED serverVars \/ Launch \/ thelper_signal_wait \/ SpuriousWakeup
           \/ loc_api_server_proc_init \/ thelper_signal_ready \/ loc_api_server_proc_post
  <2>1. UNCHANGED <<forwarded, accepted, outbox, lost>>
    BY <1>2 DEF serverVars, Launch, thelper_signal_wait, SpuriousWakeup, loc_api_server_proc_init,
                thelper_signal_ready, loc_api_server_proc_post, task
  <2>2. launcher' \in {"idle", "locking", "asleep", "returned"}
    BY <1>2 DEF serverVars, Launch, thelper_signal_wait, SpuriousWakeup, loc_api_server_proc_init,
                thelper_signal_ready, loc_api_server_proc_post, helper, Answered
  <2> QED BY <2>1, <2>2 DEF Answered, PipesFit
<1>3. CASE loc_api_server_proc
  <2>1. UNCHANGED <<launcher, accepted, outbox, lost>>
    BY <1>3 DEF loc_api_server_proc, task
  <2>2. forwarded' = forwarded \/ \E m \in Wire : forwarded' = Append(forwarded, m)
    <3>1. CASE msgrcv
      <4>1. inbox \in Seq(PipeEntry) /\ inbox # << >>
        BY <1>3, <3>1 DEF loc_api_server_proc, msgrcv, ServerInv, PipeTyped
      <4>2. Head(inbox) \in PipeEntry
        BY <4>1
      <4>3. Head(inbox).msg \in Wire
        BY <4>2 DEF PipeEntry
      <4> QED BY <1>3, <3>1, <4>3 DEF loc_api_server_proc, Handle
    <3>2. CASE ~msgrcv
      BY <1>3, <3>2 DEF loc_api_server_proc
    <3> QED BY <3>1, <3>2
  <2>3. Len(forwarded') \in {Len(forwarded), Len(forwarded) + 1} /\ Len(forwarded) \in Nat
    BY <1>1, <2>2
  <2>4. accepted' \in 0..Len(forwarded')
    BY <2>1, <2>3 DEF Answered
  <2> QED BY <2>1, <2>4 DEF Answered, PipesFit
<1>4. CASE ReqRel
  <2> DEFINE m == forwarded[accepted + 1]
  <2>1. /\ accepted < Len(forwarded) /\ accepted' = accepted + 1
        /\ UNCHANGED <<launcher, forwarded>>
        /\ \/ Untold
           \/ data_conn(m.sender, "RELEASE_SUCCESS") /\ m.sender = GPSONE_DAEMON
    BY <1>4 DEF ReqRel, helper, LocEngReqRelBIT, LocEngReqRelWifi
  <2> HIDE DEF m
  <2>2. accepted' \in 0..Len(forwarded')
    BY <1>1, <2>1 DEF Answered
  <2>3. GPSONE_DAEMON \in Sender /\ "RELEASE_SUCCESS" \in Status
    BY DEF Sender, Status
  <2>4. Untold => lost' \in BOOLEAN /\ PipesFit'
    BY DEF Answered, PipesFit, Untold
  <2>5. data_conn(GPSONE_DAEMON, "RELEASE_SUCCESS") => lost' \in BOOLEAN /\ PipesFit'
    BY <2>3, AnswerFits
  <2> QED BY <2>1, <2>2, <2>4, <2>5 DEF Answered
<1>5. ASSUME NEW s \in Sender, Notify(s)
      PROVE  Answered'
  <2>1. /\ UNCHANGED <<launcher, forwarded, accepted>>
        /\ \/ data_conn(s, "REQUEST_SUCCESS")
           \/ \E status \in {"FAILURE", "RELEASE_SUCCESS"} : data_conn(s, status)
    BY <1>5 DEF Notify, helper
  <2>2. \A status \in Status : data_conn(s, status) => lost' \in BOOLEAN /\ PipesFit'
    BY AnswerFits
  <2>3. "REQUEST_SUCCESS" \in Status /\ {"FAILURE", "RELEASE_SUCCESS"} \subseteq Status
    BY DEF Status
  <2>4. lost' \in BOOLEAN /\ PipesFit'
    BY <2>1, <2>2, <2>3, Zenon
  <2> QED BY <2>1, <2>4 DEF Answered
<1>6. ASSUME NEW s \in Sender, Read(s)
      PROVE  Answered'
  <2>1. /\ UNCHANGED <<launcher, forwarded, accepted, lost>>
        /\ outbox[s] # << >> /\ outbox' = [outbox EXCEPT ![s] = Tail(outbox[s])]
    BY <1>6 DEF Read, helper
  <2>2. /\ Tail(outbox[s]) \in Seq(Status) /\ Len(Tail(outbox[s])) = Len(outbox[s]) - 1
        /\ Len(outbox[s]) \in Nat
    BY <2>1 DEF Answered, PipesFit
  <2>3. Len(Tail(outbox[s])) <= MaxPipe
    BY <2>2, ServerAssumption DEF Answered, PipesFit
  <2> QED BY <2>1, <2>2, <2>3 DEF Answered, PipesFit
<1>7. ASSUME NEW m \in Wire, Write(m)
      PROVE  Answered'
  BY <1>7 DEF Write, helper, task, Answered, PipesFit
<1> QED BY <1>2, <1>3, <1>4, <1>5, <1>6, <1>7 DEF ServerNext

\* Every reachable state is well typed: no pipe of answers is overfilled, and
\* the message task handles only what was handed to it.
THEOREM ServerTypes == ServerSpec => []ServerTypeOK
<1>1. ServerInit => Answered
  <2> SUFFICES ASSUME ServerInit PROVE Answered
    OBVIOUS
  <2>1. outbox = [s \in Sender |-> << >>]
    BY DEF ServerInit
  <2>2. PipesFit
    <3>1. << >> \in Seq(Status) /\ Len(<< >>) = 0
      OBVIOUS
    <3>2. outbox \in [Sender -> Seq(Status)] /\ \A s \in Sender : outbox[s] = << >>
      BY <2>1, <3>1
    <3> QED BY <3>1, <3>2, ServerAssumption DEF PipesFit
  <2>3. accepted \in 0..Len(forwarded)
    BY DEF ServerInit
  <2> QED BY <2>2, <2>3 DEF ServerInit, Answered
<1>2. ServerInv /\ Answered => ServerTypeOK
  BY DEF ServerInv, LaunchInv, Answered, PipesFit, ServerTypeOK
<1> QED BY ServerInitHolds, ServerStep, AnswersKeep, <1>1, <1>2, PTL DEF ServerSpec

-----------------------------------------------------------------------------
(* LocApi and its adapters.                                                *)

\* What waits for the message task.
ApiMsg == [kind : {"LocOpenMsg"}, mask : SUBSET EventBit]
            \cup [kind : {"LocSsrMsg"}, restart : Nat]
            \cup [kind : {"LocEngUp"}, to : Adapter, restart : Nat]
            \cup [kind : {"LocEngDown"}, to : Adapter]

\* What the client thread has still to do.
Pending == {NoCall} \cup [call : {"open"}, mask : SUBSET EventBit]
             \cup [call : {"update", "close"}]
             \cup [call : {"remove", "shorten"}, hole : Nat \ {0}]

\* An adapter is taken out of the middle of the array.
Moving == client.call \in {"remove", "shorten"}

ApiTyped ==
  /\ mLocAdapters \in Seq(Adapter)
  /\ \A i, j \in DOMAIN mLocAdapters : i < j /\ mLocAdapters[i] = mLocAdapters[j] =>
       client = [call |-> "shorten", hole |-> i] /\ j = Len(mLocAdapters)
  /\ Moving => client.hole < Len(mLocAdapters)
  /\ Len(mLocAdapters) <= MaxAdapters
  /\ mEvtMask \in [Adapter -> SUBSET EventBit] /\ registered \subseteq EventBit
  /\ client \in Pending /\ (client.call = "close" => mLocAdapters = << >>)
  /\ msgs \in Seq(ApiMsg) /\ engineUp \in BOOLEAN /\ restarts \in Nat
  /\ reopening \in BOOLEAN
  /\ reopening => msgs # << >> /\ Head(msgs).kind = "LocSsrMsg"

\* The events the queue will yet register: a reopening asks for all that are
\* wanted by then, the handle opened for a new adapter or mask for its own.
Reopens   == \E i \in DOMAIN msgs : msgs[i].kind = "LocSsrMsg"
Opens(e)  == \E i \in DOMAIN msgs : msgs[i].kind = "LocOpenMsg" /\ e \in msgs[i].mask
Begun(e)  == client.call = "update" \/ Moving \/ (client.call = "open" /\ e \in client.mask)

\* While the engine runs, each event wanted is registered or will be.
EventsComing ==
  engineUp => \A e \in getEvtMask : e \in registered \/ Reopens \/ Opens(e) \/ Begun(e)

\* The restarts in the queue follow the last one reopened for, in order; ...
SsrInOrder ==
  \A i \in DOMAIN msgs : msgs[i].kind = "LocSsrMsg" =>
    /\ msgs[i].restart \in renegotiated..restarts
    /\ \A j \in DOMAIN msgs : j > i /\ msgs[j].kind = "LocSsrMsg" => msgs[j].restart >= msgs[i].restart

\* ... the last restart of all is among them, or reopened for; ...
LastReopened ==
  \/ renegotiated = restarts
  \/ \E i \in DOMAIN msgs : msgs[i].kind = "LocSsrMsg" /\ msgs[i].restart = restarts

\* ... and an adapter's message waits behind the reopening for its restart.
UpsBehind ==
  \A i \in DOMAIN msgs : msgs[i].kind = "LocEngUp" =>
    /\ msgs[i].restart <= restarts
    /\ \/ msgs[i].restart <= renegotiated
       \/ \E j \in DOMAIN msgs : /\ j < i /\ msgs[j].kind = "LocSsrMsg"
                                 /\ msgs[j].restart >= msgs[i].restart

Restarted ==
  /\ renegotiated \in 0..restarts /\ told \in [Adapter -> 0..restarts]
  /\ ReopenedFirst /\ SsrInOrder /\ LastReopened /\ UpsBehind

\* A delivery under way: what it gave to whom.
Walking ==
  [event : {"up", "down", "report", "request"}, next : Nat \ {0}, present : Seq(Adapter),
   hole : Nat \ {0}, got : [Adapter -> Nat], handled : BOOLEAN]

\* An adapter in front of every hole is found where it was.
Standing(i) == /\ i \in Visible /\ mLocAdapters[i] = walk.present[i]
               /\ ~walk.handled => walk.got[mLocAdapters[i]] = IF i < walk.next THEN 1 ELSE 0

Delivery ==
  walk # NoWalk =>
    /\ walk \in Walking
    /\ \A i \in DOMAIN walk.present : i < walk.hole => Standing(i)
    /\ Moving => walk.hole <= client.hole
    /\ walk.handled => walk.event = "request" /\ \E a \in supports : walk.got[a] = 1
    /\ walk.event = "request" /\ ~walk.handled => \A a \in supports : walk.got[a] = 0
    /\ walk.event = "request" =>
         \A a, b \in supports : walk.got[a] > 0 /\ walk.got[b] > 0 => a = b

ApiInv == ApiTyped /\ EventsComing /\ Restarted /\ Delivery

LEMMA ApiInitHolds == ApiInit => ApiInv
<1> SUFFICES ASSUME ApiInit PROVE ApiInv
  OBVIOUS
<1>1. ApiTyped
  <2>1. /\ client \in Pending /\ client.call = "idle" /\ msgs \in Seq(ApiMsg)
        /\ mLocAdapters \in Seq(Adapter) /\ DOMAIN mLocAdapters = {} /\ Len(mLocAdapters) = 0
    BY DEF ApiInit, NoCall, Pending
  <2>2. mEvtMask \in [Adapter -> SUBSET EventBit]
    BY DEF ApiInit
  <2>3. Len(mLocAdapters) <= MaxAdapters
    BY <2>1, ApiAssumption
  <2>4. registered = {} /\ engineUp = TRUE /\ restarts = 0 /\ reopening = FALSE
    BY DEF ApiInit
  <2> QED BY <2>1, <2>2, <2>3, <2>4 DEF ApiTyped, Moving
<1>2. EventsComing
  BY DEF ApiInit, EventsComing, getEvtMask, Visible, NoCall
<1>3. Restarted
  BY DEF ApiInit, Restarted, ReopenedFirst, SsrInOrder, LastReopened, UpsBehind
<1>4. Delivery
  BY DEF ApiInit, Delivery
<1> QED BY <1>1, <1>2, <1>3, <1>4 DEF ApiInv

-----------------------------------------------------------------------------
(* The queue.                                                              *)

\* A message at its end.
LEMMA ApiQueued ==
  ASSUME NEW s \in Seq(ApiMsg), NEW m \in ApiMsg, NEW s2, s2 = Append(s, m)
  PROVE  /\ s2 \in Seq(ApiMsg) /\ Len(s2) = Len(s) + 1
         /\ DOMAIN s2 = 1..(Len(s) + 1) /\ DOMAIN s = 1..Len(s)
         /\ \A i \in DOMAIN s : s2[i] = s[i] /\ i \in DOMAIN s2
         /\ s2[Len(s) + 1] = m /\ Len(s) \in Nat
         /\ s # << >> => s2 # << >> /\ Head(s2) = Head(s)
  OBVIOUS

\* The first one taken.
LEMMA ApiTaken ==
  ASSUME NEW s \in Seq(ApiMsg), s # << >>, NEW s2, s2 = Tail(s)
  PROVE  /\ s2 \in Seq(ApiMsg) /\ Len(s) \in Nat \ {0} /\ Len(s2) = Len(s) - 1
         /\ DOMAIN s = 1..Len(s) /\ DOMAIN s2 = 1..(Len(s) - 1)
         /\ \A i \in DOMAIN s2 : s2[i] = s[i + 1] /\ i + 1 \in DOMAIN s
         /\ \A i \in DOMAIN s : i = 1 \/ (i - 1 \in DOMAIN s2 /\ s2[i - 1] = s[i])
         /\ Head(s) = s[1] /\ s[1] \in ApiMsg /\ 1 \in DOMAIN s
  OBVIOUS

\* What is wanted, one event at a time.
LEMMA WantedIs ==
  ASSUME NEW e
  PROVE  e \in getEvtMask <=> /\ e \notin mExcludedMask
                             /\ \E i \in Visible : e \in mEvtMask[mLocAdapters[i]]
  BY DEF getEvtMask

\* The array as far as its first NULL.
LEMMA VisibleIs ==
  ASSUME ApiTyped
  PROVE  /\ Visible \subseteq DOMAIN mLocAdapters
         /\ client.call # "remove" => Visible = DOMAIN mLocAdapters
         /\ Moving => client.hole \in 1..(Len(mLocAdapters) - 1) /\ Len(mLocAdapters) \in Nat
         /\ client.call = "remove" => Visible = 1..(client.hole - 1)
<1>1. Len(mLocAdapters) \in Nat /\ DOMAIN mLocAdapters = 1..Len(mLocAdapters)
  BY DEF ApiTyped
<1>2. Moving => client.hole \in Nat \ {0} /\ client.hole < Len(mLocAdapters)
  BY DEF ApiTyped, Pending, NoCall, Moving
<1> QED BY <1>1, <1>2 DEF Visible, Moving

-----------------------------------------------------------------------------
(* What a step that leaves them alone keeps.                                *)

ApiArray == <<mLocAdapters, mEvtMask, client>>

LEMMA RestartsAlone ==
  ASSUME Restarted, UNCHANGED <<msgs, renegotiated, restarts, told>>
  PROVE  Restarted'
<1>1. ReopenedFirst' /\ SsrInOrder' /\ LastReopened'
  BY DEF Restarted, ReopenedFirst, SsrInOrder, LastReopened
<1>2. UpsBehind'
  BY DEF Restarted, UpsBehind
<1> QED BY <1>1, <1>2 DEF Restarted

LEMMA DeliveryAlone ==
  ASSUME Delivery, UNCHANGED <<walk, mLocAdapters, client>>
  PROVE  Delivery'
<1>1. \A i : Standing(i) => Standing(i)'
  BY DEF Standing, Visible
<1> QED BY <1>1 DEF Delivery, Moving

LEMMA EventsAlone ==
  ASSUME EventsComing, UNCHANGED <<ApiArray, engineUp, registered, msgs>>
  PROVE  EventsComing'
  BY DEF EventsComing, ApiArray, getEvtMask, Visible, Reopens, Opens, Begun, Moving

-----------------------------------------------------------------------------
(* The client's calls.                                                      *)

\* What a call does to a delivery under way that it leaves where it is.
LEMMA DeliveryKept ==
  ASSUME ApiInv, UNCHANGED walk, Moving' => walk = NoWalk \/ walk.hole <= client'.hole,
         \A i \in Visible : walk # NoWalk /\ i < walk.hole =>
           i \in Visible' /\ mLocAdapters'[i] = mLocAdapters[i]
  PROVE  Delivery'
<1>1. CASE walk = NoWalk
  BY <1>1 DEF Delivery
<1>2. CASE walk # NoWalk
  <2>1. \A i \in DOMAIN walk.present : i < walk.hole => Standing(i)'
    BY <1>2 DEF ApiInv, Delivery, Standing
  <2> QED BY <1>2, <2>1 DEF ApiInv, Delivery
<1> QED BY <1>1, <1>2

LEMMA AddKeeps ==
  ASSUME ApiInv, NEW a \in Adapter, NEW mask \in AskedMasks, addAdapter(a, mask)
  PROVE  ApiInv'
<1>1. PICK n \in Nat : n = Len(mLocAdapters) /\ DOMAIN mLocAdapters = 1..n
  BY DEF ApiInv, ApiTyped
<1>2. /\ client = NoCall /\ n < MaxAdapters /\ mEvtMask' = [mEvtMask EXCEPT ![a] = mask]
      /\ mLocAdapters' = Append(mLocAdapters, a) /\ client' = [call |-> "open", mask |-> mask]
      /\ UNCHANGED <<msgs, registered, reopening, renegotiated, told, engineUp, restarts, walk>>
      /\ \A i \in DOMAIN mLocAdapters : mLocAdapters[i] # a
      /\ mask \in SUBSET EventBit
  BY <1>1, ApiAssumption DEF addAdapter, ClientCall, taskVars, engineVars
<1>3. /\ mLocAdapters' \in Seq(Adapter) /\ Len(mLocAdapters') = n + 1
      /\ DOMAIN mLocAdapters' = 1..(n + 1) /\ mLocAdapters'[n + 1] = a
      /\ \A i \in 1..n : mLocAdapters'[i] = mLocAdapters[i] /\ mLocAdapters[i] \in Adapter
  BY <1>1, <1>2 DEF ApiInv, ApiTyped
<1>4. ApiTyped'
  <2>1. client' \in Pending /\ client'.call = "open"
    BY <1>2 DEF Pending
  <2>2. \A i, j \in 1..n : i < j => mLocAdapters[i] # mLocAdapters[j]
    BY <1>1, <1>2 DEF ApiInv, ApiTyped, NoCall
  <2>3. \A i, j \in 1..(n + 1) : i < j => mLocAdapters'[i] # mLocAdapters'[j]
    BY <1>1, <1>2, <1>3, <2>2
  <2>4. n + 1 <= MaxAdapters /\ ~Moving'
    BY <1>1, <1>2, <2>1, ApiAssumption DEF Moving
  <2> QED BY <1>2, <1>3, <2>1, <2>3, <2>4 DEF ApiInv, ApiTyped
<1>5. Visible = 1..n /\ Visible' = 1..(n + 1) /\ ~Moving'
  BY <1>1, <1>2, <1>3 DEF Visible, NoCall, Moving
<1>6. EventsComing'
  <2> SUFFICES ASSUME engineUp', NEW e \in getEvtMask', e \notin mask
               PROVE  e \in registered' \/ Reopens' \/ Opens(e)'
    <3>1. \A e \in mask : Begun(e)'
      BY <1>2 DEF Begun
    <3> QED BY <3>1 DEF EventsComing
  <2>1. PICK i \in 1..(n + 1) : e \in mEvtMask'[mLocAdapters'[i]] /\ e \notin mExcludedMask
    BY <1>5 DEF getEvtMask
  <2>2. mEvtMask'[a] = mask
    BY <1>2 DEF ApiInv, ApiTyped
  <2>3. i \in 1..n /\ mEvtMask'[mLocAdapters'[i]] = mEvtMask[mLocAdapters[i]]
    BY <1>1, <1>2, <1>3, <2>1, <2>2 DEF ApiInv, ApiTyped
  <2>4. e \in getEvtMask
    BY <1>5, <2>1, <2>3, WantedIs
  <2>5. ~Begun(e)
    BY <1>2 DEF Begun, NoCall, Moving
  <2> QED BY <1>2, <2>4, <2>5 DEF ApiInv, EventsComing, Reopens, Opens
<1>7. Delivery'
  BY <1>1, <1>2, <1>3, <1>5, DeliveryKept
<1> QED BY <1>2, <1>4, <1>6, <1>7, RestartsAlone DEF ApiInv

\* Every event of a call whose message is still to come is on its way.
LEMMA EventsUnsent ==
  ASSUME client'.call \in {"update", "remove", "shorten"} \/ mLocAdapters' = << >>
  PROVE  EventsComing'
<1>1. CASE client'.call \in {"update", "remove", "shorten"}
  BY <1>1 DEF EventsComing, Begun, Moving
<1>2. CASE client'.call \notin {"update", "remove", "shorten"}
  BY <1>2 DEF EventsComing, getEvtMask, Visible
<1> QED BY <1>1, <1>2

\* The first step of removeAdapter: a NULL where the adapter stood.
LEMMA RemoveKeeps ==
  ASSUME ApiInv, NEW a \in Adapter, removeAdapter(a)
  PROVE  ApiInv'
<1>1. PICK n \in Nat : n = Len(mLocAdapters) /\ DOMAIN mLocAdapters = 1..n
  BY DEF ApiInv, ApiTyped
<1>2. PICK h \in 1..n :
        /\ IF h = n
           THEN /\ mLocAdapters' = SubSeq(mLocAdapters, 1, h - 1)
                /\ client' = [call |-> IF h = 1 THEN "close" ELSE "update"]
           ELSE client' = [call |-> "remove", hole |-> h] /\ UNCHANGED mLocAdapters
        /\ walk' = IF walk # NoWalk /\ h < walk.hole THEN [walk EXCEPT !.hole = h] ELSE walk
  BY <1>1 DEF removeAdapter
<1>3. /\ client = NoCall
      /\ UNCHANGED <<mEvtMask, msgs, registered, reopening, renegotiated, told, engineUp, restarts>>
  BY DEF removeAdapter, ClientCall, taskVars
<1>4. /\ \A i, j \in 1..n : i < j => mLocAdapters[i] # mLocAdapters[j]
      /\ Visible = 1..n /\ ~Moving
  BY <1>1, <1>3 DEF ApiInv, ApiTyped, NoCall, Visible, Moving
<1>5. /\ ApiTyped'
      /\ Moving' => client'.hole = h
      /\ \A i \in 1..n : i < h => i \in Visible' /\ mLocAdapters'[i] = mLocAdapters[i]
  <2>1. CASE h = n
    <3>0. mLocAdapters' = SubSeq(mLocAdapters, 1, n - 1) /\ n - 1 \in Nat
      BY <1>1, <1>2, <2>1
    <3>1. /\ mLocAdapters' \in Seq(Adapter) /\ Len(mLocAdapters') = n - 1
          /\ DOMAIN mLocAdapters' = 1..(n - 1)
          /\ \A i \in 1..(n - 1) : mLocAdapters'[i] = mLocAdapters[i]
      BY <1>1, <3>0 DEF ApiInv, ApiTyped
    <3>2. /\ client' \in Pending /\ client'.call \in {"close", "update"}
          /\ client'.call = "close" => n = 1
      BY <1>2, <2>1 DEF Pending
    <3>3. ~Moving' /\ Visible' = 1..(n - 1)
      BY <3>1, <3>2 DEF Moving, Visible
    <3>4. n - 1 <= MaxAdapters /\ n <= MaxAdapters /\ (n = 1 => mLocAdapters' = << >>)
      BY <1>1, <3>1, ApiAssumption DEF ApiInv, ApiTyped
    <3>5. \A i, j \in 1..(n - 1) : i < j => mLocAdapters'[i] # mLocAdapters'[j]
      BY <1>1, <1>4, <3>1
    <3>6. ApiTyped'
      BY <1>3, <3>1, <3>2, <3>3, <3>4, <3>5 DEF ApiInv, ApiTyped
    <3> QED BY <2>1, <3>1, <3>3, <3>6
  <2>2. CASE h # n
    <3>1. client' = [call |-> "remove", hole |-> h] /\ UNCHANGED mLocAdapters
      BY <1>2, <2>2
    <3>2. client' \in Pending /\ client'.call = "remove" /\ client'.hole = h /\ Moving'
      BY <1>1, <3>1 DEF Pending, Moving
    <3>3. Visible' = 1..(h - 1)
      BY <3>2 DEF Visible
    <3>4. ApiTyped'
      BY <1>1, <1>2, <1>3, <1>4, <2>2, <3>1, <3>2 DEF ApiInv, ApiTyped
    <3> QED BY <1>1, <3>1, <3>2, <3>3, <3>4
  <2> QED BY <2>1, <2>2
<1>6. EventsComing'
  <2>1. client'.call \in {"update", "remove"} \/ (n = 1 /\ h = 1)
    BY <1>2
  <2>2. n = 1 /\ h = 1 => mLocAdapters' = << >>
    BY <1>1, <1>2 DEF ApiInv, ApiTyped
  <2> QED BY <2>1, <2>2, EventsUnsent
<1>7. Delivery'
  <2>1. CASE walk = NoWalk
    BY <1>2, <2>1 DEF Delivery
  <2>2. CASE walk # NoWalk
    <3>1. walk \in Walking
      BY <2>2 DEF ApiInv, Delivery
    <3>2. /\ walk' \in Walking /\ walk'.event = walk.event /\ walk'.next = walk.next
          /\ walk'.present = walk.present /\ walk'.got = walk.got /\ walk'.handled = walk.handled
          /\ walk'.hole <= h /\ walk'.hole <= walk.hole
      <4>1. CASE h < walk.hole
        <5>1. walk' = [walk EXCEPT !.hole = h] /\ h \in Nat \ {0}
          BY <1>1, <1>2, <2>2, <4>1
        <5> QED BY <3>1, <4>1, <5>1 DEF Walking
      <4>2. CASE ~(h < walk.hole)
        <5>1. walk' = walk /\ walk.hole \in Nat /\ walk.hole <= h
          BY <1>1, <1>2, <3>1, <4>2 DEF Walking
        <5> QED BY <3>1, <5>1
      <4> QED BY <4>1, <4>2
    <3>3. ASSUME NEW i \in DOMAIN walk'.present, i < walk'.hole
          PROVE  Standing(i)'
      <4>1. i \in Nat /\ i < h /\ i < walk.hole
        BY <1>1, <3>1, <3>2, <3>3 DEF Walking
      <4>2. Standing(i)
        BY <2>2, <3>2, <3>3, <4>1 DEF ApiInv, Delivery
      <4>3. i \in 1..n
        BY <1>4, <4>2 DEF Standing
      <4> QED BY <1>5, <3>2, <4>1, <4>2, <4>3 DEF Standing
    <3> QED BY <1>5, <2>2, <3>2, <3>3 DEF ApiInv, Delivery
  <2> QED BY <2>1, <2>2
<1> QED BY <1>3, <1>5, <1>6, <1>7, RestartsAlone DEF ApiInv

\* The second: the last adapter stands in the hole as well.
LEMMA MoveLastKeeps ==
  ASSUME ApiInv, MoveLast
  PROVE  ApiInv'
<1>1. PICK n \in Nat : n = Len(mLocAdapters) /\ DOMAIN mLocAdapters = 1..n
  BY DEF ApiInv, ApiTyped
<1>2. PICK h \in 1..(n - 1) : h = client.hole
  BY <1>1, VisibleIs DEF MoveLast, ApiInv, Moving
<1>3. /\ client.call = "remove" /\ Moving /\ Visible = 1..(h - 1)
      /\ mLocAdapters' = [mLocAdapters EXCEPT ![h] = mLocAdapters[n]]
      /\ client' = [call |-> "shorten", hole |-> h]
      /\ UNCHANGED <<mEvtMask, msgs, registered, reopening, renegotiated, told, engineUp, restarts, walk>>
  BY <1>1, <1>2, VisibleIs DEF MoveLast, ApiInv, Moving, taskVars, engineVars
<1>4. /\ \A i \in 1..n : mLocAdapters[i] \in Adapter
      /\ \A i, j \in 1..n : i < j => mLocAdapters[i] # mLocAdapters[j]
  <2>1. client # [call |-> "shorten", hole |-> h]
    BY <1>3
  <2>2. \A i \in 1..n : client # [call |-> "shorten", hole |-> i]
    BY <1>3
  <2> QED BY SMTT(30), <1>1, <2>2 DEF ApiInv, ApiTyped
<1>5. /\ mLocAdapters' \in Seq(Adapter) /\ Len(mLocAdapters') = n /\ DOMAIN mLocAdapters' = 1..n
      /\ \A i \in 1..n : mLocAdapters'[i] = IF i = h THEN mLocAdapters[n] ELSE mLocAdapters[i]
  BY <1>1, <1>2, <1>3, <1>4 DEF ApiInv, ApiTyped
<1>6. /\ client' \in Pending /\ client'.call = "shorten" /\ client'.hole = h /\ Moving'
      /\ Visible' = 1..n
  BY <1>1, <1>3, <1>5 DEF Pending, Moving, Visible
<1>7. ApiTyped'
  <2>1. \A i, j \in 1..n : i < j /\ mLocAdapters'[i] = mLocAdapters'[j] => i = h /\ j = n
    <3> SUFFICES ASSUME NEW i \in 1..n, NEW j \in 1..n, i < j, mLocAdapters'[i] = mLocAdapters'[j]
                 PROVE  i = h /\ j = n
      OBVIOUS
    <3>1. CASE i = h
      BY <1>1, <1>2, <1>4, <1>5, <3>1
    <3>2. CASE i # h /\ j = h
      BY <1>1, <1>2, <1>4, <1>5, <3>2
    <3>3. CASE i # h /\ j # h
      BY <1>1, <1>2, <1>4, <1>5, <3>3
    <3> QED BY <3>1, <3>2, <3>3
  <2> QED BY <1>1, <1>2, <1>3, <1>5, <1>6, <2>1 DEF ApiInv, ApiTyped
<1>8. Delivery'
  <2>1. walk # NoWalk => walk.hole <= h
    BY <1>2, <1>3 DEF ApiInv, Delivery
  <2>2. \A i \in Visible : i \in Visible' /\ mLocAdapters'[i] = mLocAdapters[i]
    BY <1>1, <1>2, <1>3, <1>5, <1>6
  <2> QED BY <1>3, <1>6, <2>1, <2>2, DeliveryKept
<1> QED BY <1>3, <1>6, <1>7, <1>8, RestartsAlone, EventsUnsent DEF ApiInv

\* The third: its old place is NULL.
LEMMA ShortenKeeps ==
  ASSUME ApiInv, Shorten
  PROVE  ApiInv'
<1>1. PICK n \in Nat : n = Len(mLocAdapters) /\ DOMAIN mLocAdapters = 1..n
  BY DEF ApiInv, ApiTyped
<1>2. PICK h \in 1..(n - 1) : h = client.hole
  BY <1>1, VisibleIs DEF Shorten, ApiInv, Moving
<1>3. /\ client.call = "shorten" /\ Moving /\ Visible = 1..n
      /\ mLocAdapters' = SubSeq(mLocAdapters, 1, n - 1) /\ client' = [call |-> "update"]
      /\ UNCHANGED <<mEvtMask, msgs, registered, reopening, renegotiated, told, engineUp, restarts, walk>>
  BY <1>1, <1>2, VisibleIs DEF Shorten, ApiInv, Moving, taskVars, engineVars
<1>4. /\ mLocAdapters' \in Seq(Adapter) /\ Len(mLocAdapters') = n - 1
      /\ DOMAIN mLocAdapters' = 1..(n - 1)
      /\ \A i \in 1..(n - 1) : mLocAdapters'[i] = mLocAdapters[i]
  BY <1>1, <1>2, <1>3 DEF ApiInv, ApiTyped
<1>5. /\ client' \in Pending /\ client'.call = "update" /\ ~Moving' /\ Visible' = 1..(n - 1)
  BY <1>3, <1>4 DEF Pending, Moving, Visible
<1>6. ApiTyped'
  <2>1. \A i, j \in 1..(n - 1) : i < j => mLocAdapters'[i] # mLocAdapters'[j]
    <3> SUFFICES ASSUME NEW i \in 1..(n - 1), NEW j \in 1..(n - 1), i < j
                 PROVE  mLocAdapters[i] # mLocAdapters[j]
      BY <1>4
    <3>1. i \in DOMAIN mLocAdapters /\ j \in DOMAIN mLocAdapters /\ j # Len(mLocAdapters)
      BY <1>1
    <3> QED BY <3>1 DEF ApiInv, ApiTyped
  <2>2. n - 1 <= MaxAdapters
    BY <1>1, <1>2, ApiAssumption DEF ApiInv, ApiTyped
  <2> QED BY <1>3, <1>4, <1>5, <2>1, <2>2 DEF ApiInv, ApiTyped
<1>7. Delivery'
  <2>1. walk # NoWalk => walk \in Walking /\ walk.hole <= h
    BY <1>2, <1>3 DEF ApiInv, Delivery
  <2>2. \A i \in Visible : walk # NoWalk /\ i < walk.hole =>
          i \in Visible' /\ mLocAdapters'[i] = mLocAdapters[i]
    BY <1>1, <1>2, <1>3, <1>4, <1>5, <2>1 DEF Walking
  <2> QED BY <1>3, <1>5, <2>2, DeliveryKept
<1> QED BY <1>3, <1>5, <1>6, <1>7, RestartsAlone, EventsUnsent DEF ApiInv

LEMMA MaskKeeps ==
  ASSUME ApiInv, NEW a \in Adapter, NEW e \in EventBit, NEW enable \in BOOLEAN,
         updateEvtMask(a, e, enable)
  PROVE  ApiInv'
<1>1. /\ client' = [call |-> "update"] /\ client = NoCall
      /\ mEvtMask' = [mEvtMask EXCEPT ![a] = IF enable THEN @ \cup {e} ELSE @ \ {e}]
      /\ UNCHANGED <<mLocAdapters, msgs, registered, reopening, renegotiated, told, engineUp,
                     restarts, walk>>
  BY DEF updateEvtMask, ClientCall, taskVars, engineVars
<1>2. /\ client' \in Pending /\ client'.call = "update" /\ client.call = "idle"
      /\ ~Moving /\ ~Moving' /\ Visible' = Visible
  BY <1>1 DEF Pending, NoCall, Moving, Visible
<1>3. ApiTyped'
  BY <1>1, <1>2 DEF ApiInv, ApiTyped
<1> QED BY <1>1, <1>2, <1>3, RestartsAlone, DeliveryKept, EventsUnsent DEF ApiInv

\* The message of a call goes out, or the handle is closed: nothing is wanted.
LEMMA OpenQueued ==
  ASSUME ApiInv, NEW m \in ApiMsg, m.kind # "LocSsrMsg", msgs' = Append(msgs, m),
         m.kind = "LocEngUp" => m.restart = restarts,
         UNCHANGED <<renegotiated, restarts, told>>
  PROVE  Restarted'
<1>1. PICK n \in Nat : n = Len(msgs) /\ DOMAIN msgs = 1..n
  BY DEF ApiInv, ApiTyped
<1>2. /\ DOMAIN msgs' = 1..(n + 1) /\ msgs'[n + 1] = m
      /\ \A i \in 1..n : msgs'[i] = msgs[i]
  BY <1>1 DEF ApiInv, ApiTyped
<1>3. SsrInOrder' /\ LastReopened'
  BY <1>1, <1>2 DEF ApiInv, Restarted, SsrInOrder, LastReopened
<1>4. UpsBehind'
  <2>1. \A i \in 1..n : msgs[i].kind = "LocSsrMsg" => msgs[i].restart \in Nat
    BY <1>1 DEF ApiInv, ApiTyped, ApiMsg
  <2>2. ASSUME NEW i \in 1..(n + 1), msgs'[i].kind = "LocEngUp"
        PROVE  /\ msgs'[i].restart <= restarts'
               /\ \/ msgs'[i].restart <= renegotiated'
                  \/ \E j \in DOMAIN msgs' : /\ j < i /\ msgs'[j].kind = "LocSsrMsg"
                                             /\ msgs'[j].restart >= msgs'[i].restart
    <3>1. CASE i = n + 1
      <4>1. msgs'[i].restart = restarts /\ restarts \in Nat
        BY <1>2, <2>2, <3>1 DEF ApiInv, ApiTyped
      <4>2. CASE renegotiated = restarts
        BY <4>1, <4>2
      <4>3. CASE renegotiated # restarts
        <5>1. PICK j \in 1..n : msgs[j].kind = "LocSsrMsg" /\ msgs[j].restart = restarts
          BY <1>1, <4>3 DEF ApiInv, Restarted, LastReopened
        <5> QED BY <1>2, <3>1, <4>1, <5>1
      <4> QED BY <4>2, <4>3
    <3>2. CASE i \in 1..n
      <4>1. /\ msgs[i].kind = "LocEngUp" /\ msgs'[i] = msgs[i] /\ msgs[i].restart <= restarts
            /\ \/ msgs[i].restart <= renegotiated
               \/ \E j \in DOMAIN msgs : /\ j < i /\ msgs[j].kind = "LocSsrMsg"
                                         /\ msgs[j].restart >= msgs[i].restart
        BY <1>1, <1>2, <2>2, <3>2 DEF ApiInv, Restarted, UpsBehind
      <4>2. CASE msgs[i].restart <= renegotiated
        BY <4>1, <4>2
      <4>3. CASE ~(msgs[i].restart <= renegotiated)
        <5>1. PICK j \in 1..n : /\ j < i /\ msgs[j].kind = "LocSsrMsg"
                                /\ msgs[j].restart >= msgs[i].restart
          BY <1>1, <4>1, <4>3
        <5>2. j \in DOMAIN msgs' /\ msgs'[j] = msgs[j]
          BY <1>2, <5>1
        <5> QED BY <4>1, <5>1, <5>2
      <4> QED BY <4>2, <4>3
    <3>3. i = n + 1 \/ i \in 1..n
      BY <1>1
    <3> QED BY <3>1, <3>2, <3>3
  <2> QED BY <1>2, <2>2 DEF UpsBehind
<1> QED BY <1>3, <1>4 DEF ApiInv, Restarted, ReopenedFirst

LEMMA FinishKeeps ==
  ASSUME ApiInv, Finish
  PROVE  ApiInv'
<1>1. /\ client # NoCall /\ client' = NoCall /\ client \in Pending
      /\ UNCHANGED <<mLocAdapters, mEvtMask, reopening, renegotiated, told, engineUp, restarts, walk>>
  BY DEF Finish, taskVars, engineVars, ApiInv, ApiTyped, NoCall
<1>2. /\ client' \in Pending /\ client'.call = "idle" /\ getEvtMask' = getEvtMask
      /\ getEvtMask \subseteq EventBit
      /\ client.call \in {"open", "update", "close"} /\ ~Moving /\ ~Moving' /\ Visible' = Visible
  <2>1. getEvtMask \subseteq EventBit
    BY VisibleIs DEF getEvtMask, ApiInv, ApiTyped
  <2>2. /\ client.call \in {"open", "update", "close"} /\ ~Moving /\ ~Moving'
        /\ Visible' = Visible
    BY <1>1 DEF Finish, NoCall, Moving, Visible
  <2> QED BY <1>1, <2>1, <2>2 DEF Pending, NoCall, getEvtMask
<1>3. CASE client.call = "close"
  <2>1. mLocAdapters = << >> /\ registered' = {} /\ UNCHANGED msgs
    BY <1>3 DEF Finish, ApiInv, ApiTyped
  <2>2. ApiTyped'
    BY <1>1, <1>2, <2>1 DEF ApiInv, ApiTyped
  <2>3. EventsComing'
    BY <1>1, <1>2, <2>1 DEF EventsComing, getEvtMask, Visible
  <2> QED BY <1>1, <1>2, <2>1, <2>2, <2>3, RestartsAlone, DeliveryKept DEF ApiInv
<1>4. CASE client.call # "close"
  <2>1. PICK mask \in SUBSET EventBit :
          /\ msgs' = Append(msgs, Open(mask)) /\ UNCHANGED registered
          /\ \A e : Begun(e) /\ e \in getEvtMask => e \in mask
    <3>1. CASE client.call = "open"
      <4>1. client.mask \in SUBSET EventBit /\ msgs' = Append(msgs, Open(client.mask))
            /\ UNCHANGED registered
        BY <1>1, <3>1 DEF Finish, Pending, NoCall
      <4>2. \A e : Begun(e) => e \in client.mask
        BY <1>2, <3>1 DEF Begun
      <4> QED BY <4>1, <4>2
    <3>2. CASE client.call = "update"
      BY <1>2, <3>2 DEF Finish
    <3> QED BY <1>2, <1>4, <3>1, <3>2
  <2>2. Open(mask) \in ApiMsg /\ Open(mask).kind = "LocOpenMsg" /\ Open(mask).mask = mask
    BY DEF Open, ApiMsg
  <2>3. /\ msgs' \in Seq(ApiMsg) /\ Len(msgs) + 1 \in DOMAIN msgs' /\ msgs'[Len(msgs) + 1] = Open(mask)
        /\ \A i \in DOMAIN msgs : msgs'[i] = msgs[i] /\ i \in DOMAIN msgs'
        /\ msgs # << >> => msgs' # << >> /\ Head(msgs') = Head(msgs)
    BY <2>1, <2>2, ApiQueued DEF ApiInv, ApiTyped
  <2>4. ApiTyped'
    BY <1>1, <1>2, <2>1, <2>3 DEF ApiInv, ApiTyped
  <2>5. EventsComing'
    <3> SUFFICES ASSUME engineUp', NEW e \in getEvtMask'
                 PROVE  e \in registered' \/ Reopens' \/ Opens(e)'
      BY DEF EventsComing
    <3>1. e \in registered \/ Reopens \/ Opens(e) \/ Begun(e)
      BY <1>1, <1>2 DEF ApiInv, EventsComing
    <3>2. (Reopens => Reopens') /\ (Opens(e) => Opens(e)')
      BY <2>3 DEF Reopens, Opens
    <3>3. Begun(e) => Opens(e)'
      BY <1>2, <2>1, <2>2, <2>3 DEF Opens
    <3> QED BY <2>1, <3>1, <3>2, <3>3
  <2>6. Restarted'
    BY <1>1, <2>1, <2>2, OpenQueued
  <2> QED BY <1>1, <1>2, <2>4, <2>5, <2>6, DeliveryKept DEF ApiInv
<1> QED BY <1>3, <1>4

-----------------------------------------------------------------------------
(* The message task.                                                        *)

LEMMA SsrCloseKeeps ==
  ASSUME ApiInv, SsrClose
  PROVE  ApiInv'
<1>1. /\ msgs # << >> /\ Head(msgs).kind = "LocSsrMsg" /\ registered' = {} /\ reopening' = TRUE
      /\ UNCHANGED <<mLocAdapters, mEvtMask, client, engineUp, restarts, walk, msgs, renegotiated, told>>
  BY DEF SsrClose, clientVars, engineVars
<1>2. ApiTyped'
  BY <1>1 DEF ApiInv, ApiTyped, Moving
<1>3. Reopens'
  <2>1. 1 \in DOMAIN msgs /\ msgs[1] = Head(msgs)
    BY <1>1 DEF ApiInv, ApiTyped
  <2> QED BY <1>1, <2>1 DEF Reopens
<1> QED BY <1>1, <1>2, <1>3, RestartsAlone, DeliveryAlone DEF ApiInv, EventsComing

\* What taking the first message leaves of the order of the restarts.
LEMMA QueueTaken ==
  ASSUME ApiTyped, SsrInOrder, msgs # << >>, msgs' = Tail(msgs), restarts' = restarts,
         IF msgs[1].kind = "LocSsrMsg" THEN renegotiated' = msgs[1].restart
                                       ELSE renegotiated' = renegotiated
  PROVE  /\ renegotiated \in 0..restarts => renegotiated' \in renegotiated..restarts
         /\ SsrInOrder'
         /\ LastReopened /\ renegotiated \in 0..restarts => LastReopened'
         /\ UpsBehind /\ renegotiated \in 0..restarts => UpsBehind'
<1>1. PICK n \in Nat : n = Len(msgs)
  BY DEF ApiTyped
<1>2. /\ DOMAIN msgs = 1..n /\ DOMAIN msgs' = 1..(n - 1) /\ n >= 1
      /\ \A i \in 1..(n - 1) : msgs'[i] = msgs[i + 1]
      /\ restarts \in Nat
  BY <1>1 DEF ApiTyped
<1>3. \A i \in 1..n : /\ msgs[i].kind = "LocSsrMsg" => msgs[i].restart \in Nat
                      /\ msgs[i].kind = "LocEngUp" => msgs[i].restart \in Nat
  <2>1. \A i \in 1..n : msgs[i] \in ApiMsg
    BY <1>1, <1>2 DEF ApiTyped
  <2> QED BY <2>1 DEF ApiMsg
<1>4. renegotiated \in 0..restarts => renegotiated' \in renegotiated..restarts
  BY <1>2, <1>3 DEF SsrInOrder
<1>5. SsrInOrder'
  <2> SUFFICES ASSUME NEW i \in 1..(n - 1), msgs[i + 1].kind = "LocSsrMsg"
               PROVE  /\ msgs[i + 1].restart \in renegotiated'..restarts
                      /\ \A j \in 1..(n - 1) : j > i /\ msgs[j + 1].kind = "LocSsrMsg"
                           => msgs[j + 1].restart >= msgs[i + 1].restart
    BY <1>2 DEF SsrInOrder
  <2>1. i + 1 \in 1..n /\ i + 1 > 1 /\ 1 \in 1..n
    BY <1>2
  <2>2. msgs[i + 1].restart \in renegotiated'..restarts
    BY <1>2, <1>3, <2>1 DEF SsrInOrder
  <2>3. \A j \in 1..(n - 1) : j > i => j + 1 \in 1..n /\ j + 1 > i + 1
    BY <1>2
  <2> QED BY <1>2, <2>1, <2>2, <2>3 DEF SsrInOrder
<1>6. ASSUME LastReopened, renegotiated \in 0..restarts PROVE LastReopened'
  <2>1. CASE renegotiated = restarts
    BY <1>2, <1>4, <1>6, <2>1 DEF LastReopened
  <2>2. CASE \E i \in DOMAIN msgs : msgs[i].kind = "LocSsrMsg" /\ msgs[i].restart = restarts
    <3>1. PICK i \in 1..n : msgs[i].kind = "LocSsrMsg" /\ msgs[i].restart = restarts
      BY <1>2, <2>2
    <3>2. CASE i = 1
      BY <3>1, <3>2 DEF LastReopened
    <3>3. CASE i # 1
      <4>1. i - 1 \in 1..(n - 1) /\ msgs'[i - 1] = msgs[i]
        BY <1>2, <3>3
      <4> QED BY <1>2, <3>1, <4>1 DEF LastReopened
    <3> QED BY <3>2, <3>3
  <2> QED BY <1>6, <2>1, <2>2 DEF LastReopened
<1>7. ASSUME UpsBehind, renegotiated \in 0..restarts PROVE UpsBehind'
  <2>1. renegotiated' >= renegotiated /\ renegotiated' \in Nat /\ renegotiated \in Nat
    BY <1>2, <1>4, <1>7
  <2>2. ASSUME NEW i \in 1..(n - 1), msgs[i + 1].kind = "LocEngUp"
        PROVE  /\ msgs[i + 1].restart <= restarts
               /\ \/ msgs[i + 1].restart <= renegotiated'
                  \/ \E j \in 1..(n - 1) : /\ j < i /\ msgs'[j].kind = "LocSsrMsg"
                                           /\ msgs'[j].restart >= msgs[i + 1].restart
    <3>1. i + 1 \in 1..n /\ msgs[i + 1].restart \in Nat
      BY <1>2, <1>3, <2>2
    <3>2. msgs[i + 1].restart <= restarts
      BY <1>2, <1>7, <2>2, <3>1 DEF UpsBehind
    <3>3. CASE msgs[i + 1].restart <= renegotiated
      BY <2>1, <3>1, <3>2, <3>3
    <3>4. CASE ~(msgs[i + 1].restart <= renegotiated)
      <4>1. PICK j \in 1..n : /\ j < i + 1 /\ msgs[j].kind = "LocSsrMsg"
                              /\ msgs[j].restart >= msgs[i + 1].restart
        BY <1>2, <1>7, <2>2, <3>1, <3>4 DEF UpsBehind
      <4>2. CASE j = 1
        BY <3>2, <4>1, <4>2
      <4>3. CASE j # 1
        <5>1. j - 1 \in 1..(n - 1) /\ j - 1 < i /\ msgs'[j - 1] = msgs[j]
          BY <1>2, <4>1, <4>3
        <5> QED BY <3>2, <4>1, <5>1
      <4> QED BY <4>2, <4>3
    <3> QED BY <3>3, <3>4
  <2>3. ASSUME NEW i \in DOMAIN msgs', msgs'[i].kind = "LocEngUp"
        PROVE  /\ msgs'[i].restart <= restarts'
               /\ \/ msgs'[i].restart <= renegotiated'
                  \/ \E j \in DOMAIN msgs' : /\ j < i /\ msgs'[j].kind = "LocSsrMsg"
                                             /\ msgs'[j].restart >= msgs'[i].restart
    <3>1. i \in 1..(n - 1) /\ msgs'[i] = msgs[i + 1]
      BY <1>2
    <3> QED BY <1>2, <2>2, <2>3, <3>1
  <2> QED BY <2>3 DEF UpsBehind
<1> QED BY <1>4, <1>5, <1>6, <1>7

LEMMA SsrOpenKeeps ==
  ASSUME ApiInv, SsrOpen
  PROVE  ApiInv'
<1>1. /\ msgs # << >> /\ msgs[1].kind = "LocSsrMsg" /\ reopening' = FALSE
      /\ renegotiated' = msgs[1].restart /\ msgs' = Tail(msgs) /\ msgs' \in Seq(ApiMsg)
      /\ registered' = IF engineUp THEN registered \cup getEvtMask ELSE registered
      /\ UNCHANGED <<mLocAdapters, mEvtMask, client, engineUp, restarts, walk, told>>
  BY DEF SsrOpen, open, clientVars, engineVars, ApiInv, ApiTyped
<1>2. getEvtMask \subseteq EventBit /\ getEvtMask' = getEvtMask
  BY <1>1, VisibleIs DEF getEvtMask, Visible, ApiInv, ApiTyped
<1>3. ApiTyped'
  BY <1>1, <1>2 DEF ApiInv, ApiTyped, Moving
<1>4. EventsComing'
  BY <1>1, <1>2 DEF EventsComing
<1>5. Restarted'
  <2>1. /\ renegotiated' \in renegotiated..restarts /\ SsrInOrder' /\ LastReopened' /\ UpsBehind'
    BY <1>1, QueueTaken DEF ApiInv, Restarted
  <2>2. ReopenedFirst'
    BY <1>1, <2>1 DEF ApiInv, ApiTyped, Restarted, ReopenedFirst
  <2> QED BY <1>1, <2>1, <2>2 DEF ApiInv, ApiTyped, Restarted
<1> QED BY <1>1, <1>3, <1>4, <1>5, DeliveryAlone DEF ApiInv

LEMMA ProcMsgKeeps ==
  ASSUME ApiInv, ProcMsg
  PROVE  ApiInv'
<1>0. PICK m \in ApiMsg : m = msgs[1]
  BY DEF ProcMsg, ApiInv, ApiTyped
<1>1. /\ ~reopening /\ msgs # << >> /\ m.kind # "LocSsrMsg" /\ msgs' = Tail(msgs)
      /\ registered' = IF m.kind = "LocOpenMsg" /\ engineUp THEN registered \cup m.mask ELSE registered
      /\ told' = IF m.kind = "LocEngUp" THEN [told EXCEPT ![m.to] = m.restart] ELSE told
      /\ UNCHANGED <<mLocAdapters, mEvtMask, client, engineUp, restarts, walk, reopening, renegotiated>>
  <2>1. Head(msgs) = m
    BY <1>0 DEF ProcMsg, ApiInv, ApiTyped
  <2> QED BY <2>1 DEF ProcMsg, open, clientVars, engineVars
<1>2. m.kind = "LocOpenMsg" => m.mask \in SUBSET EventBit
  BY DEF ApiMsg
<1>3. /\ msgs' \in Seq(ApiMsg)
      /\ \A i \in DOMAIN msgs : i = 1 \/ (i - 1 \in DOMAIN msgs' /\ msgs'[i - 1] = msgs[i])
  BY <1>1, ApiTaken DEF ApiInv, ApiTyped
<1>4. ApiTyped'
  BY <1>1, <1>2, <1>3 DEF ApiInv, ApiTyped, Moving
<1>5. EventsComing'
  <2> SUFFICES ASSUME engineUp, NEW e \in getEvtMask
               PROVE  e \in registered' \/ Reopens' \/ Opens(e)' \/ Begun(e)'
    BY <1>1 DEF EventsComing, getEvtMask, Visible
  <2>1. e \in registered \/ Reopens \/ Opens(e) \/ Begun(e)
    BY DEF ApiInv, EventsComing
  <2>2. Reopens => Reopens'
    BY <1>0, <1>1, <1>3 DEF Reopens
  <2>3. Opens(e) => Opens(e)' \/ e \in registered'
    BY <1>0, <1>1, <1>3 DEF Opens
  <2> QED BY <1>1, <2>1, <2>2, <2>3 DEF Begun, Moving
<1>6. Restarted'
  <2>1. /\ renegotiated' \in renegotiated..restarts /\ SsrInOrder' /\ LastReopened' /\ UpsBehind'
    BY <1>0, <1>1, QueueTaken DEF ApiInv, Restarted
  <2>2. m.kind = "LocEngUp" => m.restart \in 0..renegotiated /\ m.to \in Adapter
    <3>1. m.kind = "LocEngUp" => m.restart \in Nat /\ m.to \in Adapter
      BY DEF ApiMsg
    <3>2. 1 \in DOMAIN msgs /\ \A j \in DOMAIN msgs : ~(j < 1)
      BY <1>1 DEF ApiInv, ApiTyped
    <3> QED BY <1>0, <3>1, <3>2 DEF ApiInv, Restarted, UpsBehind
  <2>3. told' \in [Adapter -> 0..restarts] /\ ReopenedFirst'
    BY <1>1, <2>2 DEF ApiInv, ApiTyped, Restarted, ReopenedFirst
  <2> QED BY <1>1, <2>1, <2>3 DEF ApiInv, Restarted
<1> QED BY <1>1, <1>4, <1>5, <1>6, DeliveryAlone DEF ApiInv

-----------------------------------------------------------------------------
(* The engine and its thread.                                               *)

\* A delivery begins at the first adapter, and has given nothing yet.
LEMMA DeliverKeeps ==
  ASSUME ApiInv, NEW event \in {"up", "down", "report", "request"}, Deliver(event),
         UNCHANGED <<mLocAdapters, client>>
  PROVE  Delivery'
<1>1. PICK n \in Nat : n = Len(mLocAdapters) /\ DOMAIN mLocAdapters = 1..n
  BY DEF ApiInv, ApiTyped
<1>2. /\ walk' = Start(event) /\ Holed \in Nat \ {0} /\ mLocAdapters \in Seq(Adapter)
      /\ Moving => Holed = client.hole
      /\ \A i \in 1..n : i < Holed => i \in Visible'
  <2>1. Moving => client.hole \in 1..(n - 1)
    BY <1>1, VisibleIs DEF ApiInv
  <2>2. CASE Moving
    BY <1>1, <2>1, <2>2 DEF Deliver, ApiInv, ApiTyped, Holed, Moving, Visible
  <2>3. CASE ~Moving
    BY <1>1, <2>3, ApiAssumption DEF Deliver, ApiInv, ApiTyped, Holed, Moving, Visible
  <2> QED BY <2>2, <2>3
<1>3. /\ walk' \in Walking /\ walk'.next = 1 /\ walk'.handled = FALSE
      /\ walk'.present = mLocAdapters /\ walk'.hole = Holed
      /\ \A a \in Adapter : walk'.got[a] = 0
  BY <1>2 DEF Start, Walking
<1>4. \A i \in DOMAIN walk'.present : i < walk'.hole => Standing(i)'
  <2> SUFFICES ASSUME NEW i \in 1..n, i < Holed PROVE Standing(i)'
    BY <1>1, <1>3
  <2>1. mLocAdapters'[i] \in Adapter /\ ~(i < 1)
    BY <1>1 DEF ApiInv, ApiTyped
  <2> QED BY <1>2, <1>3, <2>1 DEF Standing
<1>5. \A a \in supports : walk'.got[a] = 0
  BY <1>3, ApiAssumption
<1>6. \A a \in supports : ~(walk'.got[a] > 0)
  BY <1>5
<1>7. Moving' => walk'.hole <= client'.hole
  BY <1>2, <1>3 DEF Moving
<1> QED BY <1>3, <1>4, <1>5, <1>6, <1>7 DEF Delivery

LEMMA DownKeeps ==
  ASSUME ApiInv, handleEngineDownEvent
  PROVE  ApiInv'
<1>1. /\ engineUp' = FALSE /\ registered' = {} /\ Deliver("down")
      /\ UNCHANGED <<mLocAdapters, mEvtMask, client, msgs, reopening, renegotiated, told, restarts>>
  BY DEF handleEngineDownEvent, clientVars, taskVars
<1>2. ApiTyped' /\ EventsComing'
  BY <1>1 DEF ApiInv, ApiTyped, Moving, EventsComing
<1> QED BY <1>1, <1>2, RestartsAlone, DeliverKeeps DEF ApiInv

LEMMA UpKeeps ==
  ASSUME ApiInv, handleEngineUpEvent
  PROVE  ApiInv'
<1>1. PICK n \in Nat, r \in Nat : n = Len(msgs) /\ r = restarts + 1
  BY DEF ApiInv, ApiTyped
<1>2. /\ engineUp' = TRUE /\ restarts' = r /\ msgs' = Append(msgs, Ssr(r)) /\ Deliver("up")
      /\ UNCHANGED <<mLocAdapters, mEvtMask, client, registered, reopening, renegotiated, told>>
  BY <1>1 DEF handleEngineUpEvent, clientVars, taskVars
<1>3. /\ Ssr(r) \in ApiMsg /\ Ssr(r).kind = "LocSsrMsg" /\ Ssr(r).restart = r
  BY DEF Ssr, ApiMsg
<1>4. /\ msgs' \in Seq(ApiMsg) /\ DOMAIN msgs = 1..n /\ DOMAIN msgs' = 1..(n + 1)
      /\ msgs'[n + 1] = Ssr(r) /\ \A i \in 1..n : msgs'[i] = msgs[i]
      /\ msgs # << >> => msgs' # << >> /\ Head(msgs') = Head(msgs)
  BY <1>1, <1>2, <1>3, ApiQueued DEF ApiInv, ApiTyped
<1>5. ApiTyped'
  BY <1>1, <1>2, <1>4 DEF ApiInv, ApiTyped, Moving
<1>6. Reopens'
  BY <1>1, <1>3, <1>4 DEF Reopens
<1>7. Restarted'
  <2>1. restarts \in Nat /\ r = restarts + 1 /\ renegotiated \in 0..restarts
    BY <1>1 DEF ApiInv, ApiTyped, Restarted
  <2>2. told' \in [Adapter -> 0..restarts'] /\ ReopenedFirst' /\ renegotiated' \in 0..restarts'
    BY <1>2, <2>1 DEF ApiInv, Restarted, ReopenedFirst
  <2>3. \A i \in 1..n : msgs[i].kind = "LocSsrMsg" => msgs[i].restart \in renegotiated..restarts
    BY <1>4 DEF ApiInv, Restarted, SsrInOrder
  <2>4. SsrInOrder'
    <3>1. \A i \in 1..(n + 1) : i \in 1..n \/ i = n + 1
      BY <1>1
    <3> QED BY <1>2, <1>3, <1>4, <2>1, <2>3, <3>1 DEF ApiInv, Restarted, SsrInOrder
  <2>5. LastReopened'
    <3>1. n + 1 \in DOMAIN msgs'
      BY <1>1, <1>4
    <3> QED BY <1>2, <1>3, <1>4, <3>1 DEF LastReopened
  <2>6. UpsBehind'
    <3>1. ASSUME NEW i \in DOMAIN msgs', msgs'[i].kind = "LocEngUp"
          PROVE  /\ msgs'[i].restart <= restarts'
                 /\ \/ msgs'[i].restart <= renegotiated'
                    \/ \E j \in DOMAIN msgs' : /\ j < i /\ msgs'[j].kind = "LocSsrMsg"
                                               /\ msgs'[j].restart >= msgs'[i].restart
      <4>1. i \in DOMAIN msgs /\ msgs'[i] = msgs[i]
        BY <1>1, <1>3, <1>4, <3>1
      <4>2. msgs[i].restart \in Nat
        <5>1. msgs[i] \in ApiMsg
          BY <4>1 DEF ApiInv, ApiTyped
        <5> QED BY <3>1, <4>1, <5>1 DEF ApiMsg
      <4>3. /\ msgs[i].restart <= restarts
            /\ \/ msgs[i].restart <= renegotiated
               \/ \E j \in DOMAIN msgs : /\ j < i /\ msgs[j].kind = "LocSsrMsg"
                                         /\ msgs[j].restart >= msgs[i].restart
        BY <3>1, <4>1 DEF ApiInv, Restarted, UpsBehind
      <4>4. msgs'[i].restart <= restarts'
        BY <1>2, <2>1, <4>1, <4>2, <4>3
      <4>5. \A j \in DOMAIN msgs : j \in DOMAIN msgs' /\ msgs'[j] = msgs[j]
        BY <1>1, <1>4
      <4> QED BY <1>2, <4>1, <4>3, <4>4, <4>5
    <3> QED BY <3>1 DEF UpsBehind
  <2> QED BY <2>2, <2>4, <2>5, <2>6 DEF Restarted
<1> QED BY <1>2, <1>5, <1>6, <1>7, DeliverKeeps DEF ApiInv, EventsComing

LEMMA ReportKeepsApi ==
  ASSUME ApiInv, NEW event \in {"report", "request"}, Report(event)
  PROVE  ApiInv'
<1>1. /\ Deliver(event)
      /\ UNCHANGED <<mLocAdapters, mEvtMask, client, msgs, registered, reopening, renegotiated, told,
                     engineUp, restarts>>
  BY DEF Report, clientVars, taskVars
<1>2. ApiTyped'
  BY <1>1 DEF ApiInv, ApiTyped, Moving
<1> QED BY <1>1, <1>2, RestartsAlone, EventsAlone, DeliverKeeps DEF ApiInv, ApiArray

\* One adapter more: what it was given is one more, and it is the next one.
LEMMA WalkOneKeeps ==
  ASSUME ApiInv, WalkOne
  PROVE  ApiInv'
<1>1. PICK n \in Nat : n = Len(mLocAdapters) /\ DOMAIN mLocAdapters = 1..n
  BY DEF ApiInv, ApiTyped
<1>2. PICK k \in Visible : k = walk.next /\ k \in 1..n
  BY <1>1, VisibleIs DEF WalkOne, ApiInv
<1>3. PICK a \in Adapter : a = mLocAdapters[k]
  BY <1>1, <1>2 DEF ApiInv, ApiTyped
<1>4. /\ walk # NoWalk /\ ~walk.handled /\ walk \in Walking
      /\ walk' = [walk EXCEPT !.next = @ + 1, !.got[a] = @ + 1,
                              !.handled = Takes(walk.event, a)]
      /\ msgs' = CASE walk.event = "up"   -> Append(msgs, Up(a, restarts))
                   [] walk.event = "down" -> Append(msgs, Down(a))
                   [] OTHER -> msgs
      /\ UNCHANGED <<mLocAdapters, mEvtMask, client, registered, reopening, renegotiated, told,
                     engineUp, restarts>>
      /\ Visible' = Visible
  BY <1>2, <1>3 DEF WalkOne, clientVars, taskVars, ApiInv, Delivery, Visible
<1>5. /\ walk'.event = walk.event /\ walk'.present = walk.present /\ walk'.hole = walk.hole
      /\ walk'.next = k + 1 /\ walk'.got = [walk.got EXCEPT ![a] = @ + 1]
      /\ walk'.handled = Takes(walk.event, a) /\ walk' \in Walking
      /\ walk.got \in [Adapter -> Nat] /\ walk.present \in Seq(Adapter)
  <2>1. /\ walk.event \in {"up", "down", "report", "request"} /\ walk.present \in Seq(Adapter)
        /\ walk.hole \in Nat \ {0} /\ walk.got \in [Adapter -> Nat]
        /\ Takes(walk.event, a) \in BOOLEAN
    BY <1>4 DEF Walking, Takes
  <2> DEFINE next == [event |-> walk.event, next |-> k + 1, present |-> walk.present,
                        hole |-> walk.hole, got |-> [walk.got EXCEPT ![a] = @ + 1],
                        handled |-> Takes(walk.event, a)]
  <2>3. walk' = next
    BY <1>2, <1>4 DEF Walking
  <2>4. [walk.got EXCEPT ![a] = @ + 1] \in [Adapter -> Nat] /\ k + 1 \in Nat \ {0}
    BY <1>2, <2>1
  <2>5. next \in Walking
    BY <2>1, <2>4 DEF Walking
  <2> QED BY <2>1, <2>3, <2>5
<1>6. Delivery'
  <2>1. ASSUME NEW i \in DOMAIN walk.present, i < walk.hole
        PROVE  Standing(i)'
    <3>1. Standing(i)
      BY <1>4, <2>1 DEF ApiInv, Delivery
    <3>2. i \in 1..n /\ mLocAdapters[i] \in Adapter
      BY <1>1, <3>1, VisibleIs DEF ApiInv, ApiTyped, Standing
    <3>3. mLocAdapters[i] = a <=> i = k
      <4>1. Moving => walk.hole <= client.hole
        BY <1>4 DEF ApiInv, Delivery
      <4>2. walk.hole \in Nat
        BY <1>4 DEF Walking
      <4>3. ASSUME NEW j \in 1..n, i < j PROVE mLocAdapters[i] # mLocAdapters[j]
        <5>1. client # [call |-> "shorten", hole |-> i]
          BY <2>1, <3>2, <4>1, <4>2 DEF Moving
        <5> QED BY <1>1, <3>2, <4>3, <5>1 DEF ApiInv, ApiTyped
      <4>4. ASSUME NEW j \in 1..n, j < i PROVE mLocAdapters[j] # mLocAdapters[i]
        <5>1. client = [call |-> "shorten", hole |-> j] => client.hole \in Nat /\ client.hole < i /\ Moving
          BY <4>4 DEF Moving
        <5>2. ~(client = [call |-> "shorten", hole |-> j] /\ i = Len(mLocAdapters))
          BY <1>1, <2>1, <3>2, <4>1, <4>2, <5>1
        <5> QED BY <1>1, <3>2, <4>4, <5>2 DEF ApiInv, ApiTyped
      <4> QED BY <1>2, <1>3, <3>2, <4>3, <4>4
    <3>4. walk.got[mLocAdapters[i]] = IF i < k THEN 1 ELSE 0
      BY <1>2, <1>4, <3>1 DEF Standing
    <3>5. walk'.got[mLocAdapters[i]] = IF i < k + 1 THEN 1 ELSE 0
      BY <1>2, <1>5, <3>2, <3>3, <3>4
    <3> QED BY <1>4, <1>5, <3>1, <3>5 DEF Standing
  <2>2. ASSUME NEW b \in supports
        PROVE  /\ b \in Adapter
               /\ walk.event = "request" => walk'.got[b] = IF b = a THEN 1 ELSE 0
    <3>1. b \in Adapter
      BY ApiAssumption
    <3>2. walk.event = "request" => walk.got[b] = 0
      BY <1>4 DEF ApiInv, Delivery
    <3> QED BY <1>5, <3>1, <3>2
  <2>3. Moving' => walk'.hole <= client'.hole
    BY <1>4, <1>5 DEF ApiInv, Delivery, Moving
  <2>4. walk'.handled => walk.event = "request" /\ a \in supports
    BY <1>5 DEF Takes
  <2>5. walk'.handled => \E b \in supports : walk'.got[b] = 1
    BY <2>2, <2>4
  <2>6. walk.event = "request" /\ ~walk'.handled => \A b \in supports : walk'.got[b] = 0
    BY <1>5, <2>2 DEF Takes
  <2>7. walk.event = "request" =>
          \A b, c \in supports : walk'.got[b] > 0 /\ walk'.got[c] > 0 => b = c
    BY <2>2
  <2> QED BY <1>5, <2>1, <2>3, <2>4, <2>5, <2>6, <2>7 DEF Delivery
<1>7. CASE walk.event \in {"up", "down"}
  <2>1. PICK m \in ApiMsg : /\ msgs' = Append(msgs, m) /\ m.kind \in {"LocEngUp", "LocEngDown"}
                            /\ m.kind = "LocEngUp" => m.restart = restarts
    <3>1. /\ Up(a, restarts) \in ApiMsg /\ Up(a, restarts).kind = "LocEngUp"
          /\ Up(a, restarts).restart = restarts
          /\ Down(a) \in ApiMsg /\ Down(a).kind = "LocEngDown"
      BY DEF Up, Down, ApiMsg, ApiInv, ApiTyped
    <3> QED BY <1>4, <1>7, <3>1
  <2>2. /\ msgs' \in Seq(ApiMsg)
        /\ \A i \in DOMAIN msgs : msgs'[i] = msgs[i] /\ i \in DOMAIN msgs'
        /\ msgs # << >> => msgs' # << >> /\ Head(msgs') = Head(msgs)
    BY <2>1, ApiQueued DEF ApiInv, ApiTyped
  <2>3. ApiTyped'
    BY <1>4, <2>2 DEF ApiInv, ApiTyped, Moving
  <2>4. EventsComing'
    <3> SUFFICES ASSUME engineUp, NEW e \in getEvtMask
                 PROVE  e \in registered' \/ Reopens' \/ Opens(e)' \/ Begun(e)'
      BY <1>4 DEF EventsComing, getEvtMask, Visible
    <3>1. (Reopens => Reopens') /\ (Opens(e) => Opens(e)') /\ (Begun(e) => Begun(e)')
      BY <1>4, <2>2 DEF Reopens, Opens, Begun, Moving
    <3> QED BY <1>4, <3>1 DEF ApiInv, EventsComing
  <2>5. Restarted'
    BY <1>4, <2>1, OpenQueued
  <2> QED BY <1>6, <2>3, <2>4, <2>5 DEF ApiInv
<1>8. CASE walk.event \notin {"up", "down"}
  <2>1. msgs' = msgs
    BY <1>4, <1>8
  <2>2. ApiTyped'
    BY <1>4, <2>1 DEF ApiInv, ApiTyped, Moving
  <2> QED BY <1>4, <1>6, <2>1, <2>2, RestartsAlone, EventsAlone DEF ApiInv, ApiArray
<1> QED BY <1>7, <1>8

LEMMA WalkEndsKeeps ==
  ASSUME ApiInv, WalkEnds
  PROVE  ApiInv'
<1>1. /\ walk' = NoWalk
      /\ UNCHANGED <<mLocAdapters, mEvtMask, client, msgs, registered, reopening, renegotiated, told,
                     engineUp, restarts>>
  BY DEF WalkEnds, clientVars, taskVars
<1>2. ApiTyped' /\ Delivery'
  BY <1>1 DEF ApiInv, ApiTyped, Moving, Delivery
<1> QED BY <1>1, <1>2, RestartsAlone, EventsAlone DEF ApiInv, ApiArray

LEMMA ApiStep ==
  ASSUME ApiInv, [ApiNext]_apiVars
  PROVE  ApiInv'
<1>1. CASE UNCHANGED apiVars
  <2>1. ApiTyped'
    BY <1>1 DEF apiVars, ApiInv, ApiTyped, Moving
  <2> QED BY <1>1, <2>1, RestartsAlone, EventsAlone, DeliveryAlone DEF apiVars, ApiInv, ApiArray
<1> QED BY <1>1, AddKeeps, RemoveKeeps, MoveLastKeeps, ShortenKeeps, MaskKeeps, FinishKeeps, SsrCloseKeeps, SsrOpenKeeps,
           ProcMsgKeeps, DownKeeps, UpKeeps, ReportKeepsApi, WalkOneKeeps, WalkEndsKeeps DEF ApiNext

-----------------------------------------------------------------------------
\* Whatever masks adapters come with, whoever opens, updates and closes, and
\* however often the engine crashes: with nothing waiting and the engine up,
\* each event an adapter wants and the contexts allow is registered.
THEOREM NoneDeaf == ApiSpec => []EventsCovered
<1>1. ApiInv => EventsCovered
  BY DEF ApiInv, ApiTyped, EventsComing, EventsCovered, ApiAtRest, Reopens, Opens, Begun, NoCall, Moving
<1> QED BY ApiInitHolds, ApiStep, <1>1, PTL DEF ApiSpec

\* A delivery that is over has reached the adapters in front of every hole.
LEMMA WholeDelivery == ApiInv => DeliveredOnce
<1> SUFFICES ASSUME ApiInv, walk # NoWalk, walk.handled \/ walk.next \notin Visible
             PROVE  IF walk.event = "request"
                    THEN /\ \A a, b \in supports : walk.got[a] > 0 /\ walk.got[b] > 0 => a = b
                         /\ InFront \cap supports # {} => \E a \in supports : walk.got[a] = 1
                    ELSE \A a \in InFront : walk.got[a] = 1
  BY DEF DeliveredOnce
<1>1. walk \in Walking /\ walk.next \in Nat \ {0}
  BY DEF ApiInv, Delivery, Walking
<1>2. ASSUME ~walk.handled, NEW a \in InFront PROVE walk.got[a] = 1
  <2>1. PICK i \in DOMAIN walk.present : i < walk.hole /\ walk.present[i] = a
    BY DEF InFront
  <2>2. i \in Visible /\ mLocAdapters[i] = a /\ walk.got[a] = IF i < walk.next THEN 1 ELSE 0
    BY <1>2, <2>1 DEF ApiInv, Delivery, Standing
  <2>3. PICK v \in Int : Visible = 1..v
    <3>1. Len(mLocAdapters) \in Nat /\ (Moving => client.hole \in Nat)
      BY VisibleIs DEF ApiInv, ApiTyped
    <3> QED BY <3>1 DEF Visible, Moving
  <2>4. i < walk.next
    BY <1>1, <1>2, <2>2, <2>3
  <2> QED BY <2>2, <2>4
<1>3. ASSUME walk.event = "request" PROVE InFront \cap supports # {} => \E a \in supports : walk.got[a] = 1
  BY <1>2, <1>3 DEF ApiInv, Delivery
<1>4. walk.handled => walk.event = "request"
  BY DEF ApiInv, Delivery
<1>5. walk.event = "request" => \A a, b \in supports : walk.got[a] > 0 /\ walk.got[b] > 0 => a = b
  BY DEF ApiInv, Delivery
<1> QED BY <1>2, <1>3, <1>4, <1>5

\* Whoever joins, leaves or changes its mask under a delivery, between any two
\* writes of removeAdapter: an event reaches each adapter in front of the holes
\* exactly once, a request the first that takes it, and no adapter hears of a
\* restart before the handle was reopened for it.
THEOREM NoneMissed == ApiSpec => []AdaptersServed
<1>1. ApiInv => AdaptersServed
  BY WholeDelivery DEF ApiInv, Restarted, AdaptersServed
<1> QED BY ApiInitHolds, ApiStep, <1>1, PTL DEF ApiSpec

\* Every reachable state is well typed, and the array fits its bound.
THEOREM ApiTypes == ApiSpec => []ApiTypeOK
<1>1. ApiInv => ApiTypeOK
  BY DEF ApiInv, ApiTyped, Restarted, ApiTypeOK
<1> QED BY ApiInitHolds, ApiStep, <1>1, PTL DEF ApiSpec

-----------------------------------------------------------------------------
(* The HAL's settings.                                                      *)

ConfSet   == [ver : Ver, mode : SUBSET Assisted, caps : SUBSET (Assisted \cup {"MEASUREMENTS"})]
VoteSet   == [right : BOOLEAN, up : BOOLEAN]
EngineSet == [ver : Ver \cup {"default"}, sensors : BOOLEAN, url : Host \cup {NoHost},
              data : BOOLEAN, power : BOOLEAN]

\* What waits for the message task.
HalMsg == [kind : {"ver"}, value : Ver] \cup [kind : {"url"}, value : Host]
            \cup [kind : {"sensors", "data"}, value : BOOLEAN]
            \cup [kind : {"gnss", "caps", "mode", "init", "up"}, value : {0}]
Resend == [kind : {"init", "up"}, vote : VoteSet, msgs : Seq(HalMsg)]

HalTyped ==
  /\ conf \in ConfSet /\ tmp \in ConfSet \cup {NoCopy} /\ suplHost \in Host \cup {NoHost}
  /\ adapter \in BOOLEAN /\ agps \in BOOLEAN /\ nif \in BOOLEAN /\ agpsStatus \in BOOLEAN
  /\ engineRuns \in BOOLEAN /\ measures \in BOOLEAN /\ early \in BOOLEAN /\ server \in Host \cup {NoHost}
  /\ behind \subseteq Changeable /\ misread \subseteq {"gnss", "caps", "mode"}
  /\ (agps => adapter) /\ (nif => agps)
  /\ vote \in VoteSet /\ engine \in EngineSet /\ restarted \in Nat
  /\ queue \in Seq(HalMsg) /\ resend \in Resend \cup {Nothing}

\* Once the messages of a list are handled the engine holds v as its k: each
\* wrong value, its own included, has a right one behind it.
Lands(k, v, s) ==
  /\ engine[k] = v \/ \E j \in DOMAIN s : s[j].kind = k /\ s[j].value = v
  /\ \A i \in DOMAIN s : s[i].kind = k /\ s[i].value # v =>
       \E j \in DOMAIN s : j > i /\ s[j].kind = k /\ s[j].value = v

\* A handler that resends everything is waiting, or at work.
Awaited(kinds) == \E i \in DOMAIN queue : queue[i].kind \in kinds
Renews(k)      == resend # Nothing /\ \E i \in DOMAIN resend.msgs : resend.msgs[i].kind = k

\* What the process remembers reaches the engine, or is about to be sent again.
KnownHere        == [ver |-> conf.ver, sensors |-> TRUE, data |-> agpsStatus, url |-> suplHost]
Settled(k, kinds) == Lands(k, KnownHere[k], queue) \/ Renews(k) \/ Awaited(kinds)

\* What that handler has read of a setting that is not behind is still what
\* the process remembers.
Lasting == {"ver", "sensors", "data", "url"}

ReadRight ==
  resend # Nothing => /\ \A i \in DOMAIN resend.msgs, k \in Lasting \ behind :
                           resend.msgs[i].kind = k => resend.msgs[i].value = KnownHere[k]
                      /\ Renews("ver") /\ Renews("sensors") /\ Renews("data")
                      /\ resend.kind = "up" /\ "power" \notin behind => resend.vote = vote

\* Every setting that is not behind is in the engine or on its way.
SettingsComing ==
  adapter /\ engineRuns =>
    /\ \A k \in (Lasting \ {"url"}) \ behind : Settled(k, {"init", "up"})
    /\ agps /\ nif /\ suplHost # NoHost /\ "url" \notin behind => Settled("url", {"up"})
    /\ vote.right /\ "power" \notin behind =>
         \/ engine.power = vote.up \/ Awaited({"up"})
         \/ (resend # Nothing /\ resend.kind = "up")

\* The server remembered is the one given last, unless it came early; while
\* none is remembered the engine has none, and none is on its way.
Sends(t, k) == \E i \in DOMAIN t : t[i].kind = k

ServerKnown ==
  /\ ~adapter => early \/ server = NoHost
  /\ adapter => suplHost = IF early THEN NoHost ELSE server

NoServer ==
  ~(adapter /\ suplHost # NoHost) =>
    engine["url"] = NoHost /\ ~Sends(queue, "url") /\ ~Renews("url")

\* The capabilities once a running update has put them back.
RealCaps == IF tmp = NoCopy THEN conf.caps ELSE tmp.caps

\* The framework is told them after the engine was asked for its own.
Asked(s) ==
  measures /\ "MEASUREMENTS" \notin RealCaps =>
    \A i \in DOMAIN s : s[i].kind = "caps" => \E j \in DOMAIN s : j < i /\ s[j].kind = "gnss"

MeasurementsAsked ==
  /\ "MEASUREMENTS" \in RealCaps \cup conf.caps => measures
  /\ "gnss" \notin misread =>
       /\ Asked(queue) /\ (resend # Nothing => Asked(resend.msgs))
       /\ capsTold # NotTold /\ measures => "MEASUREMENTS" \in RealCaps
  /\ MeasurementsTold

AloneTarget == (sGnssType \in Standalone => Assisted \cap RealCaps = {}) /\ StandaloneTarget

HalInv ==
  /\ HalTyped /\ ReadRight /\ SettingsComing
  /\ ServerKnown /\ NoServer
  /\ MeasurementsAsked /\ AloneTarget

LEMMA HalInitHolds == HalInit => HalInv
<1> SUFFICES ASSUME HalInit PROVE HalInv
  OBVIOUS
<1>1. conf \in ConfSet /\ tmp = NoCopy /\ conf.caps \subseteq Assisted /\ RealCaps = conf.caps
      /\ (sGnssType \in Standalone => conf.caps = {})
  BY DEF HalInit, ConfSet, Masked, RealCaps
<1>2. vote \in VoteSet /\ engine \in EngineSet /\ restarted \in Nat
  BY DEF HalInit, VoteSet, EngineSet, Fresh
<1>3. HalTyped
  <2>1. /\ adapter = FALSE /\ agps = FALSE /\ nif = FALSE /\ agpsStatus = FALSE /\ engineRuns = TRUE
        /\ measures \in BOOLEAN /\ suplHost = NoHost
        /\ behind = {} /\ misread = {} /\ server = NoHost /\ early = FALSE
    BY DEF HalInit
  <2>2. queue = << >> /\ resend = Nothing
    BY DEF HalInit
  <2>3. queue \in Seq(HalMsg) /\ resend \in Resend \cup {Nothing} /\ tmp \in ConfSet \cup {NoCopy}
        /\ suplHost \in Host \cup {NoHost}
    BY <1>1, <2>1, <2>2
  <2> QED BY <1>1, <1>2, <2>1, <2>3 DEF HalTyped
<1>4. /\ queue = << >> /\ resend = Nothing /\ ~adapter /\ capsTold = NotTold /\ ulpTold = NotTold
      /\ server = NoHost /\ engine["url"] = NoHost
  BY DEF HalInit, Fresh
<1>5. ReadRight /\ SettingsComing
  BY <1>4 DEF ReadRight, SettingsComing
<1>6. MeasurementsAsked
  BY <1>1, <1>4 DEF MeasurementsAsked, Asked, MeasurementsTold, Assisted
<1>7. AloneTarget
  BY <1>1, <1>4 DEF AloneTarget, StandaloneTarget, Assisted, NotTold
<1>8. ServerKnown /\ NoServer
  BY <1>4 DEF ServerKnown, NoServer, Sends, Renews
<1> QED BY <1>3, <1>5, <1>6, <1>7, <1>8 DEF HalInv

-----------------------------------------------------------------------------
(* The queue.                                                              *)

LEMMA SentIs ==
  ASSUME NEW s \in Seq(HalMsg), NEW t \in Seq(HalMsg), NEW q, q = s \o t
  PROVE  /\ q \in Seq(HalMsg) /\ Len(s) \in Nat /\ Len(t) \in Nat
         /\ DOMAIN s = 1..Len(s) /\ DOMAIN t = 1..Len(t) /\ DOMAIN q = 1..(Len(s) + Len(t))
         /\ \A i \in DOMAIN s : i \in DOMAIN q /\ q[i] = s[i]
         /\ \A i \in DOMAIN t : Len(s) + i \in DOMAIN q /\ q[Len(s) + i] = t[i]
         /\ \A i \in DOMAIN q : \/ i \in DOMAIN s
                                \/ i - Len(s) \in DOMAIN t /\ i > Len(s) /\ q[i] = t[i - Len(s)]
<1>1. /\ q \in Seq(HalMsg) /\ Len(s) \in Nat /\ Len(t) \in Nat
      /\ DOMAIN s = 1..Len(s) /\ DOMAIN t = 1..Len(t) /\ DOMAIN q = 1..(Len(s) + Len(t))
      /\ \A i \in DOMAIN s : i \in DOMAIN q /\ q[i] = s[i]
      /\ \A i \in DOMAIN t : Len(s) + i \in DOMAIN q /\ q[Len(s) + i] = t[i]
  OBVIOUS
<1>2. ASSUME NEW i \in DOMAIN q, i \notin DOMAIN s
      PROVE  i - Len(s) \in DOMAIN t /\ i > Len(s) /\ q[i] = t[i - Len(s)]
  <2>1. i - Len(s) \in DOMAIN t /\ i > Len(s) /\ Len(s) + (i - Len(s)) = i
    BY <1>1, <1>2
  <2> QED BY <1>1, <2>1
<1> QED BY <1>1, <1>2

\* Right values sent behind what lands, or behind anything if there is one.
LEMMA LandsSent ==
  ASSUME NEW k, NEW v, NEW s \in Seq(HalMsg), NEW t \in Seq(HalMsg), NEW q, q = s \o t,
         \A i \in DOMAIN t : t[i].kind = k => t[i].value = v,
         Lands(k, v, s) \/ \E i \in DOMAIN t : t[i].kind = k
  PROVE  Lands(k, v, q)
<1>0. PICK n \in Nat : n = Len(s)
  OBVIOUS
<1>1. /\ DOMAIN s = 1..n
      /\ \A i \in DOMAIN s : i \in DOMAIN q /\ q[i] = s[i]
      /\ \A i \in DOMAIN t : n + i \in DOMAIN q /\ q[n + i] = t[i] /\ i \in Nat /\ i > 0
      /\ \A i \in DOMAIN q : i \in DOMAIN s \/ (i - n \in DOMAIN t /\ i > n /\ q[i] = t[i - n])
  <2>1. \A i \in DOMAIN t : i \in Nat /\ i > 0
    OBVIOUS
  <2> QED BY <1>0, <2>1, SentIs
<1>2. CASE \E i \in DOMAIN t : t[i].kind = k
  <2>1. PICK j \in DOMAIN t : t[j].kind = k /\ t[j].value = v
    BY <1>2
  <2>6. n + j \in DOMAIN q /\ q[n + j] = t[j] /\ j \in Nat /\ j > 0
    BY <1>1
  <2>2. n + j \in DOMAIN q /\ q[n + j].kind = k /\ q[n + j].value = v /\ n + j > n
    BY <2>1, <2>6
  <2>3. \A i \in DOMAIN q : q[i].kind = k /\ q[i].value # v => i \in DOMAIN s /\ n + j > i
    BY SMTT(30), <1>1, <2>2
  <2>4. PICK l \in DOMAIN q : l = n + j
    BY <2>2
  <2>5. q[l].kind = k /\ q[l].value = v /\ \A i \in DOMAIN q : q[i].kind = k /\ q[i].value # v => l > i
    BY <2>2, <2>3, <2>4
  <2> QED BY <2>5 DEF Lands
<1>3. CASE Lands(k, v, s) /\ ~\E i \in DOMAIN t : t[i].kind = k
  <2>1. \A i \in DOMAIN q : q[i].kind = k => i \in DOMAIN s
    BY <1>1, <1>3
  <2> QED BY <1>1, <1>3, <2>1 DEF Lands
<1> QED BY <1>2, <1>3

\* The first message handled: its value is the engine's.
LEMMA LandsTaken ==
  ASSUME NEW k, NEW v, NEW s \in Seq(HalMsg), s # << >>, NEW q, q = Tail(s), Lands(k, v, s),
         engine'[k] = IF s[1].kind = k THEN s[1].value ELSE engine[k]
  PROVE  Lands(k, v, q)'
<1>1. /\ Len(s) \in Nat /\ DOMAIN s = 1..Len(s) /\ 1 \in DOMAIN s
      /\ \A i \in DOMAIN q : i \in Nat /\ i + 1 \in DOMAIN s /\ q[i] = s[i + 1]
      /\ \A i \in DOMAIN s : i \in Nat /\ (i = 1 \/ (i - 1 \in DOMAIN q /\ i > 1 /\ q[i - 1] = s[i]))
  OBVIOUS
<1>2. \A i \in DOMAIN q : q[i].kind = k /\ q[i].value # v =>
        \E j \in DOMAIN q : j > i /\ q[j].kind = k /\ q[j].value = v
  <2> SUFFICES ASSUME NEW i \in DOMAIN q, q[i].kind = k, q[i].value # v
               PROVE  \E j \in DOMAIN q : j > i /\ q[j].kind = k /\ q[j].value = v
    OBVIOUS
  <2>1. PICK j \in DOMAIN s : j > i + 1 /\ s[j].kind = k /\ s[j].value = v
    BY <1>1 DEF Lands
  <2>2. j - 1 \in DOMAIN q /\ q[j - 1] = s[j] /\ j - 1 > i
    BY <1>1, <2>1
  <2> QED BY <2>1, <2>2
<1>3. engine'[k] = v \/ \E j \in DOMAIN q : q[j].kind = k /\ q[j].value = v
  <2>1. CASE s[1].kind = k /\ s[1].value = v
    BY <2>1
  <2>2. CASE s[1].kind = k /\ s[1].value # v
    <3>1. PICK j \in DOMAIN s : j > 1 /\ s[j].kind = k /\ s[j].value = v
      BY <1>1, <2>2 DEF Lands
    <3> QED BY <1>1, <3>1
  <2>3. CASE s[1].kind # k
    <3>1. CASE engine[k] = v
      BY <2>3, <3>1
    <3>2. CASE engine[k] # v
      <4>1. PICK j \in DOMAIN s : s[j].kind = k /\ s[j].value = v
        BY <3>2 DEF Lands
      <4> QED BY <1>1, <2>3, <4>1
    <3> QED BY <3>1, <3>2
  <2> QED BY <2>1, <2>2, <2>3
<1> QED BY <1>2, <1>3 DEF Lands

LEMMA AskedSent ==
  ASSUME NEW s \in Seq(HalMsg), NEW t \in Seq(HalMsg), NEW q, q = s \o t, Asked(s), Asked(t)
  PROVE  Asked(q)
<1>0. PICK n \in Nat : n = Len(s)
  OBVIOUS
<1> SUFFICES ASSUME measures, "MEASUREMENTS" \notin RealCaps, NEW i \in DOMAIN q, q[i].kind = "caps"
             PROVE  \E j \in DOMAIN q : j < i /\ q[j].kind = "gnss"
  BY DEF Asked
<1>1. /\ i \in Nat /\ \A j \in DOMAIN s : j \in DOMAIN q /\ q[j] = s[j]
      /\ \A j \in DOMAIN t : n + j \in DOMAIN q /\ q[n + j] = t[j] /\ j \in Nat
      /\ i \in DOMAIN s \/ (i - n \in DOMAIN t /\ i > n /\ q[i] = t[i - n])
  <2>1. i \in Nat /\ \A j \in DOMAIN t : j \in Nat
    OBVIOUS
  <2> QED BY <1>0, <2>1, SentIs
<1>2. CASE i \in DOMAIN s
  <2>1. PICK j \in DOMAIN s : j < i /\ s[j].kind = "gnss"
    BY <1>1, <1>2 DEF Asked
  <2> QED BY <1>1, <2>1
<1>3. CASE i - n \in DOMAIN t /\ i > n /\ q[i] = t[i - n]
  <2>1. t[i - n].kind = "caps"
    BY <1>3
  <2>2. PICK j \in DOMAIN t : j < i - n /\ t[j].kind = "gnss"
    BY <1>3, <2>1 DEF Asked
  <2>3. n + j \in DOMAIN q /\ q[n + j].kind = "gnss" /\ n + j < i
    BY SMTT(30), <1>1, <2>2
  <2> QED BY <2>3
<1> QED BY <1>1, <1>2, <1>3

-----------------------------------------------------------------------------
(* What a call leaves as it was.                                            *)

\* A setting is settled if its value is sent, or did not change.
LEMMA SettledSent ==
  ASSUME HalTyped, NEW k \in Lasting, NEW kinds, NEW t \in Seq(HalMsg), queue' = queue \o t,
         engine'[k] = engine[k], Renews(k) => resend' = resend \/ \E i \in DOMAIN t : t[i].kind = k,
         \A i \in DOMAIN t : t[i].kind = k => t[i].value = KnownHere'[k],
         \/ Settled(k, kinds) /\ KnownHere'[k] = KnownHere[k]
         \/ \E i \in DOMAIN t : t[i].kind = k
  PROVE  Settled(k, kinds)'
<1>1. PICK v : v = KnownHere'[k]
  OBVIOUS
<1>2. queue \in Seq(HalMsg)
  BY DEF HalTyped
<1>3. ASSUME Lands(k, v, queue) \/ \E i \in DOMAIN t : t[i].kind = k
      PROVE  Settled(k, kinds)'
  <2>1. PICK q : q = queue \o t
    OBVIOUS
  <2>2. Lands(k, v, q)
    BY <1>1, <1>2, <1>3, <2>1, LandsSent
  <2>3. Lands(k, v, q)'
    BY <2>2 DEF Lands
  <2> QED BY <1>1, <2>1, <2>3 DEF Settled, Lands
<1>4. ASSUME Awaited(kinds) PROVE Awaited(kinds)'
  <2>1. \A i \in DOMAIN queue : i \in DOMAIN queue' /\ queue'[i] = queue[i]
    BY <1>2, SentIs
  <2> QED BY <1>4, <2>1 DEF Awaited
<1>5. ASSUME Renews(k), resend' = resend PROVE Renews(k)'
  BY <1>5 DEF Renews
<1> QED BY <1>1, <1>3, <1>4, <1>5 DEF Settled

\* A resending handler waits as long as nothing but others is taken.
LEMMA AwaitedSent ==
  ASSUME HalTyped, NEW kinds, NEW t \in Seq(HalMsg), queue' = queue \o t,
         Awaited(kinds) \/ \E i \in DOMAIN t : t[i].kind \in kinds
  PROVE  Awaited(kinds)'
<1>1. queue \in Seq(HalMsg)
  BY DEF HalTyped
<1>2. /\ \A i \in DOMAIN queue : i \in DOMAIN queue' /\ queue'[i] = queue[i]
      /\ \A i \in DOMAIN t : Len(queue) + i \in DOMAIN queue' /\ queue'[Len(queue) + i] = t[i]
  BY <1>1, SentIs
<1> QED BY <1>2 DEF Awaited

LEMMA CapsKept ==
  ASSUME HalTyped, MeasurementsAsked, AloneTarget,
         NEW t \in Seq(HalMsg), queue' = queue \o t,
         \A i \in DOMAIN t : t[i].kind # "caps",
         resend' = resend, RealCaps' \in {RealCaps, Masked(RealCaps)},
         "MEASUREMENTS" \in conf'.caps => "MEASUREMENTS" \in RealCaps \cup conf.caps,
         UNCHANGED <<measures, capsTold, ulpTold, sGnssType, misread>>
  PROVE  MeasurementsAsked' /\ AloneTarget'
<1>1. ("MEASUREMENTS" \in RealCaps' <=> "MEASUREMENTS" \in RealCaps)
      /\ (Assisted \cap RealCaps = {} => Assisted \cap RealCaps' = {})
  BY DEF Masked, Assisted
<1>2. queue \in Seq(HalMsg) /\ Asked(t)
  BY DEF HalTyped, Asked
<1>3. Asked(queue) => Asked(queue)'
  <2>1. Asked(queue) => Asked(queue \o t)
    BY <1>2, AskedSent
  <2> QED BY <1>1, <2>1 DEF Asked
<1>4. resend # Nothing /\ Asked(resend.msgs) => Asked(resend.msgs)'
  BY <1>1 DEF Asked
<1>5. MeasurementsTold => MeasurementsTold'
  BY DEF MeasurementsTold
<1>6. MeasurementsAsked'
  BY <1>1, <1>3, <1>4, <1>5 DEF MeasurementsAsked
<1>7. AloneTarget'
  BY <1>1 DEF AloneTarget, StandaloneTarget
<1> QED BY <1>6, <1>7

LEMMA VoteIs ==
  ASSUME engine \in EngineSet, NEW v \in VoteSet, Vote(v)
  PROVE  /\ engine' \in EngineSet /\ \A k \in Lasting : engine'[k] = engine[k]
         /\ v.right /\ engineRuns => engine'.power = v.up
         /\ engine' # engine => v.right /\ engineRuns
<1>1. v.up \in BOOLEAN
  BY DEF VoteSet
<1> QED BY <1>1 DEF Vote, EngineSet, Lasting

-----------------------------------------------------------------------------
(* The framework's calls.                                                   *)

\* A call that sends t: what it changes is sent, unless everything will be.
LEMMA CallKeeps ==
  ASSUME HalInv, HalTyped', NEW t \in Seq(HalMsg), queue' = queue \o t,
         \A i \in DOMAIN t : t[i].kind # "caps" /\ (t[i].kind \in Lasting => t[i].value = KnownHere'[t[i].kind]),
         RealCaps' \in {RealCaps, Masked(RealCaps)},
         "MEASUREMENTS" \in conf'.caps => "MEASUREMENTS" \in RealCaps \cup conf.caps,
         UNCHANGED <<resend, measures, capsTold, ulpTold, sGnssType, engineRuns, misread>>,
         \A k \in Lasting : engine'[k] = engine[k],
         \A k \in Lasting \ behind' : ~Renews(k) \/ (k \notin behind /\ KnownHere'[k] = KnownHere[k]),
         adapter' => \/ Sends(t, "init")
                     \/ /\ adapter
                        /\ \A k \in (Lasting \ {"url"}) \ behind' :
                             Sends(t, k) \/ (k \notin behind /\ KnownHere'[k] = KnownHere[k]),
         agps' /\ nif' /\ suplHost' # NoHost /\ "url" \notin behind' =>
           \/ Sends(t, "url")
           \/ agps /\ nif /\ suplHost # NoHost /\ suplHost' = suplHost /\ "url" \notin behind,
         \/ vote' = vote /\ engine' = engine /\ (adapter' => adapter) /\ ("power" \in behind => "power" \in behind')
         \/ /\ vote'.right /\ engineRuns => engine'.power = vote'.up
            /\ "power" \in behind' \/ resend = Nothing \/ resend.kind # "up",
         ServerKnown', Sends(t, "url") => adapter' /\ suplHost' # NoHost,
         adapter /\ suplHost # NoHost => adapter' /\ suplHost' # NoHost
  PROVE  HalInv'
<1>1. HalTyped /\ ReadRight /\ SettingsComing /\ NoServer /\ MeasurementsAsked /\ AloneTarget
      /\ queue \in Seq(HalMsg)
  BY DEF HalInv, HalTyped
<1>2. ReadRight'
  <2>1. ASSUME resend' # Nothing, NEW i \in DOMAIN resend.msgs, NEW k \in Lasting \ behind',
               resend.msgs[i].kind = k
        PROVE  resend.msgs[i].value = KnownHere'[k]
    <3>1. Renews(k)
      BY <2>1 DEF Renews
    <3>2. k \notin behind /\ KnownHere'[k] = KnownHere[k]
      BY <3>1
    <3> QED BY <1>1, <2>1, <3>2 DEF ReadRight
  <2>2. resend # Nothing => (Renews("ver") /\ Renews("sensors") /\ Renews("data"))'
    BY <1>1 DEF ReadRight, Renews
  <2>3. resend' # Nothing /\ resend'.kind = "up" /\ "power" \notin behind' => resend'.vote = vote'
    BY <1>1 DEF ReadRight
  <2> QED BY <2>1, <2>2, <2>3 DEF ReadRight
<1>3. MeasurementsAsked' /\ AloneTarget'
  BY <1>1, CapsKept
<1>4. ASSUME adapter', engineRuns, NEW k \in (Lasting \ {"url"}) \ behind'
      PROVE  Settled(k, {"init", "up"})'
  <2>1. CASE Sends(t, "init")
    <3>1. Awaited({"init", "up"})'
      BY <1>1, <2>1, AwaitedSent DEF Sends
    <3> QED BY <3>1 DEF Settled
  <2>2. CASE ~Sends(t, "init")
    <3>1. \A i \in DOMAIN t : t[i].kind = k => t[i].value = KnownHere'[k]
      OBVIOUS
    <3>2. Sends(t, k) \/ (k \notin behind /\ KnownHere'[k] = KnownHere[k])
      BY <1>4, <2>2
    <3>3. Sends(t, k) \/ (Settled(k, {"init", "up"}) /\ KnownHere'[k] = KnownHere[k])
      BY <1>1, <1>4, <2>2, <3>2 DEF SettingsComing
    <3> QED BY <1>1, <3>1, <3>3, SettledSent DEF Sends
  <2> QED BY <2>1, <2>2
<1>5. ASSUME adapter', engineRuns, agps', nif', suplHost' # NoHost, "url" \notin behind'
      PROVE  Settled("url", {"up"})'
  <2>1. "url" \in Lasting /\ \A i \in DOMAIN t : t[i].kind = "url" => t[i].value = KnownHere'["url"]
    BY DEF Lasting
  <2>2. CASE Sends(t, "url")
    BY <1>1, <2>1, <2>2, SettledSent DEF Sends
  <2>3. CASE agps /\ nif /\ suplHost # NoHost /\ suplHost' = suplHost /\ "url" \notin behind
    <3>1. Settled("url", {"up"}) /\ KnownHere'["url"] = KnownHere["url"]
      BY <1>1, <1>5, <2>3 DEF SettingsComing, HalTyped, KnownHere
    <3> QED BY <1>1, <2>1, <3>1, SettledSent
  <2> QED BY <1>5, <2>2, <2>3
<1>6. ASSUME adapter', engineRuns, vote'.right, "power" \notin behind'
      PROVE  engine'.power = vote'.up \/ Awaited({"up"})' \/ (resend' # Nothing /\ resend'.kind = "up")
  <2>1. CASE vote' = vote /\ engine' = engine /\ (adapter' => adapter) /\ ("power" \in behind => "power" \in behind')
    <3>1. engine.power = vote.up \/ Awaited({"up"}) \/ (resend # Nothing /\ resend.kind = "up")
      BY <1>1, <1>6, <2>1 DEF SettingsComing
    <3>2. Awaited({"up"}) => Awaited({"up"})'
      BY <1>1, AwaitedSent
    <3> QED BY <2>1, <3>1, <3>2
  <2> QED BY <1>6, <2>1
<1>7. SettingsComing'
  BY <1>4, <1>5, <1>6 DEF SettingsComing
<1>8. NoServer'
  <2> SUFFICES ASSUME ~(adapter' /\ suplHost' # NoHost)
               PROVE  engine'["url"] = NoHost /\ ~Sends(queue', "url") /\ ~Renews("url")'
    BY DEF NoServer, Sends
  <2>1. engine["url"] = NoHost /\ ~Sends(queue, "url") /\ ~Renews("url") /\ ~Sends(t, "url")
    BY <1>1 DEF NoServer
  <2>2. ~Sends(queue', "url")
    BY <1>1, <2>1, SentIs DEF Sends
  <2> QED BY <2>1, <2>2 DEF Renews, Lasting
<1> QED BY <1>2, <1>3, <1>7, <1>8 DEF HalInv

LEMMA RememberedIs ==
  /\ KnownHere["ver"] = conf.ver /\ KnownHere["sensors"] = TRUE
  /\ KnownHere["data"] = agpsStatus /\ KnownHere["url"] = suplHost
  /\ KnownHere'["ver"] = conf'.ver /\ KnownHere'["sensors"] = TRUE
  /\ KnownHere'["data"] = agpsStatus' /\ KnownHere'["url"] = suplHost'
BY DEF KnownHere

\* A list of one message, and the empty one.
LEMMA OneSent ==
  ASSUME NEW m \in HalMsg
  PROVE  /\ <<m>> \in Seq(HalMsg) /\ DOMAIN <<m>> = {1} /\ <<m>>[1] = m
         /\ << >> \in Seq(HalMsg) /\ DOMAIN << >> = {}
  OBVIOUS

\* What a write does to the settings that are behind.
LEMMA WritesIs ==
  ASSUME HalTyped, NEW k \in Changeable, Writes(k)
  PROVE  /\ behind' \subseteq Changeable /\ \A j : j # k => (j \in behind' <=> j \in behind)
         /\ k \in behind' \/ ~AboutToSend(k)
         /\ k # "power" => k \in behind' \/ ~Renews(k)
         /\ k = "power" => k \in behind' \/ resend = Nothing \/ resend.kind # "up"
BY DEF HalTyped, Writes, AboutToSend, Renews

LEMMA InitCallKeeps ==
  ASSUME HalInv, loc_init
  PROVE  HalInv'
<1>1. /\ adapter' = TRUE /\ loc_eng_init /\ vote' = [right |-> sGnssType = "GNSS_QCA1530", up |-> TRUE]
      /\ Vote(vote') /\ Writes("power")
      /\ UNCHANGED <<conf, tmp, sGnssType, agpsStatus, resend, engineRuns, measures, capsTold,
                     ulpTold, misread, server, early, restarted>>
  BY DEF loc_init, settingTaskVars, givenVars
<1>2. vote' \in VoteSet /\ HalTyped
  BY <1>1 DEF VoteSet, HalInv
<1>7. /\ behind' \subseteq Changeable /\ \A j : j # "power" => (j \in behind' <=> j \in behind)
      /\ "power" \in behind' \/ resend = Nothing \/ resend.kind # "up"
  BY <1>1, <1>2, WritesIs DEF Changeable
<1>3. /\ engine' \in EngineSet /\ \A k \in Lasting : engine'[k] = engine[k]
      /\ engineRuns /\ vote'.right => engine'.power = vote'.up
  <2>1. PICK v \in VoteSet : v = vote'
    BY <1>2
  <2>2. Vote(v) /\ engine \in EngineSet
    BY <1>1, <1>2, <2>1 DEF Vote, HalTyped
  <2> QED BY <2>1, <2>2, VoteIs
<1>4. RealCaps' = RealCaps
  BY <1>1 DEF RealCaps
<1>5. CASE adapter
  <2>1. UNCHANGED <<suplHost, agps, nif, queue>>
    BY <1>1, <1>5 DEF loc_eng_init
  <2>2. HalTyped'
    BY <1>1, <1>2, <1>3, <1>7, <2>1 DEF HalTyped
  <2>3. queue' = queue \o << >> /\ << >> \in Seq(HalMsg) /\ DOMAIN << >> = {} /\ ~Sends(<< >>, "url")
    BY <1>2, <2>1 DEF HalTyped, Sends
  <2>4. \A k \in Lasting : KnownHere'[k] = KnownHere[k] /\ (k \notin behind' => k \notin behind)
    BY <1>1, <1>7, <2>1 DEF KnownHere, Lasting
  <2>5. ServerKnown' /\ "url" \in Lasting
    BY <1>1, <1>5, <2>1 DEF ServerKnown, HalInv, Lasting
  <2> QED BY <1>1, <1>3, <1>4, <1>5, <1>7, <2>1, <2>2, <2>3, <2>4, <2>5, CallKeeps DEF HalInv, HalTyped
<1>6. CASE ~adapter
  <2>1. suplHost' = NoHost /\ agps' = FALSE /\ nif' = FALSE /\ queue' = queue \o <<Msg("init", 0)>>
    BY <1>1, <1>6 DEF loc_eng_init, Send
  <2>2. Msg("init", 0) \in HalMsg /\ Msg("init", 0).kind = "init"
    BY DEF Msg, HalMsg
  <2>3. /\ <<Msg("init", 0)>> \in Seq(HalMsg) /\ Sends(<<Msg("init", 0)>>, "init")
        /\ \A i \in DOMAIN <<Msg("init", 0)>> : <<Msg("init", 0)>>[i].kind = "init"
    BY <2>2, OneSent DEF Sends
  <2>4. queue' \in Seq(HalMsg)
    BY <1>2, <2>1, <2>3 DEF HalTyped
  <2>5. HalTyped'
    BY <1>1, <1>2, <1>3, <1>7, <2>1, <2>4 DEF HalTyped
  <2>6. \A k \in Lasting \ behind' : k = "url" \/ (k \notin behind /\ KnownHere'[k] = KnownHere[k])
    BY <1>1, <1>7, RememberedIs DEF Lasting
  <2>7. ServerKnown' /\ ~Sends(<<Msg("init", 0)>>, "url") /\ ~Renews("url")
    BY <1>1, <1>6, <2>1, <2>3 DEF ServerKnown, NoServer, HalInv, Sends
  <2>8. PICK t \in Seq(HalMsg) : t = <<Msg("init", 0)>>
    BY <2>3
  <2>9. /\ queue' = queue \o t /\ Sends(t, "init") /\ ~Sends(t, "url")
        /\ \A i \in DOMAIN t : t[i].kind # "caps" /\ t[i].kind \notin Lasting
    BY <2>1, <2>3, <2>7, <2>8 DEF Lasting
  <2>10. \A k \in Lasting \ behind' : ~Renews(k) \/ (k \notin behind /\ KnownHere'[k] = KnownHere[k])
    BY <2>6, <2>7
  <2> HIDE DEF KnownHere, HalInv
  <2> QED BY <1>1, <1>3, <1>4, <1>6, <1>7, <2>1, <2>5, <2>7, <2>9, <2>10, CallKeeps
<1> QED BY <1>2, <1>5, <1>6 DEF HalTyped

LEMMA CleanupKeeps ==
  ASSUME HalInv, loc_cleanup
  PROVE  HalInv'
<1>1. /\ vote' = [vote EXCEPT !.up = FALSE] /\ Vote(vote') /\ Writes("power")
      /\ UNCHANGED <<conf, tmp, queue, sGnssType, adapter, suplHost, agps, nif, agpsStatus, resend,
                     engineRuns, measures, capsTold, ulpTold, misread, server, early, restarted>>
  BY DEF loc_cleanup, halVars, settingTaskVars, givenVars
<1>2. vote' \in VoteSet /\ HalTyped
  BY <1>1 DEF VoteSet, HalInv, HalTyped
<1>3. /\ engine' \in EngineSet /\ \A k \in Lasting : engine'[k] = engine[k]
      /\ engineRuns /\ vote'.right => engine'.power = vote'.up
  <2>1. PICK v \in VoteSet : v = vote'
    BY <1>2
  <2>2. Vote(v) /\ engine \in EngineSet
    BY <1>1, <1>2, <2>1 DEF Vote, HalTyped
  <2> QED BY <2>1, <2>2, VoteIs
<1>7. /\ behind' \subseteq Changeable /\ \A j : j # "power" => (j \in behind' <=> j \in behind)
      /\ "power" \in behind' \/ resend = Nothing \/ resend.kind # "up"
  BY <1>1, <1>2, WritesIs DEF Changeable
<1>4. RealCaps' = RealCaps /\ "url" \in Lasting
      /\ \A k \in Lasting : KnownHere'[k] = KnownHere[k] /\ (k \notin behind' => k \notin behind)
  BY <1>1, <1>7 DEF RealCaps, KnownHere, Lasting
<1>5. HalTyped'
  BY <1>1, <1>2, <1>3, <1>7 DEF HalTyped
<1>6. /\ queue' = queue \o << >> /\ << >> \in Seq(HalMsg) /\ DOMAIN << >> = {} /\ ~Sends(<< >>, "url")
      /\ ServerKnown'
  BY <1>1, <1>2 DEF HalTyped, Sends, ServerKnown, HalInv
<1> QED BY <1>1, <1>3, <1>4, <1>5, <1>6, <1>7, CallKeeps DEF HalInv, HalTyped

LEMMA AgpsCallKeeps ==
  ASSUME HalInv, loc_eng_agps_init
  PROVE  HalInv'
<1>1. /\ adapter /\ agps' = TRUE /\ nif' = (conf.caps \cap Assisted # {})
      /\ queue' = queue \o (IF nif' THEN loc_eng_agps_reinit ELSE << >>)
      /\ UNCHANGED <<conf, tmp, sGnssType, adapter, suplHost, agpsStatus, vote, engine, behind,
                     resend, engineRuns, measures, capsTold, ulpTold, misread, server, early, restarted>>
  BY DEF loc_eng_agps_init, Send, settingTaskVars, givenVars
<1>2. HalTyped
  BY DEF HalInv
<1>3. RealCaps' = RealCaps /\ KnownHere' = KnownHere
  BY <1>1 DEF RealCaps, KnownHere
<1>4. PICK t : t = IF nif' THEN loc_eng_agps_reinit ELSE << >>
  OBVIOUS
<1>5. /\ t \in Seq(HalMsg)
      /\ \A i \in DOMAIN t : t[i].kind = "url" /\ t[i].value = suplHost
      /\ nif' /\ suplHost # NoHost => Sends(t, "url")
      /\ Sends(t, "url") => suplHost # NoHost
  <2>1. CASE nif' /\ suplHost # NoHost
    <3>1. Msg("url", suplHost) \in HalMsg /\ Msg("url", suplHost).kind = "url"
          /\ Msg("url", suplHost).value = suplHost
      BY <1>2, <2>1 DEF HalTyped, Msg, HalMsg
    <3>2. t = <<Msg("url", suplHost)>>
      BY <1>4, <2>1 DEF loc_eng_agps_reinit
    <3> QED BY <2>1, <3>1, <3>2, OneSent DEF Sends
  <2>2. CASE ~(nif' /\ suplHost # NoHost)
    <3>1. t = << >>
      BY <1>4, <2>2 DEF loc_eng_agps_reinit
    <3> QED BY <2>2, <3>1 DEF Sends
  <2> QED BY <2>1, <2>2
<1>6. HalTyped'
  <2>1. queue' \in Seq(HalMsg)
    BY <1>1, <1>2, <1>4, <1>5 DEF HalTyped
  <2>2. nif' \in BOOLEAN
    BY <1>1
  <2> QED BY <1>1, <1>2, <2>1, <2>2 DEF HalTyped
<1>7. \A i \in DOMAIN t : t[i].kind # "caps" /\ (t[i].kind \in Lasting => t[i].value = KnownHere'[t[i].kind])
  BY <1>1, <1>5 DEF KnownHere
<1>8. queue' = queue \o t /\ ServerKnown'
  BY <1>1, <1>4 DEF ServerKnown, HalInv
<1> QED BY <1>1, <1>2, <1>3, <1>5, <1>6, <1>7, <1>8, CallKeeps DEF HalTyped

LEMMA ServerCallKeeps ==
  ASSUME HalInv, NEW h \in Host, loc_eng_set_server_proxy(h)
  PROVE  HalInv'
<1>1. /\ suplHost' = h /\ Writes("url") /\ server' = h /\ early' = ~adapter
      /\ queue' = queue \o (IF adapter THEN <<Msg("url", h)>> ELSE << >>)
      /\ UNCHANGED <<conf, tmp, sGnssType, adapter, agps, nif, agpsStatus, vote, engine,
                     resend, engineRuns, measures, capsTold, ulpTold, misread, restarted>>
  BY DEF loc_eng_set_server_proxy, Send, settingTaskVars
<1>2. HalTyped
  BY DEF HalInv
<1>3. RealCaps' = RealCaps
  BY <1>1 DEF RealCaps
<1>4. PICK t : t = IF adapter THEN <<Msg("url", h)>> ELSE << >>
  OBVIOUS
<1>5. Msg("url", h) \in HalMsg /\ Msg("url", h).kind = "url" /\ Msg("url", h).value = h
  BY DEF Msg, HalMsg
<1>6. /\ t \in Seq(HalMsg)
      /\ \A i \in DOMAIN t : t[i].kind = "url" /\ t[i].value = h
      /\ adapter <=> Sends(t, "url")
  BY <1>4, <1>5, OneSent DEF Sends
<1>11. /\ behind' \subseteq Changeable /\ \A j : j # "url" => (j \in behind' <=> j \in behind)
       /\ "url" \in behind' \/ ~Renews("url")
  BY <1>1, <1>2, WritesIs DEF Changeable
<1>7. HalTyped'
  <2>1. queue' \in Seq(HalMsg)
    BY <1>1, <1>2, <1>4, <1>6 DEF HalTyped
  <2>2. early' \in BOOLEAN /\ suplHost' \in Host \cup {NoHost} /\ server' \in Host \cup {NoHost}
    BY <1>1
  <2> QED BY <1>1, <1>2, <1>11, <2>1, <2>2 DEF HalTyped
<1>8. \A i \in DOMAIN t : t[i].kind # "caps" /\ (t[i].kind \in Lasting => t[i].value = KnownHere'[t[i].kind])
  BY <1>1, <1>6 DEF KnownHere
<1>9. queue' = queue \o t
      /\ \A k \in Lasting \ {"url"} : KnownHere'[k] = KnownHere[k] /\ (k \notin behind' => k \notin behind)
  BY <1>1, <1>4, <1>11, RememberedIs DEF Lasting
<1>10. /\ agps' => Sends(t, "url")
       /\ suplHost' # NoHost
       /\ ServerKnown'
  BY <1>1, <1>2, <1>6, HostAssumption DEF HalTyped, ServerKnown
<1>12. \A k \in Lasting \ behind' : ~Renews(k) \/ (k \notin behind /\ KnownHere'[k] = KnownHere[k])
  BY <1>9, <1>11
<1> QED BY <1>1, <1>2, <1>3, <1>6, <1>7, <1>8, <1>9, <1>10, <1>11, <1>12, CallKeeps DEF HalTyped

LEMMA NetworkCallKeeps ==
  ASSUME HalInv, NEW on \in BOOLEAN, NEW apn \in BOOLEAN, update_network_availability(on, apn)
  PROVE  HalInv'
<1>1. /\ agpsStatus' = on
      /\ IF adapter /\ ~apn THEN behind' = behind \cup {"data"} ELSE Writes("data")
      /\ queue' = queue \o (IF adapter /\ apn THEN <<Msg("data", on)>> ELSE << >>)
      /\ UNCHANGED <<conf, tmp, sGnssType, adapter, suplHost, agps, nif, vote, engine,
                     resend, engineRuns, measures, capsTold, ulpTold, misread, server, early, restarted>>
  BY DEF update_network_availability, Send, settingTaskVars, givenVars
<1>2. HalTyped
  BY DEF HalInv
<1>3. RealCaps' = RealCaps
  BY <1>1 DEF RealCaps
<1>4. PICK t : t = IF adapter /\ apn THEN <<Msg("data", on)>> ELSE << >>
  OBVIOUS
<1>5. Msg("data", on) \in HalMsg /\ Msg("data", on).kind = "data" /\ Msg("data", on).value = on
  BY DEF Msg, HalMsg
<1>6. /\ t \in Seq(HalMsg)
      /\ \A i \in DOMAIN t : t[i].kind = "data" /\ t[i].value = on
      /\ adapter /\ apn => Sends(t, "data")
      /\ ~Sends(t, "url")
  BY <1>4, <1>5, OneSent DEF Sends
<1>13. /\ behind' \subseteq Changeable /\ \A j : j # "data" => (j \in behind' <=> j \in behind)
       /\ "data" \in behind' \/ (~Renews("data") /\ (adapter => apn))
  BY <1>1, <1>2, WritesIs DEF Changeable, HalTyped
<1>7. HalTyped'
  <2>1. queue' \in Seq(HalMsg)
    BY <1>1, <1>2, <1>4, <1>6 DEF HalTyped
  <2> QED BY <1>1, <1>2, <1>13, <2>1 DEF HalTyped
<1>8. \A i \in DOMAIN t : t[i].kind # "caps" /\ (t[i].kind \in Lasting => t[i].value = KnownHere'[t[i].kind])
  BY <1>1, <1>6 DEF KnownHere
<1>9. queue' = queue \o t
      /\ \A k \in Lasting \ {"data"} : KnownHere'[k] = KnownHere[k] /\ (k \notin behind' => k \notin behind)
  BY <1>1, <1>4, <1>13, RememberedIs DEF Lasting
<1>10. adapter' => adapter /\ \A k \in (Lasting \ {"url"}) \ behind' :
                                Sends(t, k) \/ (k \notin behind /\ KnownHere'[k] = KnownHere[k])
  BY <1>1, <1>6, <1>9, <1>13
<1>11. \A k \in Lasting \ behind' : ~Renews(k) \/ (k \notin behind /\ KnownHere'[k] = KnownHere[k])
  BY <1>9, <1>13
<1>12. ServerKnown' /\ ("url" \in behind' <=> "url" \in behind) /\ ("power" \in behind' <=> "power" \in behind)
  BY <1>1, <1>13 DEF ServerKnown, HalInv
<1> QED BY <1>1, <1>3, <1>6, <1>7, <1>8, <1>9, <1>10, <1>11, <1>12, CallKeeps

LEMMA UpdateKeeps ==
  ASSUME HalInv, NEW new \in [ver : Ver, mode : {{}, Assisted}, caps : {Assisted}],
         configuration_update(new)
  PROVE  HalInv'
<1> DEFINE a == IF new.ver # conf.ver THEN <<Msg("ver", new.ver)>> ELSE << >>
           b == IF new.mode # conf.mode THEN <<Msg("mode", 0)>> ELSE << >>
<1>1. /\ tmp = NoCopy /\ conf' = new /\ tmp' = conf
      /\ IF new.ver # conf.ver THEN Writes("ver") ELSE UNCHANGED behind
      /\ queue' = queue \o (IF ~adapter THEN << >> ELSE a \o b)
      /\ UNCHANGED <<sGnssType, adapter, suplHost, agps, nif, agpsStatus, vote, engine,
                     resend, engineRuns, measures, capsTold, ulpTold, misread, server, early, restarted>>
  BY DEF configuration_update, FrameworkCall, Send, settingTaskVars, givenVars, halVars
<1>2. HalTyped /\ new \in ConfSet
  BY DEF HalInv, ConfSet
<1>3. RealCaps' = RealCaps
  <2>1. "mode" \in DOMAIN conf /\ "mode" \notin DOMAIN NoCopy
    BY <1>2 DEF HalTyped, ConfSet, NoCopy
  <2>2. conf # NoCopy
    BY <2>1
  <2>3. tmp' # NoCopy /\ tmp'.caps = conf.caps
    BY <1>1, <2>2
  <2> QED BY <1>1, <2>3 DEF RealCaps
<1>4. /\ a \in Seq(HalMsg) /\ \A i \in DOMAIN a : a[i].kind = "ver" /\ a[i].value = new.ver
      /\ new.ver # conf.ver => Sends(a, "ver")
  <2>1. Msg("ver", new.ver) \in HalMsg /\ Msg("ver", new.ver).kind = "ver" /\ Msg("ver", new.ver).value = new.ver
    BY <1>2 DEF ConfSet, Msg, HalMsg
  <2> QED BY <2>1, OneSent DEF Sends
<1>5. b \in Seq(HalMsg) /\ \A i \in DOMAIN b : b[i].kind = "mode"
  <2>1. Msg("mode", 0) \in HalMsg /\ Msg("mode", 0).kind = "mode"
    BY DEF Msg, HalMsg
  <2> QED BY <2>1, OneSent
<1> HIDE DEF a, b
<1>6. PICK t : t = IF ~adapter THEN << >> ELSE a \o b
  OBVIOUS
<1>7. /\ t \in Seq(HalMsg)
      /\ \A i \in DOMAIN t : t[i].kind \in {"ver", "mode"} /\ (t[i].kind = "ver" => t[i].value = new.ver)
      /\ adapter /\ new.ver # conf.ver => Sends(t, "ver")
      /\ ~Sends(t, "url")
  <2>1. CASE adapter
    <3>1. t = a \o b
      BY <1>6, <2>1
    <3>2. /\ t \in Seq(HalMsg) /\ \A i \in DOMAIN a : i \in DOMAIN t /\ t[i] = a[i]
          /\ \A i \in DOMAIN t : \/ i \in DOMAIN a
                                 \/ i - Len(a) \in DOMAIN b /\ t[i] = b[i - Len(a)]
      BY <1>4, <1>5, <3>1, SentIs
    <3>3. \A i \in DOMAIN t : t[i].kind \in {"ver", "mode"} /\ (t[i].kind = "ver" => t[i].value = new.ver)
      BY <1>4, <1>5, <3>2
    <3>4. ~Sends(t, "url")
      BY <3>3 DEF Sends
    <3>5. adapter /\ new.ver # conf.ver => Sends(t, "ver")
      BY <1>4, <3>2 DEF Sends
    <3> QED BY <3>2, <3>3, <3>4, <3>5
  <2>2. CASE ~adapter
    <3>1. t = << >>
      BY <1>6, <2>2
    <3> QED BY <2>2, <3>1 DEF Sends
  <2> QED BY <2>1, <2>2
<1>13. /\ behind' \subseteq Changeable /\ \A j : j # "ver" => (j \in behind' <=> j \in behind)
       /\ "ver" \in behind' \/ ~Renews("ver") \/ (new.ver = conf.ver /\ "ver" \notin behind)
       /\ new.ver = conf.ver => behind' = behind
  BY <1>1, <1>2, WritesIs DEF Changeable, HalTyped
<1>8. HalTyped'
  <2>1. queue' \in Seq(HalMsg)
    BY <1>1, <1>2, <1>6, <1>7 DEF HalTyped
  <2>2. conf' \in ConfSet /\ tmp' \in ConfSet \cup {NoCopy}
    BY <1>1, <1>2 DEF HalTyped
  <2> QED BY <1>1, <1>2, <1>13, <2>1, <2>2 DEF HalTyped
<1>9. \A i \in DOMAIN t : t[i].kind # "caps" /\ (t[i].kind \in Lasting => t[i].value = KnownHere'[t[i].kind])
  BY <1>1, <1>7, RememberedIs DEF Lasting
<1>10. adapter' => adapter /\ \A k \in (Lasting \ {"url"}) \ behind' :
                                Sends(t, k) \/ (k \notin behind /\ KnownHere'[k] = KnownHere[k])
  BY <1>1, <1>7, <1>13, RememberedIs DEF Lasting
<1>11. \A k \in Lasting \ behind' : ~Renews(k) \/ (k \notin behind /\ KnownHere'[k] = KnownHere[k])
  BY <1>1, <1>13, RememberedIs DEF Lasting
<1>12. /\ queue' = queue \o t /\ ServerKnown' /\ "MEASUREMENTS" \notin conf'.caps
       /\ ("url" \in behind' <=> "url" \in behind) /\ ("power" \in behind' <=> "power" \in behind)
  BY <1>1, <1>6, <1>13 DEF ServerKnown, HalInv, Assisted
<1> QED BY <1>1, <1>3, <1>7, <1>8, <1>9, <1>10, <1>11, <1>12, CallKeeps

LEMMA RestoreKeeps ==
  ASSUME HalInv, configuration_restore
  PROVE  HalInv'
<1>1. /\ tmp # NoCopy /\ tmp' = NoCopy /\ conf' = [tmp EXCEPT !.ver = conf.ver, !.caps = Masked(@)]
      /\ UNCHANGED <<queue, behind, sGnssType, adapter, suplHost, agps, nif, agpsStatus, vote, engine,
                     resend, engineRuns, measures, capsTold, ulpTold, misread, server, early, restarted>>
  BY DEF configuration_restore, settingTaskVars, givenVars, halVars
<1>2. HalTyped /\ tmp \in ConfSet /\ conf \in ConfSet
  BY <1>1 DEF HalInv, HalTyped
<1>3. conf' \in ConfSet /\ conf'.ver = conf.ver /\ conf'.caps = Masked(tmp.caps)
  BY <1>1, <1>2 DEF ConfSet, Masked
<1>4. RealCaps' = Masked(RealCaps)
  BY <1>1, <1>3 DEF RealCaps
<1>5. KnownHere' = KnownHere
  BY <1>1, <1>3 DEF KnownHere
<1>6. HalTyped'
  BY <1>1, <1>2, <1>3 DEF HalTyped
<1>7. queue' = queue \o << >> /\ << >> \in Seq(HalMsg) /\ DOMAIN << >> = {} /\ ~Sends(<< >>, "url")
  BY <1>1, <1>2 DEF HalTyped, Sends
<1>8. ServerKnown' /\ ("MEASUREMENTS" \in conf'.caps => "MEASUREMENTS" \in RealCaps)
  BY <1>1, <1>3 DEF ServerKnown, HalInv, RealCaps, Masked
<1>9. \A k \in Lasting : engine'[k] = engine[k] /\ KnownHere'[k] = KnownHere[k]
  BY <1>1, <1>5
<1> QED BY <1>1, <1>4, <1>6, <1>7, <1>8, <1>9, CallKeeps

-----------------------------------------------------------------------------
(* The message task.                                                        *)

LEMMA SettingTaken ==
  ASSUME HalTyped, queue # << >>, queue' = Tail(queue)
  PROVE  /\ queue' \in Seq(HalMsg) /\ 1 \in DOMAIN queue /\ Head(queue) = queue[1] /\ queue[1] \in HalMsg
         /\ \A i \in DOMAIN queue' : i \in Nat /\ i + 1 \in DOMAIN queue /\ queue'[i] = queue[i + 1]
         /\ \A i \in DOMAIN queue : i \in Nat /\ (i = 1 \/ (i - 1 \in DOMAIN queue' /\ i > 1 /\ queue'[i - 1] = queue[i]))
<1>1. queue \in Seq(HalMsg)
  BY DEF HalTyped
<1> QED BY <1>1

LEMMA AwaitedTaken ==
  ASSUME HalTyped, NEW kinds, queue # << >>, queue' = Tail(queue), Awaited(kinds),
         queue[1].kind \notin kinds
  PROVE  Awaited(kinds)'
BY SettingTaken DEF Awaited

LEMMA SettledTaken ==
  ASSUME HalTyped, resend = Nothing, NEW k \in Lasting, NEW kinds, queue # << >>, queue' = Tail(queue),
         Settled(k, kinds), queue[1].kind \notin kinds, KnownHere'[k] = KnownHere[k],
         engine'[k] = IF queue[1].kind = k THEN queue[1].value ELSE engine[k]
  PROVE  Settled(k, kinds)'
<1>1. CASE Lands(k, KnownHere[k], queue)
  <2>1. PICK v : v = KnownHere[k]
    OBVIOUS
  <2>2. queue \in Seq(HalMsg)
    BY DEF HalTyped
  <2>3. PICK q : q = Tail(queue)
    OBVIOUS
  <2>4. Lands(k, v, queue)
    BY <1>1, <2>1
  <2>5. Lands(k, v, q)'
    BY <2>2, <2>3, <2>4, LandsTaken
  <2> QED BY <2>1, <2>3, <2>5 DEF Settled, Lands
<1>2. CASE Awaited(kinds)
  BY <1>2, AwaitedTaken DEF Settled
<1>3. ~Renews(k)
  BY DEF Renews
<1> QED BY <1>1, <1>2, <1>3 DEF Settled

LEMMA AskedTaken ==
  ASSUME HalTyped, queue # << >>, queue' = Tail(queue), Asked(queue), queue[1].kind # "gnss",
         RealCaps' = RealCaps, measures' = measures
  PROVE  Asked(queue)'
<1> SUFFICES ASSUME measures, "MEASUREMENTS" \notin RealCaps, NEW i \in DOMAIN queue', queue'[i].kind = "caps"
             PROVE  \E j \in DOMAIN queue' : j < i /\ queue'[j].kind = "gnss"
  BY DEF Asked
<1>1. i \in Nat /\ i + 1 \in DOMAIN queue /\ queue[i + 1].kind = "caps"
  BY SettingTaken
<1>2. PICK j \in DOMAIN queue : j < i + 1 /\ queue[j].kind = "gnss"
  BY <1>1 DEF Asked
<1>3. j - 1 \in DOMAIN queue' /\ queue'[j - 1] = queue[j] /\ j \in Nat
  BY <1>2, SettingTaken
<1> QED BY <1>1, <1>2, <1>3

\* What a resending handler reads.
LEMMA FourSent ==
  ASSUME NEW a \in HalMsg, NEW b \in HalMsg, NEW c \in HalMsg, NEW d \in HalMsg
  PROVE  /\ <<a, b, c, d>> \in Seq(HalMsg) /\ DOMAIN <<a, b, c, d>> = {1, 2, 3, 4}
         /\ <<a, b, c, d>>[1] = a /\ <<a, b, c, d>>[2] = b /\ <<a, b, c, d>>[3] = c
         /\ <<a, b, c, d>>[4] = d
  OBVIOUS

LEMMA ReadIs ==
  ASSUME HalTyped, NEW e \in Seq(HalMsg),
         \A i \in DOMAIN e : e[i].kind \in {"caps", "url"} /\ (e[i].kind = "url" => e[i].value = suplHost)
  PROVE  LET r == loc_eng_reinit \o e IN
         /\ r \in Seq(HalMsg) /\ 1 \in DOMAIN r /\ r[1].kind = "gnss"
         /\ \A k \in {"ver", "sensors", "data"} : Sends(r, k)
         /\ Sends(e, "url") <=> Sends(r, "url")
         /\ \A i \in DOMAIN r, k \in Lasting : r[i].kind = k => r[i].value = KnownHere[k]
<1>1. /\ Msg("gnss", 0) \in HalMsg /\ Msg("ver", conf.ver) \in HalMsg /\ Msg("sensors", TRUE) \in HalMsg
      /\ Msg("data", agpsStatus) \in HalMsg
  BY DEF HalTyped, ConfSet, Msg, HalMsg
<1>2. PICK f \in Seq(HalMsg) : f = loc_eng_reinit
  BY <1>1, FourSent DEF loc_eng_reinit
<1>3. /\ DOMAIN f = {1, 2, 3, 4}
      /\ f[1] = Msg("gnss", 0) /\ f[2] = Msg("ver", conf.ver) /\ f[3] = Msg("sensors", TRUE)
      /\ f[4] = Msg("data", agpsStatus)
  BY <1>1, <1>2, FourSent DEF loc_eng_reinit
<1>4. PICK r : r = f \o e
  OBVIOUS
<1>5. /\ r \in Seq(HalMsg) /\ \A i \in DOMAIN f : i \in DOMAIN r /\ r[i] = f[i]
      /\ \A i \in DOMAIN e : Len(f) + i \in DOMAIN r /\ r[Len(f) + i] = e[i]
      /\ \A i \in DOMAIN r : i \in DOMAIN f \/ (i - Len(f) \in DOMAIN e /\ r[i] = e[i - Len(f)])
  BY <1>4, SentIs
<1>6. /\ f[1].kind = "gnss" /\ f[2].kind = "ver" /\ f[2].value = conf.ver
      /\ f[3].kind = "sensors" /\ f[3].value = TRUE /\ f[4].kind = "data" /\ f[4].value = agpsStatus
  BY <1>3 DEF Msg
<1>7. 1 \in DOMAIN f /\ 2 \in DOMAIN f /\ 3 \in DOMAIN f /\ 4 \in DOMAIN f
      /\ \A i \in DOMAIN f : i = 1 \/ i = 2 \/ i = 3 \/ i = 4
  BY <1>3
<1>8. 1 \in DOMAIN r /\ r[1].kind = "gnss" /\ Sends(r, "ver") /\ Sends(r, "sensors") /\ Sends(r, "data")
      /\ (Sends(e, "url") => Sends(r, "url"))
  BY <1>5, <1>6, <1>7 DEF Sends
<1>10. Sends(r, "url") => Sends(e, "url")
  <2> SUFFICES ASSUME NEW i \in DOMAIN r, r[i].kind = "url" PROVE Sends(e, "url")
    BY DEF Sends
  <2>1. i \notin DOMAIN f
    <3> SUFFICES ASSUME i \in DOMAIN f PROVE FALSE
      OBVIOUS
    <3>1. f[i].kind = "url" /\ (i = 1 \/ i = 2 \/ i = 3 \/ i = 4)
      BY <1>5, <1>7
    <3> QED BY <1>6, <3>1 DEF Msg
  <2> QED BY <1>5, <2>1 DEF Sends
<1>9. ASSUME NEW i \in DOMAIN r, NEW k \in Lasting, r[i].kind = k
      PROVE  r[i].value = KnownHere[k]
  <2>1. CASE i \in DOMAIN f
    <3>1. r[i] = f[i] /\ f[i].kind = k
      BY <1>5, <1>9, <2>1
    <3>2. i = 1 \/ i = 2 \/ i = 3 \/ i = 4
      BY <1>7, <2>1
    <3>3. f[i].value = KnownHere[k]
      BY <1>6, <3>1, <3>2, RememberedIs DEF Lasting
    <3> QED BY <3>1, <3>3
  <2>2. CASE i - Len(f) \in DOMAIN e /\ r[i] = e[i - Len(f)]
    BY <1>9, <2>2, RememberedIs DEF Lasting
  <2> QED BY <1>5, <2>1, <2>2
<1>11. \A i \in DOMAIN r, k \in Lasting : r[i].kind = k => r[i].value = KnownHere[k]
  BY <1>9
<1>12. r = loc_eng_reinit \o e
  BY <1>2, <1>4
<1> HIDE DEF loc_eng_reinit
<1> QED BY <1>5, <1>8, <1>10, <1>11, <1>12

\* The server is not on its way.
LEMMA NoServerTaken ==
  ASSUME HalTyped, queue # << >>, queue' = Tail(queue), ~Sends(queue, "url")
  PROVE  ~Sends(queue', "url") /\ queue[1].kind # "url"
BY SettingTaken DEF Sends

LEMMA ReadKeeps ==
  ASSUME HalInv, ReadSettings
  PROVE  HalInv'
<1> DEFINE extra == IF queue[1].kind = "init" THEN <<Msg("caps", 0)>>
                    ELSE IF agps THEN loc_eng_agps_reinit ELSE << >>
<1>1. /\ HalTyped /\ resend = Nothing /\ queue # << >> /\ queue' = Tail(queue)
      /\ queue[1].kind \in {"init", "up"}
      /\ resend' = [kind |-> queue[1].kind, vote |-> vote, msgs |-> loc_eng_reinit \o extra]
      /\ UNCHANGED <<conf, tmp, sGnssType, adapter, suplHost, agps, nif, agpsStatus, vote, engine,
                     engineRuns, measures, capsTold, ulpTold, misread, server, early, restarted>>
  <2>1. HalTyped /\ queue # << >> /\ queue' = Tail(queue)
    BY DEF HalInv, ReadSettings
  <2>2. Head(queue) = queue[1]
    BY <2>1, SettingTaken
  <2> QED BY <2>1, <2>2 DEF ReadSettings, halVars, givenVars
<1>2. /\ extra \in Seq(HalMsg)
      /\ \A i \in DOMAIN extra : /\ extra[i].kind \in {"caps", "url"}
                                 /\ extra[i].kind = "url" => extra[i].value = suplHost
      /\ queue[1].kind = "up" /\ agps /\ suplHost # NoHost <=> Sends(extra, "url")
  <2>1. CASE queue[1].kind = "init"
    <3>1. Msg("caps", 0) \in HalMsg /\ Msg("caps", 0).kind = "caps"
      BY DEF Msg, HalMsg
    <3> QED BY <2>1, <3>1, OneSent DEF Sends
  <2>2. CASE queue[1].kind # "init" /\ agps /\ suplHost # NoHost
    <3>1. Msg("url", suplHost) \in HalMsg /\ Msg("url", suplHost).kind = "url" /\ Msg("url", suplHost).value = suplHost
      BY <1>1, <2>2 DEF Msg, HalMsg, HalTyped
    <3>2. extra = <<Msg("url", suplHost)>> /\ queue[1].kind = "up"
      BY <1>1, <2>2 DEF loc_eng_agps_reinit
    <3> HIDE DEF extra
    <3> QED BY <2>2, <3>1, <3>2, OneSent DEF Sends
  <2>3. CASE queue[1].kind # "init" /\ ~(agps /\ suplHost # NoHost)
    <3>1. extra = << >>
      BY <2>3 DEF loc_eng_agps_reinit
    <3>2. << >> \in Seq(HalMsg) /\ DOMAIN << >> = {}
      OBVIOUS
    <3> HIDE DEF extra
    <3> QED BY <1>1, <2>3, <3>1, <3>2 DEF Sends
  <2> QED BY <2>1, <2>2, <2>3
<1> HIDE DEF extra
<1>3. PICK r : r = loc_eng_reinit \o extra
  OBVIOUS
<1>4. /\ r \in Seq(HalMsg) /\ 1 \in DOMAIN r /\ r[1].kind = "gnss"
      /\ \A k \in {"ver", "sensors", "data"} : Sends(r, k)
      /\ queue[1].kind = "up" /\ agps /\ suplHost # NoHost <=> Sends(r, "url")
      /\ \A i \in DOMAIN r, k \in Lasting : r[i].kind = k => r[i].value = KnownHere[k]
  BY <1>1, <1>2, <1>3, ReadIs
<1>5. resend' \in Resend /\ resend' # Nothing /\ resend'.msgs = r /\ resend'.vote = vote
      /\ resend'.kind = queue[1].kind
  <2>1. resend' = [kind |-> queue[1].kind, vote |-> vote, msgs |-> r] /\ vote \in VoteSet
    BY <1>1, <1>3 DEF HalTyped
  <2>2. "msgs" \in DOMAIN resend' /\ "msgs" \notin DOMAIN Nothing
    BY <2>1 DEF Nothing
  <2>3. resend' # Nothing
    BY <2>2
  <2>4. resend' \in Resend
    <3>1. queue[1].kind \in {"init", "up"} /\ r \in Seq(HalMsg)
      BY <1>1, <1>4
    <3> QED BY <2>1, <3>1 DEF Resend
  <2> QED BY <2>1, <2>3, <2>4
<1>7. KnownHere' = KnownHere /\ RealCaps' = RealCaps
  BY <1>1 DEF KnownHere, RealCaps
<1>8. \A k : Sends(r, k) <=> Renews(k)'
  BY <1>5 DEF Sends, Renews
<1>17. /\ behind' \subseteq behind
       /\ \A k \in Lasting \ behind' : k \notin behind \/ Renews(k)'
       /\ "power" \notin behind' => "power" \notin behind \/ queue[1].kind = "up"
  <2>1. behind' = behind \ {k \in Changeable : AboutToSend(k)'}
    BY DEF ReadSettings
  <2> QED BY <1>5, <2>1 DEF AboutToSend, Renews, Lasting
<1>6. HalTyped'
  BY <1>1, <1>5, <1>17, SettingTaken DEF HalTyped
<1>9. SettingsComing /\ MeasurementsAsked /\ AloneTarget /\ ServerKnown /\ NoServer
  BY <1>1 DEF HalInv
<1>10. ReadRight'
  <2>1. \A i \in DOMAIN resend'.msgs, k \in Lasting :
          resend'.msgs[i].kind = k => resend'.msgs[i].value = KnownHere'[k]
    BY <1>4, <1>5, <1>7
  <2> QED BY <1>1, <1>4, <1>5, <1>8, <2>1 DEF ReadRight
<1>11. \A k \in Lasting \ {"url"} : Settled(k, {"init", "up"})'
  BY <1>4, <1>8 DEF Lasting, Settled
<1>12. ASSUME agps, nif, suplHost # NoHost, adapter, engineRuns, "url" \notin behind'
       PROVE  Settled("url", {"up"})'
  <2>1. CASE Renews("url")'
    BY <2>1 DEF Settled
  <2>2. CASE ~Renews("url")'
    <3>2. queue[1].kind = "init" /\ "url" \notin behind
      BY <1>1, <1>4, <1>8, <1>12, <1>17, <2>2 DEF Lasting
    <3>1. Settled("url", {"up"}) /\ "url" \in Lasting /\ queue[1].kind \notin {"up"}
          /\ engine'["url"] = IF queue[1].kind = "url" THEN queue[1].value ELSE engine["url"]
      BY <1>1, <1>9, <1>12, <3>2 DEF SettingsComing, Lasting
    <3> QED BY <1>1, <1>7, <3>1, SettledTaken
  <2> QED BY <2>1, <2>2
<1>13. ASSUME engineRuns, adapter, vote.right, "power" \notin behind'
       PROVE  engine.power = vote.up \/ Awaited({"up"})' \/ (resend' # Nothing /\ resend'.kind = "up")
  <2>2. CASE queue[1].kind = "up"
    BY <1>5, <2>2
  <2>3. CASE queue[1].kind # "up"
    <3>1. engine.power = vote.up \/ Awaited({"up"})
      BY <1>1, <1>9, <1>13, <1>17, <2>3 DEF SettingsComing
    <3> QED BY <1>1, <2>3, <3>1, AwaitedTaken
  <2> QED BY <2>2, <2>3
<1>14. SettingsComing'
  BY <1>1, <1>11, <1>12, <1>13 DEF SettingsComing
<1>18. ServerKnown' /\ NoServer'
  <2>1. ServerKnown'
    BY <1>1, <1>9 DEF ServerKnown
  <2>2. ~(adapter /\ suplHost # NoHost) => ~Renews("url")'
    BY <1>1, <1>4, <1>8 DEF HalTyped
  <2> QED BY <1>1, <1>9, <2>1, <2>2, NoServerTaken DEF NoServer
<1>15. MeasurementsAsked'
  <2>1. /\ "MEASUREMENTS" \in RealCaps \cup conf.caps => measures
        /\ "gnss" \notin misread =>
             Asked(queue) /\ (capsTold # NotTold /\ measures => "MEASUREMENTS" \in RealCaps)
        /\ MeasurementsTold
    BY <1>9 DEF MeasurementsAsked
  <2>2. queue[1].kind # "gnss"
    BY <1>1
  <2>3. Asked(queue) => Asked(queue)'
    BY <1>1, <1>7, <2>2, AskedTaken
  <2>4. Asked(resend.msgs)'
    <3>1. \A i \in DOMAIN r : r[i].kind = "caps" => i \in Nat /\ i > 1
      BY <1>4
    <3> QED BY <1>4, <1>5, <3>1 DEF Asked
  <2>5. MeasurementsTold => MeasurementsTold'
    BY <1>1 DEF MeasurementsTold
  <2> QED BY <1>1, <1>7, <2>1, <2>3, <2>4, <2>5 DEF MeasurementsAsked
<1>16. AloneTarget'
  BY <1>1, <1>7, <1>9 DEF AloneTarget, StandaloneTarget
<1> QED BY <1>6, <1>10, <1>14, <1>15, <1>16, <1>18 DEF HalInv

LEMMA ResendKeeps ==
  ASSUME HalInv, SendSettings
  PROVE  HalInv'
<1>1. /\ HalTyped /\ resend # Nothing /\ resend' = Nothing /\ queue' = queue \o resend.msgs
      /\ IF resend.kind = "up" THEN Vote(resend.vote) ELSE UNCHANGED engine
      /\ UNCHANGED <<conf, tmp, sGnssType, adapter, suplHost, agps, nif, agpsStatus, vote,
                     engineRuns, measures, capsTold, ulpTold, behind, misread, server, early, restarted>>
  BY DEF HalInv, SendSettings, Send, halVars, givenVars
<1>2. PICK t \in Seq(HalMsg) : t = resend.msgs
  BY <1>1 DEF HalTyped, Resend
<1>3. /\ engine' \in EngineSet /\ \A k \in Lasting : engine'[k] = engine[k]
      /\ (resend.kind = "up" => resend.vote = vote) /\ vote.right /\ engineRuns =>
           engine'.power = vote.up \/ (resend.kind # "up" /\ engine' = engine)
  <2>1. PICK v \in VoteSet : v = resend.vote
    BY <1>1 DEF HalTyped, Resend
  <2>2. CASE resend.kind = "up"
    <3>1. Vote(v) /\ engine \in EngineSet
      BY <1>1, <2>1, <2>2 DEF Vote, HalTyped
    <3>2. /\ engine' \in EngineSet /\ \A k \in Lasting : engine'[k] = engine[k]
          /\ (v.right /\ engineRuns => engine'.power = v.up)
      BY <3>1, VoteIs
    <3> QED BY <2>1, <2>2, <3>2
  <2>3. CASE resend.kind # "up"
    BY <1>1, <2>3 DEF HalTyped
  <2> QED BY <2>2, <2>3
<1>4. HalTyped'
  <2>1. queue' \in Seq(HalMsg)
    BY <1>1, <1>2 DEF HalTyped
  <2> QED BY <1>1, <1>3, <2>1 DEF HalTyped
<1>5. KnownHere' = KnownHere /\ RealCaps' = RealCaps
  BY <1>1 DEF KnownHere, RealCaps
<1>6. ReadRight /\ SettingsComing /\ MeasurementsAsked /\ AloneTarget /\ ServerKnown /\ NoServer
  BY <1>1 DEF HalInv
<1>7. ReadRight'
  BY <1>1 DEF ReadRight
<1>8. ASSUME NEW k \in Lasting \ behind, NEW kinds, Settled(k, kinds) \/ Renews(k)
      PROVE  Settled(k, kinds)'
  <2>1. \A i \in DOMAIN t : t[i].kind = k => t[i].value = KnownHere'[k]
    BY <1>1, <1>2, <1>5, <1>6 DEF ReadRight
  <2>2. Renews(k) => \E i \in DOMAIN t : t[i].kind = k
    BY <1>2 DEF Renews
  <2>3. queue' = queue \o t /\ engine'[k] = engine[k] /\ KnownHere'[k] = KnownHere[k]
    BY <1>1, <1>2, <1>3, <1>5
  <2> QED BY <1>1, <1>8, <2>1, <2>2, <2>3, SettledSent
<1>9. ASSUME engineRuns, adapter, vote.right, "power" \notin behind
      PROVE  engine'.power = vote.up \/ Awaited({"up"})'
  <2>1. engine.power = vote.up \/ Awaited({"up"}) \/ resend.kind = "up"
    BY <1>6, <1>9 DEF SettingsComing
  <2>2. resend.kind = "up" => resend.vote = vote
    BY <1>1, <1>6, <1>9 DEF ReadRight
  <2>3. Awaited({"up"}) => Awaited({"up"})'
    BY <1>1, <1>2, AwaitedSent
  <2> QED BY <1>3, <1>9, <2>1, <2>2, <2>3
<1>10. SettingsComing'
  <2>1. \A k \in Lasting \ {"url"} : Renews(k)
    BY <1>1, <1>6 DEF ReadRight, Lasting
  <2>2. \A k \in (Lasting \ {"url"}) \ behind : Settled(k, {"init", "up"})'
    BY <1>8, <2>1
  <2>3. adapter /\ engineRuns /\ agps /\ nif /\ suplHost # NoHost /\ "url" \notin behind => Settled("url", {"up"})'
    BY <1>6, <1>8 DEF SettingsComing, Lasting
  <2> QED BY <1>1, <1>9, <2>2, <2>3 DEF SettingsComing
<1>11. MeasurementsAsked'
  <2>1. /\ "MEASUREMENTS" \in RealCaps \cup conf.caps => measures
        /\ "gnss" \notin misread =>
             Asked(queue) /\ Asked(t) /\ (capsTold # NotTold /\ measures => "MEASUREMENTS" \in RealCaps)
        /\ MeasurementsTold
    BY <1>1, <1>2, <1>6 DEF MeasurementsAsked
  <2>2. Asked(queue) /\ Asked(t) => Asked(queue \o t)
    BY <1>1, <1>2, AskedSent DEF HalTyped
  <2>3. Asked(queue \o t) => Asked(queue)'
    BY <1>1, <1>2, <1>5 DEF Asked
  <2>4. MeasurementsTold => MeasurementsTold'
    BY <1>1 DEF MeasurementsTold
  <2> QED BY <1>1, <1>5, <2>1, <2>2, <2>3, <2>4 DEF MeasurementsAsked
<1>12. AloneTarget'
  BY <1>1, <1>5, <1>6 DEF AloneTarget, StandaloneTarget
<1>13. ServerKnown'
  BY <1>1, <1>6 DEF ServerKnown
<1>14. NoServer'
  <2> SUFFICES ASSUME ~(adapter /\ suplHost # NoHost) PROVE engine'["url"] = NoHost /\ ~Sends(queue', "url")
    BY <1>1 DEF NoServer, Renews
  <2>1. engine["url"] = NoHost /\ ~Sends(queue, "url") /\ ~Sends(t, "url")
    BY <1>1, <1>2, <1>6 DEF NoServer, Renews, Sends
  <2>2. ~Sends(queue', "url")
    BY <1>1, <1>2, <2>1, SentIs DEF Sends, HalTyped
  <2> QED BY <1>3, <2>1, <2>2 DEF Lasting
<1> QED BY <1>4, <1>7, <1>10, <1>11, <1>12, <1>13, <1>14 DEF HalInv

LEMMA ProcSettingKeeps ==
  ASSUME HalInv, ProcSetting
  PROVE  HalInv'
<1> DEFINE m == queue[1]
<1>1. /\ HalTyped /\ resend = Nothing /\ queue # << >> /\ queue' = Tail(queue) /\ m \in HalMsg
      /\ UNCHANGED <<tmp, sGnssType, adapter, suplHost, agps, nif, agpsStatus, vote, resend,
                     engineRuns, measures, behind, server, early, restarted>>
      /\ \/ /\ m.kind \in {"ver", "sensors", "url", "data"} /\ Apply(m)
            /\ UNCHANGED <<conf, capsTold, ulpTold, misread>>
         \/ /\ m.kind \in {"gnss", "caps", "mode"} /\ UNCHANGED engine
            /\ m.kind = "gnss" => LocEngGnssConstellationConfig
            /\ m.kind = "caps" => LocEngSetCapabilities
            /\ m.kind = "mode" => LocEngSuplMode
  <2>1. HalTyped /\ queue # << >> /\ queue' = Tail(queue)
    BY DEF HalInv, ProcSetting
  <2>2. Head(queue) = m /\ m \in HalMsg
    BY <2>1, SettingTaken
  <2> QED BY <2>1, <2>2 DEF ProcSetting, halVars, givenVars
<1>2. \A k \in Lasting : engineRuns => engine'[k] = IF m.kind = k THEN m.value ELSE engine[k]
  BY <1>1 DEF Lasting, Apply, HalTyped, EngineSet
<1>3. engine' \in EngineSet /\ engine'.power = engine.power
  BY <1>1 DEF Apply, HalTyped, EngineSet, HalMsg
<1>4. conf' \in ConfSet /\ conf' = [conf EXCEPT !.caps = conf'.caps]
      /\ conf'.caps \in {conf.caps, conf.caps \cup {"MEASUREMENTS"}}
  BY <1>1 DEF HalTyped, ConfSet, LocEngGnssConstellationConfig, LocEngSetCapabilities, LocEngSuplMode
<1>5. KnownHere' = KnownHere
  BY <1>1, <1>4 DEF KnownHere, HalTyped, ConfSet
<1>6. misread' \subseteq {"gnss", "caps", "mode"}
  BY <1>1 DEF HalTyped, LocEngGnssConstellationConfig, LocEngSetCapabilities, LocEngSuplMode, Reads
<1>7. HalTyped'
  BY <1>1, <1>3, <1>4, <1>6, SettingTaken DEF HalTyped
<1>8. SettingsComing /\ MeasurementsAsked /\ AloneTarget /\ ServerKnown /\ NoServer
  BY <1>1 DEF HalInv
<1>9. ReadRight'
  BY <1>1 DEF ReadRight
<1>10. m.kind \notin {"init", "up"}
  BY <1>1
<1>11. SettingsComing'
  <2>1. ASSUME NEW k \in Lasting, NEW kinds, Settled(k, kinds), m.kind \notin kinds, engineRuns
        PROVE  Settled(k, kinds)'
    BY <1>1, <1>2, <1>5, <2>1, SettledTaken
  <2>2. Awaited({"up"}) => Awaited({"up"})'
    BY <1>1, <1>10, AwaitedTaken
  <2> QED BY <1>1, <1>3, <1>8, <1>10, <2>1, <2>2 DEF SettingsComing, Lasting
<1>12. ServerKnown' /\ NoServer'
  <2>1. ServerKnown'
    BY <1>1, <1>8 DEF ServerKnown
  <2>2. m.kind # "url" => engine'["url"] = engine["url"]
    BY <1>1 DEF Apply, HalTyped, EngineSet
  <2>3. ~Renews("url")'
    BY <1>1 DEF Renews
  <2> QED BY <1>1, <1>8, <2>1, <2>2, <2>3, NoServerTaken DEF NoServer
<1>13. /\ "MEASUREMENTS" \in RealCaps \cup conf.caps => measures
       /\ "gnss" \notin misread =>
             Asked(queue) /\ (capsTold # NotTold /\ measures => "MEASUREMENTS" \in RealCaps)
       /\ MeasurementsTold
       /\ sGnssType \in Standalone => Assisted \cap RealCaps = {}
       /\ StandaloneTarget
  BY <1>8 DEF MeasurementsAsked, AloneTarget
<1>14. m.kind # "gnss" => RealCaps' = RealCaps /\ conf' = conf /\ ("gnss" \in misread' <=> "gnss" \in misread)
  BY <1>1 DEF RealCaps, LocEngSetCapabilities, LocEngSuplMode, Reads
<1>15. m.kind # "gnss" /\ Asked(queue) => Asked(queue)'
  BY <1>1, <1>14, AskedTaken
<1>16. resend' = Nothing
  BY <1>1
<1>17. CASE m.kind = "gnss"
  <2>1. /\ conf' = IF measures /\ engineRuns THEN [conf EXCEPT !.caps = @ \cup {"MEASUREMENTS"}] ELSE conf
        /\ misread' = IF capsTold = NotTold /\ (tmp # NoCopy \/ ~engineRuns) THEN misread \cup {"gnss"} ELSE misread
        /\ UNCHANGED <<capsTold, ulpTold>>
    BY <1>1, <1>17 DEF LocEngGnssConstellationConfig
  <2>2. conf'.caps = IF measures /\ engineRuns THEN conf.caps \cup {"MEASUREMENTS"} ELSE conf.caps
    BY <1>1, <2>1 DEF HalTyped, ConfSet
  <2>3. /\ RealCaps' \in {RealCaps, RealCaps \cup {"MEASUREMENTS"}}
        /\ "MEASUREMENTS" \in RealCaps' \cup conf'.caps => measures
        /\ tmp = NoCopy /\ measures /\ engineRuns => "MEASUREMENTS" \in RealCaps'
    BY <1>1, <1>13, <2>2 DEF RealCaps
  <2>4. "gnss" \notin misread' /\ measures => "MEASUREMENTS" \in RealCaps'
    BY <1>13, <2>1, <2>3
  <2>5. MeasurementsAsked'
    BY <1>1, <1>13, <1>16, <2>1, <2>3, <2>4 DEF MeasurementsAsked, MeasurementsTold, Asked
  <2>6. AloneTarget'
    BY <1>1, <1>13, <2>1, <2>3 DEF AloneTarget, StandaloneTarget, Assisted
  <2> QED BY <1>7, <1>9, <1>11, <1>12, <2>5, <2>6 DEF HalInv
<1>18. CASE m.kind = "caps"
  <2>1. capsTold' = conf.caps /\ ulpTold' = ulpTold
        /\ misread' = IF tmp # NoCopy THEN misread \cup {"caps"} ELSE misread \ {"caps"}
    BY <1>1, <1>18 DEF LocEngSetCapabilities, Reads
  <2>2. "gnss" \notin misread' /\ measures => "MEASUREMENTS" \in RealCaps'
    <3>1. 1 \in DOMAIN queue /\ \A j \in DOMAIN queue : ~(j < 1)
      BY <1>1, SettingTaken DEF HalTyped
    <3> QED BY <1>13, <1>14, <1>18, <3>1 DEF Asked
  <2>3. "caps" \notin misread' => capsTold' = RealCaps' /\ tmp = NoCopy
    BY <1>14, <1>18, <2>1 DEF RealCaps
  <2>4. MeasurementsTold'
    BY <1>1, <1>13, <2>1, <2>2, <2>3 DEF MeasurementsTold
  <2>5. MeasurementsAsked'
    BY <1>1, <1>13, <1>14, <1>15, <1>16, <1>18, <2>2, <2>4 DEF MeasurementsAsked
  <2>6. AloneTarget'
    BY <1>1, <1>13, <1>14, <1>18, <2>1, <2>3 DEF AloneTarget, StandaloneTarget
  <2> QED BY <1>7, <1>9, <1>11, <1>12, <2>5, <2>6 DEF HalInv
<1>19. CASE m.kind = "mode"
  <2>1. capsTold' = capsTold /\ ulpTold' \subseteq conf.caps
        /\ misread' = IF tmp # NoCopy THEN misread \cup {"mode"} ELSE misread \ {"mode"}
    BY <1>1, <1>19 DEF LocEngSuplMode, getCarrierCapabilities, Reads
  <2>2. "mode" \notin misread' => ulpTold' \subseteq RealCaps'
    BY <1>14, <1>19, <2>1 DEF RealCaps
  <2>3. MeasurementsAsked'
    BY <1>1, <1>13, <1>14, <1>15, <1>16, <1>19, <2>1 DEF MeasurementsAsked, MeasurementsTold
  <2>4. AloneTarget'
    BY <1>1, <1>13, <1>14, <1>19, <2>1, <2>2 DEF AloneTarget, StandaloneTarget
  <2> QED BY <1>7, <1>9, <1>11, <1>12, <2>3, <2>4 DEF HalInv
<1>20. CASE m.kind \in {"ver", "sensors", "url", "data"}
  <2>1. UNCHANGED <<conf, capsTold, ulpTold, misread>>
    BY <1>1, <1>20
  <2>2. MeasurementsAsked'
    BY <1>1, <1>13, <1>14, <1>15, <1>16, <1>20, <2>1 DEF MeasurementsAsked, MeasurementsTold
  <2>3. AloneTarget'
    BY <1>1, <1>13, <1>14, <1>20, <2>1 DEF AloneTarget, StandaloneTarget
  <2> QED BY <1>7, <1>9, <1>11, <1>12, <2>2, <2>3 DEF HalInv
<1> QED BY <1>1, <1>17, <1>18, <1>19, <1>20

-----------------------------------------------------------------------------
LEMMA CrashKeeps ==
  ASSUME HalInv, EngineCrash
  PROVE  HalInv'
<1>1. /\ HalTyped /\ engineRuns' = FALSE /\ engine' \in EngineSet
      /\ UNCHANGED <<conf, tmp, sGnssType, adapter, suplHost, agps, nif, agpsStatus, vote, queue,
                     resend, measures, capsTold, ulpTold, behind, misread, server, early, restarted>>
        /\ engine'["url"] = NoHost
  BY DEF HalInv, EngineCrash, halVars, givenVars, Fresh, EngineSet
<1>2. HalTyped'
  BY <1>1 DEF HalTyped
<1>3. ReadRight => ReadRight'
  BY <1>1 DEF ReadRight, Renews, KnownHere
<1>4. SettingsComing' /\ (MeasurementsAsked => MeasurementsAsked')
  BY <1>1 DEF SettingsComing, MeasurementsAsked, MeasurementsTold, Asked, RealCaps
<1>5. AloneTarget => AloneTarget'
  BY <1>1 DEF AloneTarget, StandaloneTarget, RealCaps
<1>6. ServerKnown /\ NoServer => ServerKnown' /\ NoServer'
  BY <1>1 DEF ServerKnown, NoServer, Sends, Renews
<1> QED BY <1>1, <1>2, <1>3, <1>4, <1>5, <1>6 DEF HalInv

LEMMA RestartKeeps ==
  ASSUME HalInv, EngineRestart
  PROVE  HalInv'
<1>1. /\ HalTyped /\ engineRuns' = TRUE /\ restarted' = restarted + 1
      /\ queue' = queue \o <<Msg("up", 0)>>
      /\ UNCHANGED <<conf, tmp, sGnssType, adapter, suplHost, agps, nif, agpsStatus, vote,
                     resend, engine, measures, capsTold, ulpTold, behind, misread, server, early>>
  BY DEF HalInv, EngineRestart, Send, halVars, givenVars
<1>2. Msg("up", 0) \in HalMsg /\ Msg("up", 0).kind = "up"
  BY DEF Msg, HalMsg
<1>3. PICK t \in Seq(HalMsg) : t = <<Msg("up", 0)>>
  BY <1>2, OneSent
<1>4. \E i \in DOMAIN t : t[i].kind \in {"up"}
  BY <1>2, <1>3, OneSent
<1>5. Awaited({"up"})' /\ Awaited({"init", "up"})'
  <2>1. queue' = queue \o t
    BY <1>1, <1>3
  <2> QED BY <1>1, <1>4, <2>1, AwaitedSent
<1>6. HalTyped'
  <2>1. queue' \in Seq(HalMsg) /\ restarted' \in Nat
    BY <1>1, <1>3 DEF HalTyped
  <2> QED BY <1>1, <2>1 DEF HalTyped
<1>7. ReadRight => ReadRight'
  BY <1>1 DEF ReadRight, Renews, KnownHere
<1>8. SettingsComing'
  BY <1>5 DEF SettingsComing, Settled
<1>9. MeasurementsAsked /\ AloneTarget => MeasurementsAsked' /\ AloneTarget'
  <2>1. queue' = queue \o t /\ \A i \in DOMAIN t : t[i].kind # "caps"
    BY <1>1, <1>2, <1>3, OneSent
  <2>2. RealCaps' = RealCaps /\ conf' = conf
    BY <1>1 DEF RealCaps
  <2> QED BY <1>1, <2>1, <2>2, CapsKept
<1>10. ServerKnown /\ NoServer => ServerKnown' /\ NoServer'
  <2>1. ~Sends(t, "url") /\ queue' = queue \o t
    BY <1>1, <1>2, <1>3, OneSent DEF Sends
  <2>2. ~Sends(queue, "url") => ~Sends(queue', "url")
    BY <1>1, <2>1, SentIs DEF Sends, HalTyped
  <2> QED BY <1>1, <2>2 DEF ServerKnown, NoServer, Renews
<1> QED BY <1>1, <1>6, <1>7, <1>8, <1>9, <1>10 DEF HalInv

LEMMA HalStep == HalInv /\ [HalNext]_settingVars => HalInv'
<1> SUFFICES ASSUME HalInv, [HalNext]_settingVars PROVE HalInv'
  OBVIOUS
<1>1. CASE UNCHANGED settingVars
  <2>1. UNCHANGED <<conf, tmp, sGnssType, adapter, suplHost, agps, nif, agpsStatus, vote, queue, resend,
                    engine, engineRuns, measures, capsTold, ulpTold, behind, misread, server, early, restarted>>
    BY <1>1 DEF settingVars
  <2>2. HalTyped /\ HalTyped'
    BY <2>1 DEF HalInv, HalTyped
  <2>3. KnownHere' = KnownHere /\ RealCaps' = RealCaps
    BY <2>1 DEF KnownHere, RealCaps
  <2>4. queue' = queue \o << >> /\ << >> \in Seq(HalMsg) /\ DOMAIN << >> = {} /\ ~Sends(<< >>, "url")
    BY <2>1, <2>2 DEF HalTyped, Sends
  <2>5. ServerKnown' /\ \A k \in Lasting : KnownHere'[k] = KnownHere[k]
    BY <2>1, <2>3 DEF HalInv, ServerKnown
  <2> QED BY <2>1, <2>2, <2>3, <2>4, <2>5, CallKeeps
<1>2. CASE HalNext
  BY <1>2, InitCallKeeps, CleanupKeeps, AgpsCallKeeps, ServerCallKeeps, NetworkCallKeeps, UpdateKeeps,
     RestoreKeeps, ReadKeeps, ResendKeeps, ProcSettingKeeps, CrashKeeps, RestartKeeps DEF HalNext
<1> QED BY <1>1, <1>2

\* Any values, any number of calls, crashes and restarts, the threads in any
\* order: every setting that was not overtaken by its own old value, or kept
\* back, is in the engine when all is handled, and of the servers the last
\* one given since loc_init.
THEOREM SettingsReach == HalSpec => []SettingsArrive
<1>1. HalInv => SettingsArrive
  <2> SUFFICES ASSUME HalInv, SettingsAtRest PROVE SettingsArrive
    BY DEF SettingsArrive
  <2>1. /\ SettingsComing /\ queue = << >> /\ resend = Nothing /\ adapter /\ engineRuns
        /\ ServerKnown /\ NoServer /\ behind \subseteq Changeable
    BY DEF HalInv, HalTyped, SettingsAtRest
  <2>2. ASSUME NEW k \in Lasting, NEW kinds, Settled(k, kinds) PROVE engine[k] = KnownHere[k]
    BY <2>1, <2>2 DEF Settled, Lands, Renews, Awaited
  <2>3. ~Awaited({"up"})
    BY <2>1 DEF Awaited
  <2>4. /\ "ver" \notin behind => engine["ver"] = conf.ver
        /\ engine["sensors"] = TRUE
        /\ "data" \notin behind => engine["data"] = agpsStatus
    BY <2>1, <2>2, RememberedIs DEF SettingsComing, Lasting, Changeable
  <2>5. agps /\ nif /\ suplHost # NoHost /\ "url" \notin behind => engine["url"] = suplHost
    BY <2>1, <2>2, RememberedIs DEF SettingsComing, Lasting
  <2>6. vote.right /\ "power" \notin behind => engine.power = vote.up
    BY <2>1, <2>3 DEF SettingsComing
  <2>7. /\ suplHost = NoHost => engine["url"] = NoHost
        /\ suplHost = IF early THEN NoHost ELSE server
    BY <2>1 DEF ServerKnown, NoServer
  <2> QED BY <2>4, <2>5, <2>6, <2>7 DEF SettingsArrive
<1> QED BY <1>1, HalInitHolds, HalStep, PTL DEF HalSpec

\* Any number of restarts and updates: the framework hears of measurements if
\* and only if they exist, and where the engine works alone nobody hears of
\* assisted modes, except through a message that met a dead engine or a
\* configuration being replaced.
THEOREM CapabilitiesRight == HalSpec => []CapabilitiesTold
<1>1. HalInv => CapabilitiesTold
  BY DEF HalInv, MeasurementsAsked, AloneTarget, CapabilitiesTold, MeasurementsTold, StandaloneTarget
<1> QED BY <1>1, HalInitHolds, HalStep, PTL DEF HalSpec

\* Every reachable state is well typed, the NIF is made after the AGPS
\* callbacks are known, and these after the adapter.
THEOREM HalTypes == HalSpec => []HalTypeOK
<1>1. HalInv => HalTypeOK
  BY DEF HalInv, HalTyped, HalTypeOK, ConfSet, EngineSet
<1> QED BY <1>1, HalInitHolds, HalStep, PTL DEF HalSpec

-----------------------------------------------------------------------------
(* The ULP proxy.                                                          *)

Proxies == UlpProxy \cup Bases
Modes   == LocPosMode \cup {INVALID}
Record  == [mPosMode : Modes, mFixSet : BOOLEAN, state : {"new", "installed", "deleted"}]

UlpTask == [kind : {"LocEngPositionMode"}, mode : Modes]
             \cup [kind : {"LocEngStartFix", "LocEngStopFix", "LocEngReportPosition"}]
             \cup [kind : {"LocEngSuplMode"}, ulp : Proxies]
             \cup [kind : {"LocSetUlpProxy"}, ulp : UlpProxy \cup {NULL}]

HalCalls == [call : {"sendFixMode", "sendStartFix", "sendStopFix"}, on : Proxies]

UlpTyped ==
  /\ mUlp \in Proxies /\ proxies \in [Proxies -> Record]
  /\ hal \in HalCalls \cup {NotCalling} /\ eng \in [call : {"reportPosition"}, on : Proxies] \cup {NotCalling}
  /\ tasks \in Seq(UlpTask) /\ mNavigating \in BOOLEAN /\ mFixCriteria \in Modes
  /\ wanted \in BOOLEAN /\ asked \in Modes /\ (wanted => asked # INVALID)
  /\ hal # NotCalling /\ hal.call = "sendStopFix" => asked = INVALID
  /\ swapped \in BOOLEAN /\ stale \in BOOLEAN /\ late \in BOOLEAN
  /\ reported \in Nat /\ delivered \in Nat

\* One proxy is installed, a new one knows nothing, and a thread that is to call
\* any but the one installed calls a deleted one.
Installed ==
  /\ \A p \in Proxies : proxies[p].state = "installed" <=> p = mUlp
  /\ \A p \in Proxies : proxies[p].state = "new" => proxies[p].mPosMode = INVALID /\ ~proxies[p].mFixSet
  /\ hal # NotCalling => hal.on = mUlp \/ ~Alive(hal.on)
  /\ eng # NotCalling => eng.on = mUlp \/ ~Alive(eng.on)

\* At most one proxy is handed over, and it lives.
HandedOver(s) ==
  \A i \in DOMAIN s : s[i].kind = "LocSetUlpProxy" =>
    /\ s[i].ulp # NULL => Alive(s[i].ulp)
    /\ \A j \in DOMAIN s : s[j].kind = "LocSetUlpProxy" => i = j

\* What a list holds, and a list in which each wrong message has a right one
\* behind it.
Holds(s, right)          == \E j \in DOMAIN s : s[j] \in right
Follows(s, wrong, right) ==
  \A i \in DOMAIN s : s[i] \in wrong => \E j \in DOMAIN s : j > i /\ s[j] \in right

\* The messages that leave the engine in the session wanted, or in its mode,
\* and those that do not.
OfKind(k)  == {m \in UlpTask : m.kind = k}
NavRight   == OfKind(IF wanted THEN "LocEngStartFix" ELSE "LocEngStopFix")
NavWrong   == OfKind(IF wanted THEN "LocEngStopFix" ELSE "LocEngStartFix")
ModeRight  == {m \in OfKind("LocEngPositionMode") : m.mode = asked}
ModeWrong  == {m \in OfKind("LocEngPositionMode") : m.mode # asked} \cup OfKind("LocEngStopFix")

\* While proxies are exchanged as the code expects, what the framework wants
\* is what the proxy has noted and what the engine will do, or is being said.
Sound == ~swapped /\ ~late /\ ~stale /\ (hal # NotCalling => hal.on = mUlp)

StartsStops == hal # NotCalling /\ hal.call \in {"sendStartFix", "sendStopFix"}
GivesMode   == hal # NotCalling /\ hal.call = "sendFixMode"

NavComing ==
  IF StartsStops THEN hal.call = IF wanted THEN "sendStartFix" ELSE "sendStopFix"
  ELSE /\ proxies[mUlp].mFixSet = wanted
       /\ mNavigating = wanted \/ Holds(tasks, NavRight)
       /\ Follows(tasks, NavWrong, NavRight)

ModeComing ==
  asked # INVALID /\ ~GivesMode =>
       /\ proxies[mUlp].mPosMode = asked
       /\ mFixCriteria = asked \/ Holds(tasks, ModeRight)
       /\ Follows(tasks, ModeWrong, ModeRight)

\* The reports that wait, and the one that is being made.
Positions(s) == {i \in DOMAIN s : s[i].kind = "LocEngReportPosition"}
Making       == IF eng = NotCalling THEN 0 ELSE 1
AllCounted   ==
  /\ IsFiniteSet(Positions(tasks))
  /\ delivered + Cardinality(Positions(tasks)) + Making <= reported
  /\ ~stale => delivered + Cardinality(Positions(tasks)) + Making = reported

UlpInv == UlpTyped /\ Installed /\ HandedOver(tasks) /\ (Sound => NavComing /\ ModeComing) /\ AllCounted

-----------------------------------------------------------------------------
(* Messages and lists of them.                                              *)

LEMMA NullIsNone == NULL \notin Proxies
<1>1. \A n : NULL # Base(n)
  BY DEF NULL, Base
<1> QED BY <1>1, UlpAssumption DEF Proxies, Bases

LEMMA TaskIs ==
  /\ \A m \in Modes : Mode(m) \in UlpTask /\ Mode(m).kind = "LocEngPositionMode" /\ Mode(m).mode = m
  /\ StartFix \in UlpTask /\ StartFix.kind = "LocEngStartFix"
  /\ StopFix \in UlpTask /\ StopFix.kind = "LocEngStopFix"
  /\ Position \in UlpTask /\ Position.kind = "LocEngReportPosition"
  /\ \A p \in Proxies : SuplMode(p) \in UlpTask /\ SuplMode(p).kind = "LocEngSuplMode"
  /\ \A p \in UlpProxy \cup {NULL} : /\ SetUlp(p) \in UlpTask /\ SetUlp(p).kind = "LocSetUlpProxy"
                                     /\ SetUlp(p).ulp = p
BY DEF Mode, StartFix, StopFix, Position, SuplMode, SetUlp, UlpTask

LEMMA OneTask ==
  ASSUME NEW m \in UlpTask
  PROVE  /\ <<m>> \in Seq(UlpTask) /\ DOMAIN <<m>> = {1} /\ <<m>>[1] = m
         /\ \A s \in Seq(UlpTask) : Append(s, m) = s \o <<m>>
  OBVIOUS

LEMMA Joined ==
  ASSUME NEW s \in Seq(UlpTask), NEW t \in Seq(UlpTask), NEW q, q = s \o t
  PROVE  /\ q \in Seq(UlpTask) /\ Len(s) \in Nat
         /\ DOMAIN s = 1..Len(s) /\ DOMAIN t = 1..Len(t) /\ DOMAIN q = 1..(Len(s) + Len(t))
         /\ \A i \in DOMAIN s : i \in DOMAIN q /\ i <= Len(s) /\ q[i] = s[i]
         /\ \A i \in DOMAIN t : Len(s) + i \in DOMAIN q /\ Len(s) + i > Len(s) /\ q[Len(s) + i] = t[i]
         /\ \A i \in DOMAIN q : /\ i \in Nat
                                /\ i \in DOMAIN s \/ (i - Len(s) \in DOMAIN t /\ i > Len(s) /\ q[i] = t[i - Len(s)])
<1>1. /\ q \in Seq(UlpTask) /\ Len(s) \in Nat /\ Len(t) \in Nat
      /\ DOMAIN s = 1..Len(s) /\ DOMAIN t = 1..Len(t) /\ DOMAIN q = 1..(Len(s) + Len(t))
      /\ \A i \in DOMAIN s : i \in DOMAIN q /\ i <= Len(s) /\ q[i] = s[i]
      /\ \A i \in DOMAIN t : Len(s) + i \in DOMAIN q /\ Len(s) + i > Len(s) /\ q[Len(s) + i] = t[i]
  OBVIOUS
<1>2. ASSUME NEW i \in DOMAIN q, i \notin DOMAIN s
      PROVE  i - Len(s) \in DOMAIN t /\ i > Len(s) /\ q[i] = t[i - Len(s)]
  <2>1. i - Len(s) \in DOMAIN t /\ i > Len(s) /\ Len(s) + (i - Len(s)) = i
    BY <1>1, <1>2
  <2> QED BY <1>1, <2>1
<1>3. \A i \in DOMAIN q : i \in Nat
  BY <1>1
<1> QED BY <1>1, <1>2, <1>3

LEMMA TailIs ==
  ASSUME NEW s \in Seq(UlpTask), s # << >>, NEW q, q = Tail(s)
  PROVE  /\ q \in Seq(UlpTask) /\ 1 \in DOMAIN s /\ Head(s) = s[1] /\ s[1] \in UlpTask
         /\ \A i \in DOMAIN q : i \in Nat /\ i + 1 \in DOMAIN s /\ q[i] = s[i + 1]
         /\ \A i \in DOMAIN s : i \in Nat /\ (i = 1 \/ (i - 1 \in DOMAIN q /\ i > 1 /\ q[i - 1] = s[i]))
  OBVIOUS

\* Messages sent behind those that wait, none of them wrong.
LEMMA Behind ==
  ASSUME NEW s \in Seq(UlpTask), NEW t \in Seq(UlpTask), NEW q, q = s \o t, NEW wrong, NEW right
  PROVE  /\ Holds(s, right) \/ Holds(t, right) => Holds(q, right)
         /\ (\A i \in DOMAIN t : t[i] \notin wrong) /\ (Follows(s, wrong, right) \/ Holds(t, right)) =>
              Follows(q, wrong, right)
<1>0. PICK n \in Nat : n = Len(s)
  BY Joined
<1>1. /\ \A i \in DOMAIN s : i \in DOMAIN q /\ i <= n /\ q[i] = s[i]
      /\ \A i \in DOMAIN t : n + i \in DOMAIN q /\ n + i > n /\ q[n + i] = t[i]
      /\ \A i \in DOMAIN q : /\ i \in Nat
                             /\ i \in DOMAIN s \/ (i - n \in DOMAIN t /\ i > n /\ q[i] = t[i - n])
  BY <1>0, Joined
<1>2. Holds(s, right) \/ Holds(t, right) => Holds(q, right)
  BY <1>1 DEF Holds
<1>3. ASSUME \A i \in DOMAIN t : t[i] \notin wrong, Holds(t, right)
      PROVE  Follows(q, wrong, right)
  <2>1. PICK j \in DOMAIN t : t[j] \in right
    BY <1>3 DEF Holds
  <2>2. PICK k \in DOMAIN q : k > n /\ q[k] \in right
    BY <1>1, <2>1
  <2>3. \A i \in DOMAIN q : q[i] \in wrong => i \in DOMAIN s /\ i <= n /\ k > i
    BY <1>1, <1>3, <2>2
  <2> QED BY <2>2, <2>3 DEF Follows
<1>4. ASSUME \A i \in DOMAIN t : t[i] \notin wrong, Follows(s, wrong, right)
      PROVE  Follows(q, wrong, right)
  <2>1. \A i \in DOMAIN q : q[i] \in wrong => i \in DOMAIN s
    BY <1>1, <1>4
  <2> QED BY <1>1, <1>4, <2>1 DEF Follows
<1> QED BY <1>2, <1>3, <1>4

\* The first message taken: if it is wrong a right one is left.
LEMMA Ahead ==
  ASSUME NEW s \in Seq(UlpTask), s # << >>, NEW q, q = Tail(s), NEW wrong, NEW right,
         Follows(s, wrong, right)
  PROVE  /\ Follows(q, wrong, right)
         /\ Holds(s, right) => s[1] \in right \/ Holds(q, right)
         /\ s[1] \in wrong => Holds(q, right)
<1>1. /\ 1 \in DOMAIN s
      /\ \A i \in DOMAIN q : i \in Nat /\ i + 1 \in DOMAIN s /\ q[i] = s[i + 1]
      /\ \A i \in DOMAIN s : i \in Nat /\ (i = 1 \/ (i - 1 \in DOMAIN q /\ i > 1 /\ q[i - 1] = s[i]))
  BY TailIs
<1>2. Follows(q, wrong, right)
  <2> SUFFICES ASSUME NEW i \in DOMAIN q, q[i] \in wrong
               PROVE  \E j \in DOMAIN q : j > i /\ q[j] \in right
    BY DEF Follows
  <2>1. PICK j \in DOMAIN s : j > i + 1 /\ s[j] \in right
    BY <1>1 DEF Follows
  <2>2. j - 1 \in DOMAIN q /\ q[j - 1] = s[j] /\ j - 1 > i
    BY <1>1, <2>1
  <2> QED BY <2>1, <2>2
<1>3. Holds(s, right) => s[1] \in right \/ Holds(q, right)
  BY <1>1 DEF Holds
<1>4. s[1] \in wrong => Holds(q, right)
  <2> SUFFICES ASSUME s[1] \in wrong PROVE Holds(q, right)
    OBVIOUS
  <2>1. PICK j \in DOMAIN s : j > 1 /\ s[j] \in right
    BY <1>1 DEF Follows
  <2> QED BY <1>1, <2>1 DEF Holds
<1> QED BY <1>2, <1>3, <1>4

LEMMA HandedBehind ==
  ASSUME NEW s \in Seq(UlpTask), NEW t \in Seq(UlpTask), NEW q, q = s \o t, HandedOver(s),
         \A i \in DOMAIN t : t[i].kind # "LocSetUlpProxy"
  PROVE  HandedOver(q)
<1>1. /\ \A i \in DOMAIN s : i \in DOMAIN q /\ q[i] = s[i]
      /\ \A i \in DOMAIN q : i \in DOMAIN s \/ (i - Len(s) \in DOMAIN t /\ q[i] = t[i - Len(s)])
  BY Joined
<1>2. \A i \in DOMAIN q : q[i].kind = "LocSetUlpProxy" => i \in DOMAIN s
  BY <1>1
<1> QED BY <1>1, <1>2 DEF HandedOver

LEMMA HandedAhead ==
  ASSUME NEW s \in Seq(UlpTask), s # << >>, NEW q, q = Tail(s), HandedOver(s)
  PROVE  /\ HandedOver(q)
         /\ s[1].kind = "LocSetUlpProxy" => \A i \in DOMAIN q : q[i].kind # "LocSetUlpProxy"
<1>1. 1 \in DOMAIN s /\ \A i \in DOMAIN q : i \in Nat /\ i + 1 \in DOMAIN s /\ i + 1 # 1 /\ q[i] = s[i + 1]
  <2>1. \A i \in DOMAIN q : i \in Nat /\ i > 0
    BY TailIs
  <2> QED BY <2>1, TailIs
<1>2. ASSUME NEW i \in DOMAIN q, q[i].kind = "LocSetUlpProxy"
      PROVE  /\ q[i].ulp # NULL => Alive(q[i].ulp)
             /\ \A j \in DOMAIN q : q[j].kind = "LocSetUlpProxy" => i = j
             /\ s[1].kind # "LocSetUlpProxy"
  BY <1>1, <1>2 DEF HandedOver
<1> QED BY <1>2 DEF HandedOver

-----------------------------------------------------------------------------
(* The reports that wait are counted.                                       *)

LEMMA CountedBehind ==
  ASSUME NEW s \in Seq(UlpTask), NEW t \in Seq(UlpTask), NEW q, q = s \o t,
         \A i \in DOMAIN t : t[i].kind # "LocEngReportPosition"
  PROVE  Positions(q) = Positions(s)
<1>1. /\ \A i \in DOMAIN s : i \in DOMAIN q /\ q[i] = s[i]
      /\ \A i \in DOMAIN q : i \in DOMAIN s \/ (i - Len(s) \in DOMAIN t /\ q[i] = t[i - Len(s)])
  BY Joined
<1> QED BY <1>1 DEF Positions

LEMMA CountedMore ==
  ASSUME NEW s \in Seq(UlpTask), NEW q, q = Append(s, Position), IsFiniteSet(Positions(s))
  PROVE  IsFiniteSet(Positions(q)) /\ Cardinality(Positions(q)) = Cardinality(Positions(s)) + 1
<1>1. q = s \o <<Position>> /\ <<Position>> \in Seq(UlpTask) /\ <<Position>>[1] = Position
      /\ DOMAIN <<Position>> = {1} /\ Position.kind = "LocEngReportPosition"
  BY TaskIs, OneTask
<1>2. /\ Len(s) \in Nat /\ DOMAIN s = 1..Len(s) /\ \A i \in DOMAIN s : i \in DOMAIN q /\ q[i] = s[i]
      /\ Len(s) + 1 \in DOMAIN q /\ q[Len(s) + 1] = Position
      /\ \A i \in DOMAIN q : i \in DOMAIN s \/ i = Len(s) + 1
  OBVIOUS
<1>3. Positions(q) = Positions(s) \cup {Len(s) + 1} /\ Len(s) + 1 \notin Positions(s)
  BY <1>1, <1>2 DEF Positions
<1> QED BY <1>3, FS_AddElement

LEMMA CountedLess ==
  ASSUME NEW s \in Seq(UlpTask), s # << >>, NEW q, q = Tail(s), IsFiniteSet(Positions(s))
  PROVE  /\ IsFiniteSet(Positions(q)) /\ Cardinality(Positions(q)) \in Nat
         /\ Cardinality(Positions(s)) = Cardinality(Positions(q))
              + IF s[1].kind = "LocEngReportPosition" THEN 1 ELSE 0
<1>1. /\ 1 \in DOMAIN s
      /\ \A i \in DOMAIN q : i \in Nat /\ i > 0 /\ i + 1 \in DOMAIN s /\ q[i] = s[i + 1]
      /\ \A i \in DOMAIN s : i \in Nat /\ (i = 1 \/ (i - 1 \in DOMAIN q /\ i > 1 /\ q[i - 1] = s[i]))
  <2>1. \A i \in DOMAIN q : i > 0
    BY TailIs
  <2> QED BY <2>1, TailIs
<1> DEFINE S == Positions(s) \ {1}
           f == [i \in S |-> i - 1]
<1>2. f \in Bijection(S, Positions(q))
  <2>1. f \in [S -> Positions(q)]
    BY <1>1 DEF Positions
  <2>2. \A a, b \in S : f[a] = f[b] => a = b
    BY <1>1 DEF Positions
  <2>3. \A b \in Positions(q) : \E a \in S : f[a] = b
    <3> SUFFICES ASSUME NEW b \in Positions(q) PROVE \E a \in S : f[a] = b
      OBVIOUS
    <3>1. b + 1 \in S /\ (b + 1) - 1 = b
      BY <1>1 DEF Positions
    <3> QED BY <3>1
  <2> QED BY <2>1, <2>2, <2>3, Fun_IsBij
<1>3. IsFiniteSet(S) /\ Cardinality(S) \in Nat
      /\ Cardinality(Positions(s)) = Cardinality(S) + IF 1 \in Positions(s) THEN 1 ELSE 0
  BY FS_RemoveElement, FS_CardinalityType
<1>4. IsFiniteSet(Positions(q)) /\ Cardinality(Positions(q)) = Cardinality(S)
  BY <1>2, <1>3, FS_Bijection DEF ExistsBijection
<1>5. 1 \in Positions(s) <=> s[1].kind = "LocEngReportPosition"
  BY <1>1 DEF Positions
<1> QED BY <1>3, <1>4, <1>5

-----------------------------------------------------------------------------
LEMMA UlpInitHolds == UlpInit => UlpInv
<1> SUFFICES ASSUME UlpInit PROVE UlpInv
  OBVIOUS
<1>1. /\ mUlp = Base(0) /\ hal = NotCalling /\ eng = NotCalling /\ tasks = << >>
      /\ mNavigating = FALSE /\ mFixCriteria = INVALID /\ wanted = FALSE /\ asked = INVALID
      /\ swapped = FALSE /\ stale = FALSE /\ late = FALSE /\ reported = 0 /\ delivered = 0
  BY DEF UlpInit
<1>2. Base(0) \in Proxies
  BY UlpAssumption DEF Bases, Proxies
<1>3. /\ proxies \in [Proxies -> Record]
      /\ \A p \in Proxies : /\ proxies[p].mPosMode = INVALID /\ proxies[p].mFixSet = FALSE
                            /\ proxies[p].state = IF p = Base(0) THEN "installed" ELSE "new"
  BY DEF UlpInit, New, Record, Modes, Proxies
<1>4. UlpTyped
  <2>1. tasks \in Seq(UlpTask) /\ mFixCriteria \in Modes /\ asked \in Modes
    BY <1>1 DEF Modes
  <2>2. mUlp \in Proxies /\ hal \in HalCalls \cup {NotCalling}
        /\ eng \in [call : {"reportPosition"}, on : Proxies] \cup {NotCalling}
    BY <1>1, <1>2
  <2> QED BY <1>1, <1>3, <2>1, <2>2 DEF UlpTyped
<1>5. Installed /\ HandedOver(tasks)
  BY <1>1, <1>3 DEF Installed, HandedOver
<1>6. NavComing /\ ModeComing
  <2>1. proxies[mUlp].mFixSet = FALSE /\ ~StartsStops
    BY <1>1, <1>2, <1>3 DEF StartsStops
  <2>2. Follows(tasks, NavWrong, NavRight)
    BY <1>1 DEF Follows
  <2> QED BY <1>1, <2>1, <2>2 DEF NavComing, ModeComing
<1>7. AllCounted
  <2>1. Positions(tasks) = {}
    BY <1>1 DEF Positions
  <2> QED BY <1>1, <2>1, FS_EmptySet DEF AllCounted, Making
<1> QED BY <1>4, <1>5, <1>6, <1>7 DEF UlpInv

\* Messages of other kinds sent, or one of them taken: the session is not touched.
Others == {"LocEngSuplMode", "LocSetUlpProxy", "LocEngReportPosition"}

LEMMA OthersAside ==
  ASSUME NEW m, m.kind \in Others
  PROVE  m \notin NavWrong /\ m \notin ModeWrong /\ m \notin NavRight /\ m \notin ModeRight
BY DEF Others, NavWrong, ModeWrong, NavRight, ModeRight, OfKind

LEMMA OthersSent ==
  ASSUME UlpTyped, Sound => NavComing /\ ModeComing,
         NEW t \in Seq(UlpTask), tasks' = tasks \o t, \A i \in DOMAIN t : t[i].kind \in Others,
         UNCHANGED <<mUlp, proxies, hal, mNavigating, mFixCriteria, wanted, asked, swapped, late>>,
         ~stale' => ~stale
  PROVE  Sound' => NavComing' /\ ModeComing'
<1> SUFFICES ASSUME Sound' PROVE NavComing' /\ ModeComing'
  OBVIOUS
<1>1. Sound /\ NavComing /\ ModeComing /\ tasks \in Seq(UlpTask)
  BY DEF Sound, UlpTyped
<1>2. /\ NavRight' = NavRight /\ NavWrong' = NavWrong /\ ModeRight' = ModeRight /\ ModeWrong' = ModeWrong
      /\ StartsStops' = StartsStops /\ GivesMode' = GivesMode
  BY DEF NavRight, NavWrong, ModeRight, ModeWrong, StartsStops, GivesMode
<1>3. \A i \in DOMAIN t : t[i] \notin NavWrong /\ t[i] \notin ModeWrong
  BY OthersAside
<1>4. /\ Holds(tasks, NavRight) => Holds(tasks', NavRight)
      /\ Follows(tasks, NavWrong, NavRight) => Follows(tasks', NavWrong, NavRight)
      /\ Holds(tasks, ModeRight) => Holds(tasks', ModeRight)
      /\ Follows(tasks, ModeWrong, ModeRight) => Follows(tasks', ModeWrong, ModeRight)
  BY <1>1, <1>3, Behind
<1>5. NavComing'
  BY <1>1, <1>2, <1>4 DEF NavComing
<1>6. ModeComing'
  BY <1>1, <1>2, <1>4 DEF ModeComing
<1> QED BY <1>5, <1>6

LEMMA OthersTaken ==
  ASSUME UlpTyped, Sound => NavComing /\ ModeComing, tasks # << >>, tasks' = Tail(tasks),
         tasks[1].kind \in Others,
         UNCHANGED <<mUlp, proxies, hal, mNavigating, mFixCriteria, wanted, asked, swapped, late>>,
         ~stale' => ~stale
  PROVE  Sound' => NavComing' /\ ModeComing'
<1> SUFFICES ASSUME Sound' PROVE NavComing' /\ ModeComing'
  OBVIOUS
<1>1. Sound /\ NavComing /\ ModeComing /\ tasks \in Seq(UlpTask)
  BY DEF Sound, UlpTyped
<1>2. /\ NavRight' = NavRight /\ NavWrong' = NavWrong /\ ModeRight' = ModeRight /\ ModeWrong' = ModeWrong
      /\ StartsStops' = StartsStops /\ GivesMode' = GivesMode
  BY DEF NavRight, NavWrong, ModeRight, ModeWrong, StartsStops, GivesMode
<1>3. tasks[1] \notin NavRight /\ tasks[1] \notin ModeRight
  BY OthersAside
<1>4. /\ Follows(tasks, NavWrong, NavRight) =>
           Follows(tasks', NavWrong, NavRight) /\ (Holds(tasks, NavRight) => Holds(tasks', NavRight))
      /\ Follows(tasks, ModeWrong, ModeRight) =>
           Follows(tasks', ModeWrong, ModeRight) /\ (Holds(tasks, ModeRight) => Holds(tasks', ModeRight))
  BY <1>1, <1>3, Ahead
<1>5. NavComing'
  BY <1>1, <1>2, <1>4 DEF NavComing
<1>6. ModeComing'
  BY <1>1, <1>2, <1>4 DEF ModeComing
<1> QED BY <1>5, <1>6

-----------------------------------------------------------------------------
(* The HAL's thread.                                                        *)

\* A call has read the pointer; what is wanted is said when it is made.
LEMMA BeginKeeps ==
  ASSUME UlpInv, NEW call \in {"sendFixMode", "sendStartFix", "sendStopFix"}, BeginCall(call),
         UNCHANGED <<tasks, late>>, wanted' \in BOOLEAN, asked' \in Modes,
         wanted' => asked' # INVALID, call = "sendStopFix" => asked' = INVALID,
         \/ call = "sendFixMode" /\ wanted' = wanted
         \/ call = (IF wanted' THEN "sendStartFix" ELSE "sendStopFix") /\ asked' \in {asked, INVALID}
  PROVE  UlpInv'
<1>1. /\ hal = NotCalling /\ hal' = [call |-> call, on |-> mUlp]
      /\ UNCHANGED <<mUlp, proxies, eng, mNavigating, mFixCriteria, swapped, stale, reported, delivered>>
  BY DEF BeginCall, session
<1>2. UlpTyped /\ Installed /\ HandedOver(tasks) /\ AllCounted
  BY DEF UlpInv
<1>3. hal' \in HalCalls /\ hal' # NotCalling /\ hal'.on = mUlp /\ hal'.call = call
  <2>1. hal' \in HalCalls /\ hal'.on = mUlp /\ hal'.call = call
    BY <1>1, <1>2 DEF UlpTyped, HalCalls
  <2>2. call # "idle"
    OBVIOUS
  <2> QED BY <2>1, <2>2 DEF NotCalling
<1>4. UlpTyped'
  BY <1>1, <1>2, <1>3 DEF UlpTyped
<1>5. Installed' /\ HandedOver(tasks)' /\ AllCounted'
  BY <1>1, <1>2, <1>3 DEF Installed, HandedOver, AllCounted, Making, Alive
<1> SUFFICES ASSUME Sound' PROVE NavComing' /\ ModeComing'
  BY <1>4, <1>5 DEF UlpInv
<1>6. Sound /\ NavComing /\ ModeComing
  BY <1>1 DEF Sound, UlpInv
<1>7. CASE call = "sendFixMode"
  <2>1. ~StartsStops /\ ~StartsStops' /\ GivesMode' /\ NavRight' = NavRight /\ NavWrong' = NavWrong
    BY <1>1, <1>3, <1>7 DEF StartsStops, GivesMode, NavRight, NavWrong
  <2>2. NavComing'
    BY <1>1, <1>6, <1>7, <2>1 DEF NavComing
  <2> QED BY <2>1, <2>2 DEF ModeComing
<1>8. CASE call # "sendFixMode"
  <2>1. StartsStops' /\ NavComing'
    BY <1>3, <1>8 DEF StartsStops, NavComing
  <2>2. CASE asked' = INVALID
    BY <2>1, <2>2 DEF ModeComing
  <2>3. CASE asked' = asked
    <3>1. ~GivesMode /\ ModeRight' = ModeRight /\ ModeWrong' = ModeWrong
      BY <1>1, <2>3 DEF GivesMode, ModeRight, ModeWrong
    <3>2. ModeComing'
      BY <1>1, <1>6, <2>3, <3>1 DEF ModeComing
    <3> QED BY <2>1, <3>2
  <2> QED BY <1>8, <2>1, <2>2, <2>3
<1> QED BY <1>7, <1>8

LEMMA SetModeKeeps ==
  ASSUME UlpInv, NEW m \in LocPosMode, loc_eng_set_position_mode(m)
  PROVE  UlpInv'
<1>1. m \in Modes /\ m # INVALID /\ wanted \in BOOLEAN
  BY UlpAssumption DEF Modes, UlpInv, UlpTyped
<1> QED BY <1>1, BeginKeeps DEF loc_eng_set_position_mode

LEMMA StartKeeps ==
  ASSUME UlpInv, loc_eng_start
  PROVE  UlpInv'
<1>1. asked \in Modes
  BY DEF UlpInv, UlpTyped
<1> QED BY <1>1, BeginKeeps DEF loc_eng_start

LEMMA StopKeeps ==
  ASSUME UlpInv, loc_eng_stop
  PROVE  UlpInv'
<1>1. INVALID \in Modes
  BY DEF Modes
<1> QED BY <1>1, BeginKeeps DEF loc_eng_stop

LEMMA UlpCleanupKeeps ==
  ASSUME UlpInv, loc_eng_cleanup
  PROVE  UlpInv'
<1>1. INVALID \in Modes /\ UlpTyped /\ Installed /\ HandedOver(tasks) /\ AllCounted
  BY DEF Modes, UlpInv
<1>2. CASE mNavigating
  BY <1>1, <1>2, BeginKeeps DEF loc_eng_cleanup
<1>3. CASE ~mNavigating
  <2>1. /\ hal = NotCalling /\ late' = TRUE /\ wanted' = FALSE /\ asked' = INVALID
        /\ UNCHANGED <<mUlp, proxies, hal, eng, tasks, mNavigating, mFixCriteria, swapped, stale, reported, delivered>>
    BY <1>3 DEF loc_eng_cleanup, session
  <2>2. UlpTyped'
    BY <1>1, <2>1 DEF UlpTyped
  <2>3. Installed' /\ HandedOver(tasks)' /\ AllCounted'
    BY <1>1, <2>1 DEF Installed, HandedOver, AllCounted, Making, Alive
  <2>4. ~Sound'
    BY <2>1 DEF Sound
  <2> QED BY <2>2, <2>3, <2>4 DEF UlpInv
<1> QED BY <1>2, <1>3

LEMMA CapabilitiesSentKeeps ==
  ASSUME UlpInv, loc_eng_configuration_update
  PROVE  UlpInv'
<1>1. /\ tasks' = Append(tasks, SuplMode(mUlp))
      /\ UNCHANGED <<mUlp, proxies, hal, eng, mNavigating, mFixCriteria, wanted, asked, swapped, stale, late,
                     reported, delivered>>
  BY DEF loc_eng_configuration_update, session
<1>2. UlpTyped /\ Installed /\ HandedOver(tasks) /\ AllCounted /\ tasks \in Seq(UlpTask)
  BY DEF UlpInv, UlpTyped
<1>3. SuplMode(mUlp) \in UlpTask /\ SuplMode(mUlp).kind = "LocEngSuplMode"
  BY <1>2, TaskIs DEF UlpTyped
<1>4. PICK t \in Seq(UlpTask) : t = <<SuplMode(mUlp)>>
  BY <1>3, OneTask
<1>5. tasks' = tasks \o t /\ \A i \in DOMAIN t : t[i].kind = "LocEngSuplMode"
  BY <1>1, <1>2, <1>3, <1>4, OneTask
<1>6. tasks' \in Seq(UlpTask) /\ HandedOver(tasks') /\ Positions(tasks') = Positions(tasks)
  <2>1. \A i \in DOMAIN t : t[i].kind # "LocSetUlpProxy" /\ t[i].kind # "LocEngReportPosition"
    BY <1>5
  <2>2. tasks' \in Seq(UlpTask)
    BY <1>2, <1>5
  <2>3. HandedOver(tasks')
    BY <1>2, <1>5, <2>1, HandedBehind
  <2>4. Positions(tasks') = Positions(tasks)
    BY <1>2, <1>5, <2>1, CountedBehind
  <2> QED BY <2>2, <2>3, <2>4
<1>7. UlpTyped'
  BY <1>1, <1>2, <1>6 DEF UlpTyped
<1>8. Installed' /\ HandedOver(tasks)' /\ AllCounted'
  BY <1>1, <1>2, <1>6 DEF Installed, HandedOver, AllCounted, Making, Alive
<1>9. Sound' => NavComing' /\ ModeComing'
  BY <1>1, <1>2, <1>5, OthersSent DEF UlpInv, Others
<1> QED BY <1>7, <1>8, <1>9 DEF UlpInv

\* What the message says is what the framework wants, and the proxy notes it.
LEMMA HalCallKeeps ==
  ASSUME UlpInv, HalCall
  PROVE  UlpInv'
<1>1. /\ hal # NotCalling /\ hal' = NotCalling
      /\ UNCHANGED <<mUlp, eng, mNavigating, mFixCriteria, wanted, asked, late, swapped, reported, delivered>>
      /\ IF Alive(hal.on)
         THEN /\ proxies' = Noted(hal.on, hal.call) /\ UNCHANGED stale
              /\ tasks' = Append(tasks, ToEngine(hal.call))
         ELSE /\ stale' = TRUE /\ UNCHANGED proxies
              /\ tasks' \in {tasks, Append(tasks, ToEngine(hal.call))}
  BY DEF HalCall, session, framework
<1>2. UlpTyped /\ Installed /\ HandedOver(tasks) /\ AllCounted /\ tasks \in Seq(UlpTask)
      /\ hal.call \in {"sendFixMode", "sendStartFix", "sendStopFix"} /\ hal.on \in Proxies
      /\ asked \in Modes /\ mUlp \in Proxies /\ proxies \in [Proxies -> Record]
  BY <1>1 DEF UlpInv, UlpTyped, HalCalls
<1> DEFINE m == ToEngine(hal.call)
<1>3. /\ m \in UlpTask /\ m.kind \in {"LocEngPositionMode", "LocEngStartFix", "LocEngStopFix"}
      /\ hal.call = "sendFixMode" => m.kind = "LocEngPositionMode" /\ m.mode = asked
      /\ hal.call = "sendStartFix" => m.kind = "LocEngStartFix"
      /\ hal.call = "sendStopFix" => m.kind = "LocEngStopFix"
  BY <1>2, TaskIs DEF ToEngine
<1> HIDE DEF m
<1>4. PICK t \in Seq(UlpTask) : t = <<m>> /\ DOMAIN t = {1} /\ t[1] = m
  BY <1>3, OneTask
<1>5. Append(tasks, m) = tasks \o t
  BY <1>2, <1>3, <1>4, OneTask
<1>6. tasks' \in {tasks, tasks \o t} /\ (Alive(hal.on) => tasks' = tasks \o t)
  BY <1>1, <1>5 DEF m
<1>7. tasks' \in Seq(UlpTask) /\ HandedOver(tasks') /\ Positions(tasks') = Positions(tasks)
  <2>1. \A i \in DOMAIN t : t[i].kind # "LocSetUlpProxy" /\ t[i].kind # "LocEngReportPosition"
    BY <1>3, <1>4
  <2>2. tasks \o t \in Seq(UlpTask)
    BY <1>2
  <2>3. HandedOver(tasks \o t)
    BY <1>2, <2>1, HandedBehind
  <2>4. Positions(tasks \o t) = Positions(tasks)
    BY <1>2, <2>1, CountedBehind
  <2> QED BY <1>2, <1>6, <2>2, <2>3, <2>4
<1>8. /\ proxies' \in [Proxies -> Record] /\ \A p \in Proxies : proxies'[p].state = proxies[p].state
      /\ \A p \in Proxies : p # hal.on \/ ~Alive(hal.on) => proxies'[p] = proxies[p]
      /\ Alive(hal.on) =>
           /\ proxies'[hal.on].mPosMode = IF hal.call = "sendFixMode" THEN asked ELSE proxies[hal.on].mPosMode
           /\ proxies'[hal.on].mFixSet = IF hal.call = "sendFixMode" THEN proxies[hal.on].mFixSet
                                         ELSE hal.call = "sendStartFix"
  <2>1. CASE ~Alive(hal.on)
    BY <1>1, <1>2, <2>1
  <2>2. CASE Alive(hal.on)
    <3>1. \/ hal.call = "sendFixMode" /\ proxies' = [proxies EXCEPT ![hal.on].mPosMode = asked]
          \/ hal.call = "sendStartFix" /\ proxies' = [proxies EXCEPT ![hal.on].mFixSet = TRUE]
          \/ hal.call = "sendStopFix" /\ proxies' = [proxies EXCEPT ![hal.on].mFixSet = FALSE]
      BY <1>1, <1>2, <2>2 DEF Noted
    <3>2. PICK old \in Record : old = proxies[hal.on]
      BY <1>2
    <3>3. PICK new \in Record :
            /\ proxies' = [proxies EXCEPT ![hal.on] = new] /\ new.state = old.state
            /\ new.mPosMode = IF hal.call = "sendFixMode" THEN asked ELSE old.mPosMode
            /\ new.mFixSet = IF hal.call = "sendFixMode" THEN old.mFixSet ELSE hal.call = "sendStartFix"
      <4>1. CASE hal.call = "sendFixMode"
        <5>1. PICK new \in Record : new = [old EXCEPT !.mPosMode = asked]
          BY <1>2 DEF Record
        <5> QED BY <3>1, <3>2, <4>1, <5>1 DEF Record
      <4>2. CASE hal.call = "sendStartFix"
        <5>1. PICK new \in Record : new = [old EXCEPT !.mFixSet = TRUE]
          BY DEF Record
        <5> QED BY <3>1, <3>2, <4>2, <5>1 DEF Record
      <4>3. CASE hal.call = "sendStopFix"
        <5>1. PICK new \in Record : new = [old EXCEPT !.mFixSet = FALSE]
          BY DEF Record
        <5> QED BY <3>1, <3>2, <4>3, <5>1 DEF Record
      <4> QED BY <1>2, <4>1, <4>2, <4>3
    <3> QED BY <1>2, <2>2, <3>2, <3>3
  <2> QED BY <2>1, <2>2
<1>9. UlpTyped'
  BY <1>1, <1>2, <1>7, <1>8 DEF UlpTyped
<1>10. Installed'
  <2>1. \A p \in Proxies : proxies[p].state = "new" => p # hal.on \/ ~Alive(hal.on)
    BY <1>1, <1>2 DEF Installed
  <2>2. eng # NotCalling => eng.on \in Proxies
    BY <1>2 DEF UlpTyped
  <2> QED BY <1>1, <1>2, <1>8, <2>1, <2>2 DEF Installed, Alive
<1>11. HandedOver(tasks)'
  <2>1. \A i \in DOMAIN tasks' : tasks'[i].kind = "LocSetUlpProxy" /\ tasks'[i].ulp # NULL => tasks'[i].ulp \in Proxies
    BY <1>7 DEF UlpTask, Proxies
  <2> QED BY <1>7, <1>8, <2>1 DEF HandedOver, Alive
<1>12. AllCounted'
  BY <1>1, <1>2, <1>7 DEF AllCounted, Making
<1> SUFFICES ASSUME Sound' PROVE NavComing' /\ ModeComing'
  BY <1>9, <1>10, <1>11, <1>12 DEF UlpInv
<1>13. Alive(hal.on) /\ hal.on = mUlp /\ Sound /\ NavComing /\ ModeComing /\ tasks' = tasks \o t
  BY <1>1, <1>2, <1>6 DEF Sound, Installed, UlpInv
<1>14. NavRight' = NavRight /\ NavWrong' = NavWrong /\ ModeRight' = ModeRight /\ ModeWrong' = ModeWrong
       /\ ~StartsStops' /\ ~GivesMode'
  BY <1>1 DEF NavRight, NavWrong, ModeRight, ModeWrong, StartsStops, GivesMode
<1>15. CASE hal.call = "sendFixMode"
  <2>1. m \in ModeRight /\ m \notin ModeWrong /\ m \notin NavRight /\ m \notin NavWrong
    BY <1>3, <1>15 DEF ModeRight, ModeWrong, NavRight, NavWrong, OfKind
  <2>2. Holds(t, ModeRight) /\ \A i \in DOMAIN t : t[i] \notin ModeWrong /\ t[i] \notin NavWrong
    BY <1>4, <2>1 DEF Holds
  <2>3. /\ Holds(tasks', ModeRight) /\ Follows(tasks', ModeWrong, ModeRight)
        /\ Holds(tasks, NavRight) => Holds(tasks', NavRight)
        /\ Follows(tasks, NavWrong, NavRight) => Follows(tasks', NavWrong, NavRight)
    BY <1>2, <1>13, <2>2, Behind
  <2>4. ~StartsStops
    BY <1>15 DEF StartsStops
  <2>5. NavComing'
    BY <1>1, <1>2, <1>8, <1>13, <1>14, <1>15, <2>3, <2>4 DEF NavComing
  <2>6. ModeComing'
    BY <1>1, <1>8, <1>13, <1>14, <1>15, <2>3 DEF ModeComing
  <2> QED BY <2>5, <2>6
<1>16. CASE hal.call # "sendFixMode"
  <2>1. StartsStops /\ hal.call = IF wanted THEN "sendStartFix" ELSE "sendStopFix"
    BY <1>1, <1>2, <1>13, <1>16 DEF StartsStops, NavComing
  <2>2. m \in NavRight /\ m \notin NavWrong /\ (m \in ModeWrong => asked = INVALID)
    BY <1>1, <1>2, <1>3, <2>1 DEF ModeWrong, NavRight, NavWrong, OfKind, UlpTyped
  <2>3. Holds(t, NavRight) /\ \A i \in DOMAIN t : t[i] \notin NavWrong /\ (t[i] \in ModeWrong => asked = INVALID)
    BY <1>4, <2>2 DEF Holds
  <2>4. /\ Holds(tasks', NavRight) /\ Follows(tasks', NavWrong, NavRight)
        /\ Holds(tasks, ModeRight) => Holds(tasks', ModeRight)
        /\ asked # INVALID /\ Follows(tasks, ModeWrong, ModeRight) => Follows(tasks', ModeWrong, ModeRight)
    BY <1>2, <1>13, <2>3, Behind
  <2>5. NavComing'
    BY <1>1, <1>2, <1>8, <1>13, <1>14, <1>16, <2>1, <2>4 DEF NavComing, UlpTyped
  <2>6. ~GivesMode
    BY <1>16 DEF GivesMode
  <2>7. ModeComing'
    BY <1>1, <1>8, <1>13, <1>14, <1>16, <2>4, <2>6 DEF ModeComing
  <2> QED BY <2>5, <2>7
<1> QED BY <1>15, <1>16

-----------------------------------------------------------------------------
(* The engine's thread.                                                     *)

LEMMA ReportBegunKeeps ==
  ASSUME UlpInv, reportPosition
  PROVE  UlpInv'
<1>1. /\ eng = NotCalling /\ reported' = reported + 1 /\ eng' = [call |-> "reportPosition", on |-> mUlp]
      /\ UNCHANGED <<mUlp, proxies, hal, tasks, mNavigating, mFixCriteria, wanted, asked, late, swapped,
                     stale, delivered>>
  BY DEF reportPosition, session, framework
<1>2. UlpTyped /\ Installed /\ HandedOver(tasks) /\ AllCounted
  BY DEF UlpInv
<1>3. eng' \in [call : {"reportPosition"}, on : Proxies] /\ eng' # NotCalling /\ eng'.on = mUlp
  <2>1. eng' \in [call : {"reportPosition"}, on : Proxies] /\ eng'.on = mUlp /\ eng'.call = "reportPosition"
    BY <1>1, <1>2 DEF UlpTyped
  <2>2. NotCalling.call = "idle"
    BY DEF NotCalling
  <2> QED BY <2>1, <2>2
<1>4. UlpTyped'
  BY <1>1, <1>2, <1>3 DEF UlpTyped
<1>5. Installed' /\ HandedOver(tasks)'
  BY <1>1, <1>2, <1>3 DEF Installed, HandedOver, Alive
<1>6. AllCounted'
  <2>1. Making = 0 /\ Making' = 1 /\ Cardinality(Positions(tasks)) \in Nat
    BY <1>1, <1>2, <1>3, FS_CardinalityType DEF Making, AllCounted
  <2>2. Positions(tasks)' = Positions(tasks)
    BY <1>1
  <2> QED BY <1>1, <1>2, <2>1, <2>2 DEF AllCounted, UlpTyped
<1>7. Sound' => NavComing' /\ ModeComing'
  <2>1. Sound' => Sound
    BY <1>1 DEF Sound
  <2>2. NavComing' <=> NavComing
    BY <1>1 DEF NavComing, StartsStops, Holds, Follows, NavRight, NavWrong
  <2>3. ModeComing' <=> ModeComing
    BY <1>1 DEF ModeComing, GivesMode, Holds, Follows, ModeRight, ModeWrong
  <2> QED BY <2>1, <2>2, <2>3 DEF UlpInv
<1> QED BY <1>4, <1>5, <1>6, <1>7 DEF UlpInv

\* Through a deleted proxy a report may be lost.
LEMMA ReportCallKeeps ==
  ASSUME UlpInv, ReportCall
  PROVE  UlpInv'
<1>1. /\ eng # NotCalling /\ eng' = NotCalling
      /\ UNCHANGED <<mUlp, proxies, hal, mNavigating, mFixCriteria, wanted, asked, late, swapped, reported, delivered>>
      /\ \/ tasks' = Append(tasks, Position) /\ UNCHANGED stale
         \/ tasks' = Append(tasks, Position) /\ stale' = TRUE
         \/ tasks' = tasks /\ stale' = TRUE
  BY DEF ReportCall, session, framework
<1>2. UlpTyped /\ Installed /\ HandedOver(tasks) /\ AllCounted /\ tasks \in Seq(UlpTask) /\ stale \in BOOLEAN
  BY DEF UlpInv, UlpTyped
<1>3. PICK t \in Seq(UlpTask) : t = <<Position>> /\ DOMAIN t = {1} /\ t[1] = Position
  BY TaskIs, OneTask
<1>4. Append(tasks, Position) = tasks \o t /\ \A i \in DOMAIN t : t[i].kind = "LocEngReportPosition"
  BY <1>2, <1>3, TaskIs, OneTask
<1>5. tasks' \in Seq(UlpTask) /\ HandedOver(tasks')
  <2>1. \A i \in DOMAIN t : t[i].kind # "LocSetUlpProxy"
    BY <1>4
  <2>2. tasks \o t \in Seq(UlpTask)
    BY <1>2
  <2>3. HandedOver(tasks \o t)
    BY <1>2, <2>1, HandedBehind
  <2> QED BY <1>1, <1>2, <1>4, <2>2, <2>3
<1>6. UlpTyped'
  BY <1>1, <1>2, <1>5 DEF UlpTyped
<1>7. Installed' /\ HandedOver(tasks)'
  BY <1>1, <1>2, <1>5 DEF Installed, HandedOver, Alive
<1>8. AllCounted'
  <2>1. Making = 1 /\ Making' = 0 /\ Cardinality(Positions(tasks)) \in Nat
    BY <1>1, <1>2, FS_CardinalityType DEF Making, AllCounted
  <2>2. /\ IsFiniteSet(Positions(Append(tasks, Position)))
        /\ Cardinality(Positions(Append(tasks, Position))) = Cardinality(Positions(tasks)) + 1
    BY <1>2, CountedMore DEF AllCounted
  <2>3. CASE tasks' = Append(tasks, Position)
    <3>1. Cardinality(Positions(tasks')) = Cardinality(Positions(tasks)) + 1 /\ IsFiniteSet(Positions(tasks'))
      BY <2>2, <2>3
    <3>2. ~stale' => ~stale
      BY <1>1
    <3> QED BY <1>1, <1>2, <2>1, <3>1, <3>2 DEF AllCounted, UlpTyped
  <2>4. CASE tasks' = tasks /\ stale' = TRUE
    <3>1. Positions(tasks') = Positions(tasks)
      BY <2>4
    <3> QED BY <1>1, <1>2, <2>1, <2>4, <3>1 DEF AllCounted, UlpTyped
  <2> QED BY <1>1, <2>3, <2>4
<1>9. Sound' => NavComing' /\ ModeComing'
  <2>1. CASE stale' = TRUE
    BY <2>1 DEF Sound
  <2>2. CASE tasks' = tasks \o t /\ UNCHANGED stale
    BY <1>1, <1>2, <1>4, <2>2, OthersSent DEF UlpInv, Others
  <2> QED BY <1>1, <1>4, <2>1, <2>2
<1> QED BY <1>6, <1>7, <1>8, <1>9 DEF UlpInv

LEMMA HandOverKeeps ==
  ASSUME UlpInv, NEW p \in UlpProxy \cup {NULL}, HandOver(p)
  PROVE  UlpInv'
<1>1. /\ p # NULL => Alive(p)
      /\ \A i \in DOMAIN tasks : tasks[i].kind # "LocSetUlpProxy"
      /\ tasks' = Append(tasks, SetUlp(p))
      /\ UNCHANGED <<mUlp, proxies, hal, eng, mNavigating, mFixCriteria, wanted, asked, late, swapped,
                     stale, reported, delivered>>
  BY DEF HandOver, session, framework
<1>2. UlpTyped /\ Installed /\ AllCounted /\ tasks \in Seq(UlpTask)
  BY DEF UlpInv, UlpTyped
<1>3. SetUlp(p) \in UlpTask /\ SetUlp(p).kind = "LocSetUlpProxy" /\ SetUlp(p).ulp = p
  BY TaskIs
<1>4. PICK t \in Seq(UlpTask) : t = <<SetUlp(p)>> /\ DOMAIN t = {1} /\ t[1] = SetUlp(p)
  BY <1>3, OneTask
<1>5. tasks' = tasks \o t /\ \A i \in DOMAIN t : t[i].kind = "LocSetUlpProxy" /\ t[i].ulp = p /\ i = 1
  BY <1>1, <1>2, <1>3, <1>4, OneTask
<1>6. tasks' \in Seq(UlpTask) /\ HandedOver(tasks') /\ Positions(tasks') = Positions(tasks)
  <2>1. \A i \in DOMAIN t : t[i].kind # "LocEngReportPosition"
    BY <1>5
  <2>2. tasks' \in Seq(UlpTask)
    BY <1>2, <1>5
  <2>3. Positions(tasks') = Positions(tasks)
    BY <1>2, <1>5, <2>1, CountedBehind
  <2>4. /\ Len(tasks) \in Nat /\ \A i \in DOMAIN tasks : tasks'[i] = tasks[i]
        /\ \A i \in DOMAIN tasks' : /\ i \in Nat
                                    /\ i \in DOMAIN tasks \/ (i - Len(tasks) \in DOMAIN t /\ tasks'[i] = t[i - Len(tasks)])
    BY <1>2, <1>5, Joined
  <2>5. \A i \in DOMAIN tasks' : tasks'[i].kind = "LocSetUlpProxy" => i - Len(tasks) = 1 /\ i \in Nat /\ tasks'[i].ulp = p
    BY <1>1, <1>5, <2>4
  <2>6. \A i, j \in DOMAIN tasks' : tasks'[i].kind = "LocSetUlpProxy" /\ tasks'[j].kind = "LocSetUlpProxy" => i = j
    BY <2>4, <2>5
  <2>7. HandedOver(tasks')
    BY <1>1, <2>5, <2>6 DEF HandedOver
  <2> QED BY <2>2, <2>3, <2>7
<1>7. UlpTyped'
  BY <1>1, <1>2, <1>6 DEF UlpTyped
<1>8. Installed' /\ HandedOver(tasks)' /\ AllCounted'
  BY <1>1, <1>2, <1>6 DEF Installed, HandedOver, AllCounted, Making, Alive
<1>9. Sound' => NavComing' /\ ModeComing'
  BY <1>1, <1>2, <1>5, OthersSent DEF UlpInv, Others
<1> QED BY <1>7, <1>8, <1>9 DEF UlpInv

-----------------------------------------------------------------------------
(* The message task.                                                        *)

LEMMA CapabilitiesTakenKeeps ==
  ASSUME UlpInv, ProcSuplMode
  PROVE  UlpInv'
<1>1. /\ tasks # << >> /\ Head(tasks).kind = "LocEngSuplMode" /\ tasks' = Tail(tasks)
      /\ stale' = (stale \/ ~Alive(Head(tasks).ulp))
      /\ UNCHANGED <<mUlp, proxies, hal, eng, mNavigating, mFixCriteria, wanted, asked, late, swapped,
                     reported, delivered>>
  BY DEF ProcSuplMode, session, framework
<1>2. UlpTyped /\ Installed /\ HandedOver(tasks) /\ AllCounted /\ tasks \in Seq(UlpTask) /\ stale \in BOOLEAN
  BY DEF UlpInv, UlpTyped
<1>3. Head(tasks) = tasks[1] /\ tasks' \in Seq(UlpTask) /\ tasks[1].kind = "LocEngSuplMode"
  BY <1>1, <1>2, TailIs
<1>4. stale' \in BOOLEAN /\ (~stale' => ~stale)
  BY <1>1, <1>2 DEF Alive
<1>5. UlpTyped'
  BY <1>1, <1>2, <1>3, <1>4 DEF UlpTyped
<1>6. HandedOver(tasks')
  BY <1>1, <1>2, HandedAhead
<1>7. Installed' /\ HandedOver(tasks)'
  BY <1>1, <1>2, <1>6 DEF Installed, HandedOver, Alive
<1>8. AllCounted'
  <2>1. IsFiniteSet(Positions(tasks')) /\ Cardinality(Positions(tasks')) = Cardinality(Positions(tasks))
    <3>1. tasks[1].kind # "LocEngReportPosition"
      BY <1>3
    <3>2. /\ IsFiniteSet(Positions(tasks')) /\ Cardinality(Positions(tasks')) \in Nat
          /\ Cardinality(Positions(tasks)) = Cardinality(Positions(tasks')) + 0
      BY <1>1, <1>2, <3>1, CountedLess DEF AllCounted
    <3> QED BY <3>2
  <2>2. Making' = Making
    BY <1>1 DEF Making
  <2> QED BY <1>1, <1>2, <1>4, <2>1, <2>2 DEF AllCounted
<1>9. Sound' => NavComing' /\ ModeComing'
  BY <1>1, <1>2, <1>3, <1>4, OthersTaken DEF UlpInv, Others
<1> QED BY <1>5, <1>7, <1>8, <1>9 DEF UlpInv

\* The engine's session follows the message taken; if that was a wrong one the
\* right one waits.
LEMMA SessionKeeps ==
  ASSUME UlpInv, ProcSession
  PROVE  UlpInv'
<1>1. /\ tasks # << >> /\ tasks' = Tail(tasks)
      /\ UNCHANGED <<mUlp, proxies, hal, eng, wanted, asked, late, swapped, stale, reported>>
      /\ \/ /\ Head(tasks).kind = "LocEngPositionMode" /\ mFixCriteria' = Head(tasks).mode
            /\ UNCHANGED <<mNavigating, delivered>>
         \/ /\ Head(tasks).kind = "LocEngStartFix" /\ mNavigating' = TRUE
            /\ UNCHANGED <<mFixCriteria, delivered>>
         \/ /\ Head(tasks).kind = "LocEngStopFix" /\ mNavigating' = FALSE
            /\ mFixCriteria' = (IF mNavigating THEN INVALID ELSE mFixCriteria)
            /\ UNCHANGED delivered
         \/ /\ Head(tasks).kind = "LocEngReportPosition" /\ delivered' = delivered + 1
            /\ UNCHANGED <<mNavigating, mFixCriteria>>
  BY DEF ProcSession, session, framework
<1>2. UlpTyped /\ Installed /\ HandedOver(tasks) /\ AllCounted /\ tasks \in Seq(UlpTask)
  BY DEF UlpInv, UlpTyped
<1>3. PICK m \in UlpTask : m = tasks[1] /\ Head(tasks) = m /\ tasks' \in Seq(UlpTask)
  BY <1>1, <1>2, TailIs
<1>4. /\ m.kind = "LocEngPositionMode" => m.mode \in Modes
      /\ m.kind \in {"LocEngPositionMode", "LocEngStartFix", "LocEngStopFix", "LocEngReportPosition"}
  BY <1>1, <1>3 DEF UlpTask
<1>5. UlpTyped'
  <2>1. mNavigating' \in BOOLEAN /\ mFixCriteria' \in Modes /\ delivered' \in Nat
    <3>1. mNavigating \in BOOLEAN /\ mFixCriteria \in Modes /\ delivered \in Nat /\ INVALID \in Modes
      BY <1>2 DEF UlpTyped, Modes
    <3>2. mFixCriteria' \in {mFixCriteria, INVALID} \/ (m.kind = "LocEngPositionMode" /\ mFixCriteria' = m.mode)
      BY <1>1, <1>3
    <3>3. mNavigating' = mNavigating \/ mNavigating' = TRUE \/ mNavigating' = FALSE
      BY <1>1
    <3>4. mNavigating' \in BOOLEAN
      BY <3>1, <3>3, Zenon
    <3>5. mFixCriteria' \in Modes
      BY <1>4, <3>1, <3>2
    <3>6. delivered' \in Nat
      BY <1>1, <3>1
    <3> QED BY <3>4, <3>5, <3>6
  <2> QED BY <1>1, <1>2, <1>3, <2>1 DEF UlpTyped
<1>6. HandedOver(tasks')
  BY <1>1, <1>2, HandedAhead
<1>7. Installed' /\ HandedOver(tasks)'
  BY <1>1, <1>2, <1>6 DEF Installed, HandedOver, Alive
<1>8. AllCounted'
  <2>1. /\ IsFiniteSet(Positions(tasks')) /\ Cardinality(Positions(tasks')) \in Nat
        /\ Cardinality(Positions(tasks)) = Cardinality(Positions(tasks'))
                                             + IF m.kind = "LocEngReportPosition" THEN 1 ELSE 0
    BY <1>1, <1>2, <1>3, CountedLess DEF AllCounted
  <2>2. delivered' = delivered + IF m.kind = "LocEngReportPosition" THEN 1 ELSE 0
    <3>1. delivered \in Nat
      BY <1>2 DEF UlpTyped
    <3> QED BY <1>1, <1>3, <3>1
  <2>3. Making' = Making /\ Making \in Nat
    BY <1>1 DEF Making
  <2> QED BY SMTT(30), <1>1, <1>2, <2>1, <2>2, <2>3 DEF AllCounted, UlpTyped
<1> SUFFICES ASSUME Sound' PROVE NavComing' /\ ModeComing'
  BY <1>5, <1>7, <1>8 DEF UlpInv
<1>9. Sound /\ NavComing /\ ModeComing
  BY <1>1 DEF Sound, UlpInv
<1>10. NavRight' = NavRight /\ NavWrong' = NavWrong /\ ModeRight' = ModeRight /\ ModeWrong' = ModeWrong
       /\ StartsStops' = StartsStops /\ GivesMode' = GivesMode
  BY <1>1 DEF NavRight, NavWrong, ModeRight, ModeWrong, StartsStops, GivesMode
<1>11. NavComing'
  <2>1. CASE StartsStops
    BY <1>1, <1>9, <1>10, <2>1 DEF NavComing
  <2>2. CASE ~StartsStops
    <3>1. /\ proxies[mUlp].mFixSet = wanted /\ (mNavigating = wanted \/ Holds(tasks, NavRight))
          /\ Follows(tasks, NavWrong, NavRight)
      BY <1>9, <2>2 DEF NavComing
    <3>2. /\ Follows(tasks', NavWrong, NavRight)
          /\ Holds(tasks, NavRight) => m \in NavRight \/ Holds(tasks', NavRight)
          /\ m \in NavWrong => Holds(tasks', NavRight)
      <4>1. tasks \in Seq(UlpTask) /\ tasks # << >> /\ tasks' = Tail(tasks) /\ tasks[1] = m
        BY <1>1, <1>2, <1>3
      <4> QED BY <3>1, <4>1, Ahead
    <3>3. /\ m \in NavRight => mNavigating' = wanted
          /\ m \notin NavRight /\ m \notin NavWrong => mNavigating' = mNavigating
      <4>1. wanted \in BOOLEAN
        BY <1>2 DEF UlpTyped
      <4> QED BY <1>1, <1>3, <4>1 DEF NavRight, NavWrong, OfKind
    <3>4. mNavigating' = wanted \/ Holds(tasks', NavRight)
      BY <3>1, <3>2, <3>3
    <3> QED BY <1>1, <1>10, <2>2, <3>1, <3>2, <3>4 DEF NavComing
  <2> QED BY <2>1, <2>2
<1>12. ModeComing'
  <2> SUFFICES ASSUME asked # INVALID, ~GivesMode PROVE ModeComing'
    BY <1>1, <1>10 DEF ModeComing
  <2>1. /\ proxies[mUlp].mPosMode = asked /\ (mFixCriteria = asked \/ Holds(tasks, ModeRight))
        /\ Follows(tasks, ModeWrong, ModeRight)
    BY <1>9 DEF ModeComing
  <2>2. /\ Follows(tasks', ModeWrong, ModeRight)
        /\ Holds(tasks, ModeRight) => m \in ModeRight \/ Holds(tasks', ModeRight)
        /\ m \in ModeWrong => Holds(tasks', ModeRight)
    <3>1. tasks \in Seq(UlpTask) /\ tasks # << >> /\ tasks' = Tail(tasks) /\ tasks[1] = m
      BY <1>1, <1>2, <1>3
    <3> QED BY <2>1, <3>1, Ahead
  <2>3. /\ m \in ModeRight => mFixCriteria' = asked
        /\ m \notin ModeRight /\ m \notin ModeWrong => mFixCriteria' = mFixCriteria
    BY <1>1, <1>3 DEF ModeRight, ModeWrong, OfKind
  <2>4. mFixCriteria' = asked \/ Holds(tasks', ModeRight)
    BY <2>1, <2>2, <2>3
  <2> QED BY <1>1, <1>10, <2>1, <2>2, <2>4 DEF ModeComing
<1> QED BY <1>11, <1>12

\* What a proxy that takes over is told: the mode and the fix the old one noted.
LEMMA Told ==
  ASSUME NEW old \in Record, NEW t,
         \/ t = << >>
         \/ t = (IF old.mPosMode # INVALID THEN <<Mode(old.mPosMode)>> ELSE << >>)
                  \o (IF old.mFixSet THEN <<StartFix>> ELSE << >>)
  PROVE  /\ t \in Seq(UlpTask)
         /\ \A i \in DOMAIN t : \/ t[i] = StartFix /\ old.mFixSet
                                \/ t[i] = Mode(old.mPosMode)
<1>1. Mode(old.mPosMode) \in UlpTask /\ StartFix \in UlpTask
  BY TaskIs DEF Record
<1>2. PICK a \in Seq(UlpTask) : /\ a = (IF old.mPosMode # INVALID THEN <<Mode(old.mPosMode)>> ELSE << >>)
                                /\ \A i \in DOMAIN a : a[i] = Mode(old.mPosMode)
  <2>1. CASE old.mPosMode # INVALID
    <3>1. PICK a \in Seq(UlpTask) : a = <<Mode(old.mPosMode)>> /\ DOMAIN a = {1} /\ a[1] = Mode(old.mPosMode)
      BY <1>1, OneTask
    <3> QED BY <2>1, <3>1
  <2>2. CASE old.mPosMode = INVALID
    <3>1. << >> \in Seq(UlpTask) /\ \A i \in DOMAIN << >> : FALSE
      OBVIOUS
    <3> QED BY <2>2, <3>1
  <2> QED BY <2>1, <2>2
<1>3. PICK b \in Seq(UlpTask) : /\ b = (IF old.mFixSet THEN <<StartFix>> ELSE << >>)
                                /\ \A i \in DOMAIN b : b[i] = StartFix /\ old.mFixSet
  <2>1. CASE old.mFixSet
    <3>1. PICK b \in Seq(UlpTask) : b = <<StartFix>> /\ DOMAIN b = {1} /\ b[1] = StartFix
      BY <1>1, OneTask
    <3> QED BY <2>1, <3>1
  <2>2. CASE ~old.mFixSet
    <3>1. << >> \in Seq(UlpTask) /\ \A i \in DOMAIN << >> : FALSE
      OBVIOUS
    <3> QED BY <2>2, <3>1
  <2> QED BY <2>1, <2>2
<1>4. t = << >> \/ t = a \o b
  BY <1>2, <1>3
<1>5. CASE t = << >>
  BY <1>5
<1>6. CASE t = a \o b
  BY <1>2, <1>3, <1>6, Joined
<1> QED BY <1>4, <1>5, <1>6

\* A proxy takes over from the one installed, which is deleted: a thread that
\* was to call it calls a deleted one, and else the mode and the fix are passed on.
LEMMA TakeOverKeeps ==
  ASSUME UlpInv, tasks # << >>, tasks[1].kind = "LocSetUlpProxy",
         NEW ulp \in Proxies, ulp # mUlp, Alive(ulp), mUlp' = ulp,
         NEW old \in Record, old = (IF IsBase(mUlp) THEN proxies[mUlp] ELSE New),
         proxies' = [proxies EXCEPT
                ![ulp]  = [mPosMode |-> IF old.mPosMode # INVALID THEN old.mPosMode ELSE @.mPosMode,
                           mFixSet  |-> old.mFixSet \/ @.mFixSet, state |-> "installed"],
                ![mUlp] = [@ EXCEPT !.state = "deleted"]],
         NEW t \in Seq(UlpTask), tasks' = Tail(tasks) \o t,
         \A i \in DOMAIN t : (t[i] = StartFix /\ old.mFixSet) \/ t[i] = Mode(old.mPosMode),
         swapped' = (swapped \/ ~IsBase(mUlp)),
         UNCHANGED <<hal, eng, mNavigating, mFixCriteria, wanted, asked, late, stale, reported, delivered>>
  PROVE  UlpInv'
<1>1. UlpTyped /\ Installed /\ HandedOver(tasks) /\ AllCounted /\ tasks \in Seq(UlpTask)
      /\ mUlp \in Proxies /\ proxies \in [Proxies -> Record]
  BY DEF UlpInv, UlpTyped
<1>2. PICK q \in Seq(UlpTask) : q = Tail(tasks)
  BY <1>1, TailIs
<1>3. /\ Mode(old.mPosMode).kind = "LocEngPositionMode" /\ Mode(old.mPosMode).mode = old.mPosMode
      /\ StartFix.kind = "LocEngStartFix"
  BY TaskIs DEF Record
<1>4. \A i \in DOMAIN t : t[i].kind # "LocSetUlpProxy" /\ t[i].kind # "LocEngReportPosition"
  BY <1>3
<1>5. proxies[ulp].mPosMode = INVALID /\ ~proxies[ulp].mFixSet /\ proxies[ulp].state = "new"
  BY <1>1 DEF Installed, Alive, Record
<1>6. /\ proxies' \in [Proxies -> Record]
      /\ proxies'[ulp].mPosMode = old.mPosMode /\ proxies'[ulp].mFixSet = old.mFixSet
      /\ proxies'[ulp].state = "installed" /\ proxies'[mUlp].state = "deleted"
      /\ \A p \in Proxies \ {ulp, mUlp} : proxies'[p] = proxies[p]
  <2>1. PICK gone \in Record : gone = [proxies[mUlp] EXCEPT !.state = "deleted"]
    BY <1>1 DEF Record
  <2>2. gone.state = "deleted"
    BY <1>1, <2>1 DEF Record
  <2>3. PICK new \in Record :
          /\ new = [mPosMode |-> IF old.mPosMode # INVALID THEN old.mPosMode ELSE proxies[ulp].mPosMode,
                    mFixSet  |-> old.mFixSet \/ proxies[ulp].mFixSet, state |-> "installed"]
          /\ new.mPosMode = old.mPosMode /\ new.mFixSet = old.mFixSet /\ new.state = "installed"
    BY <1>1, <1>5 DEF Record
  <2>4. proxies' = [proxies EXCEPT ![ulp] = new, ![mUlp] = gone]
    BY <1>1, <2>1, <2>3
  <2>5. proxies' \in [Proxies -> Record] /\ proxies'[ulp] = new /\ proxies'[mUlp] = gone
        /\ \A p \in Proxies \ {ulp, mUlp} : proxies'[p] = proxies[p]
    BY <1>1, <2>4
  <2> QED BY <2>2, <2>3, <2>5
<1>7. tasks' \in Seq(UlpTask) /\ \A i \in DOMAIN tasks' : tasks'[i].kind # "LocSetUlpProxy"
  <2>1. \A i \in DOMAIN q : q[i].kind # "LocSetUlpProxy"
    BY <1>1, <1>2, HandedAhead
  <2> QED BY <1>2, <1>4, <2>1, Joined
<1>8. UlpTyped'
  <2>1. swapped' \in BOOLEAN
    BY <1>1 DEF UlpTyped, IsBase
  <2> QED BY <1>1, <1>6, <1>7, <2>1 DEF UlpTyped
<1>9. Installed'
  <2>1. \A p \in Proxies : proxies'[p].state = "installed" <=> p = ulp
    BY <1>1, <1>6 DEF Installed
  <2>2. \A p \in Proxies : proxies'[p].state = "new" => proxies'[p].mPosMode = INVALID /\ ~proxies'[p].mFixSet
    BY <1>1, <1>6 DEF Installed
  <2>3. \A p \in Proxies : p = mUlp \/ ~Alive(p) => proxies'[p].state = "deleted"
    BY <1>6 DEF Alive
  <2>4. /\ hal # NotCalling => hal.on \in Proxies /\ (hal.on = mUlp \/ ~Alive(hal.on))
        /\ eng # NotCalling => eng.on \in Proxies /\ (eng.on = mUlp \/ ~Alive(eng.on))
    BY <1>1 DEF UlpTyped, Installed, HalCalls
  <2>5. /\ hal # NotCalling => proxies'[hal.on].state = "deleted"
        /\ eng # NotCalling => proxies'[eng.on].state = "deleted"
    BY <2>3, <2>4
  <2> QED BY <2>1, <2>2, <2>5 DEF Installed, Alive
<1>10. HandedOver(tasks)'
  BY <1>7 DEF HandedOver
<1>11. AllCounted'
  <2>1. /\ IsFiniteSet(Positions(q)) /\ Cardinality(Positions(q)) \in Nat
        /\ Cardinality(Positions(tasks)) = Cardinality(Positions(q)) + 0
    <3>1. tasks[1].kind # "LocEngReportPosition"
      OBVIOUS
    <3> QED BY <1>1, <1>2, <3>1, CountedLess DEF AllCounted
  <2>2. Positions(tasks') = Positions(q)
    BY <1>2, <1>4, CountedBehind
  <2>3. Making' = Making
    BY DEF Making
  <2> QED BY <1>1, <2>1, <2>2, <2>3 DEF AllCounted
<1> SUFFICES ASSUME Sound' PROVE NavComing' /\ ModeComing'
  BY <1>8, <1>9, <1>10, <1>11 DEF UlpInv
<1>12. ~swapped /\ IsBase(mUlp) /\ hal = NotCalling
  <2>1. hal # NotCalling => hal.on # ulp
    BY <1>1 DEF Installed
  <2> QED BY <1>1, <2>1 DEF Sound, UlpTyped
<1>13. Sound /\ NavComing /\ ModeComing
  BY <1>12 DEF Sound, UlpInv
<1>14. NavRight' = NavRight /\ NavWrong' = NavWrong /\ ModeRight' = ModeRight /\ ModeWrong' = ModeWrong
       /\ ~StartsStops /\ ~StartsStops' /\ ~GivesMode /\ ~GivesMode'
  BY <1>12 DEF NavRight, NavWrong, ModeRight, ModeWrong, StartsStops, GivesMode
<1>15. /\ old.mFixSet = wanted /\ (mNavigating = wanted \/ Holds(tasks, NavRight))
       /\ Follows(tasks, NavWrong, NavRight)
       /\ asked # INVALID => /\ old.mPosMode = asked /\ (mFixCriteria = asked \/ Holds(tasks, ModeRight))
                             /\ Follows(tasks, ModeWrong, ModeRight)
  BY <1>12, <1>13, <1>14 DEF NavComing, ModeComing
<1>16. tasks[1] \notin NavRight /\ tasks[1] \notin ModeRight
  BY OthersAside DEF Others
<1>17. /\ \A i \in DOMAIN t : t[i] \notin NavWrong
       /\ asked # INVALID => \A i \in DOMAIN t : t[i] \notin ModeWrong
  BY <1>3, <1>15 DEF NavWrong, ModeWrong, OfKind
<1>18. Follows(tasks', NavWrong, NavRight) /\ (Holds(tasks, NavRight) => Holds(tasks', NavRight))
  <2>1. Follows(q, NavWrong, NavRight) /\ (Holds(tasks, NavRight) => Holds(q, NavRight))
    BY <1>1, <1>2, <1>15, <1>16, Ahead
  <2> QED BY <1>2, <1>17, <2>1, Behind
<1>19. asked # INVALID => Follows(tasks', ModeWrong, ModeRight) /\ (Holds(tasks, ModeRight) => Holds(tasks', ModeRight))
  <2> SUFFICES ASSUME asked # INVALID
               PROVE  Follows(tasks', ModeWrong, ModeRight) /\ (Holds(tasks, ModeRight) => Holds(tasks', ModeRight))
    OBVIOUS
  <2>1. Follows(q, ModeWrong, ModeRight) /\ (Holds(tasks, ModeRight) => Holds(q, ModeRight))
    BY <1>1, <1>2, <1>15, <1>16, Ahead
  <2> QED BY <1>2, <1>17, <2>1, Behind
<1>20. NavComing'
  BY <1>6, <1>14, <1>15, <1>18 DEF NavComing
<1>21. ModeComing'
  BY <1>6, <1>14, <1>15, <1>19 DEF ModeComing
<1> QED BY <1>20, <1>21

LEMMA SetUlpKeeps ==
  ASSUME UlpInv, ProcSetUlp
  PROVE  UlpInv'
<1>1. UlpTyped /\ Installed /\ HandedOver(tasks) /\ AllCounted /\ tasks \in Seq(UlpTask)
      /\ mUlp \in Proxies /\ proxies \in [Proxies -> Record]
  BY DEF UlpInv, UlpTyped
<1>2. /\ tasks # << >> /\ Head(tasks) = tasks[1] /\ tasks[1].kind = "LocSetUlpProxy"
      /\ 1 \in DOMAIN tasks /\ tasks[1] \in UlpTask
      /\ tasks[1].ulp = NULL => \E b \in Bases : proxies[b].state = "new"
      /\ setUlpProxy(tasks[1].ulp)
      /\ UNCHANGED <<hal, eng, mNavigating, mFixCriteria, wanted, asked, late, stale, reported, delivered>>
  <2>1. tasks # << >> /\ Head(tasks) = tasks[1] /\ 1 \in DOMAIN tasks /\ tasks[1] \in UlpTask
    BY <1>1, TailIs DEF ProcSetUlp
  <2> QED BY <2>1 DEF ProcSetUlp, session, framework
<1>3. PICK given \in UlpProxy \cup {NULL} : tasks[1].ulp = given /\ (given # NULL => Alive(given))
  BY <1>1, <1>2 DEF UlpTask, HandedOver
<1>4. CASE given = mUlp
  <2>1. tasks' = Tail(tasks) /\ UNCHANGED <<mUlp, proxies, swapped>>
    BY <1>2, <1>3, <1>4 DEF setUlpProxy
  <2>2. tasks' \in Seq(UlpTask) /\ HandedOver(tasks')
    BY <1>1, <1>2, <2>1, TailIs, HandedAhead
  <2>3. UlpTyped'
    BY <1>1, <1>2, <2>1, <2>2 DEF UlpTyped
  <2>4. Installed' /\ HandedOver(tasks)'
    BY <1>1, <1>2, <2>1, <2>2 DEF Installed, HandedOver, Alive
  <2>5. AllCounted'
    <3>1. tasks[1].kind # "LocEngReportPosition"
      BY <1>2
    <3>2. /\ IsFiniteSet(Positions(tasks')) /\ Cardinality(Positions(tasks')) \in Nat
          /\ Cardinality(Positions(tasks)) = Cardinality(Positions(tasks')) + 0
      BY <1>1, <1>2, <2>1, <3>1, CountedLess DEF AllCounted
    <3>3. Making' = Making
      BY <1>2 DEF Making
    <3> QED BY <1>1, <1>2, <3>2, <3>3 DEF AllCounted
  <2>6. Sound' => NavComing' /\ ModeComing'
    BY <1>1, <1>2, <2>1, OthersTaken DEF UlpInv, Others
  <2> QED BY <2>3, <2>4, <2>5, <2>6 DEF UlpInv
<1>5. CASE given # mUlp
  <2>1. PICK ulp \in Proxies : ulp = (IF given = NULL THEN FreshBase ELSE given) /\ Alive(ulp) /\ ulp # mUlp
    <3>1. CASE given = NULL
      <4>1. FreshBase \in Bases /\ proxies[FreshBase].state = "new"
        BY <1>2, <1>3, <3>1 DEF FreshBase
      <4>2. proxies[mUlp].state = "installed"
        BY <1>1 DEF Installed
      <4> QED BY <3>1, <4>1, <4>2 DEF Alive, Proxies
    <3>2. CASE given # NULL
      BY <1>3, <1>5, <3>2 DEF Proxies
    <3> QED BY <3>1, <3>2
  <2>2. PICK old \in Record : old = (IF IsBase(mUlp) THEN proxies[mUlp] ELSE New)
    <3>1. New \in Record
      BY DEF New, Record, Modes
    <3> QED BY <1>1, <3>1
  <2>3. PICK t : t = IF IsBase(ulp) THEN << >>
                     ELSE (IF old.mPosMode # INVALID THEN <<Mode(old.mPosMode)>> ELSE << >>)
                            \o (IF old.mFixSet THEN <<StartFix>> ELSE << >>)
    OBVIOUS
  <2>4. /\ mUlp' = ulp /\ tasks' = Tail(tasks) \o t /\ swapped' = (swapped \/ ~IsBase(mUlp))
        /\ proxies' = [proxies EXCEPT
                ![ulp]  = [mPosMode |-> IF old.mPosMode # INVALID THEN old.mPosMode ELSE @.mPosMode,
                           mFixSet  |-> old.mFixSet \/ @.mFixSet, state |-> "installed"],
                ![mUlp] = [@ EXCEPT !.state = "deleted"]]
    BY <1>2, <1>3, <1>5, <2>1, <2>2, <2>3 DEF setUlpProxy
  <2>5. /\ t \in Seq(UlpTask)
        /\ \A i \in DOMAIN t : (t[i] = StartFix /\ old.mFixSet) \/ t[i] = Mode(old.mPosMode)
    BY <2>3, Told
  <2> QED BY <1>2, <2>1, <2>2, <2>4, <2>5, TakeOverKeeps
<1> QED BY <1>4, <1>5

LEMMA UlpStep == UlpInv /\ [UlpNext]_ulpVars => UlpInv'
<1> SUFFICES ASSUME UlpInv, [UlpNext]_ulpVars PROVE UlpInv'
  OBVIOUS
<1>1. CASE UNCHANGED ulpVars
  <2>1. /\ UlpTyped' <=> UlpTyped
        /\ Installed' <=> Installed
        /\ HandedOver(tasks)' <=> HandedOver(tasks)
        /\ AllCounted' <=> AllCounted
    BY <1>1 DEF ulpVars, UlpTyped, Installed, HandedOver, AllCounted, Positions, Making, Alive
  <2>2. (Sound' <=> Sound) /\ (NavComing' <=> NavComing) /\ (ModeComing' <=> ModeComing)
    BY <1>1 DEF ulpVars, Sound, NavComing, ModeComing, StartsStops, GivesMode, Holds, Follows, NavRight,
                NavWrong, ModeRight, ModeWrong
  <2> QED BY <2>1, <2>2 DEF UlpInv
<1>2. CASE UlpNext
  <2>1. CASE \E m \in LocPosMode : loc_eng_set_position_mode(m)
    BY <2>1, SetModeKeeps
  <2>2. CASE loc_eng_start
    BY <2>2, StartKeeps
  <2>3. CASE loc_eng_stop
    BY <2>3, StopKeeps
  <2>4. CASE loc_eng_cleanup
    BY <2>4, UlpCleanupKeeps
  <2>5. CASE loc_eng_configuration_update
    BY <2>5, CapabilitiesSentKeeps
  <2>6. CASE HalCall
    BY <2>6, HalCallKeeps
  <2>7. CASE reportPosition
    BY <2>7, ReportBegunKeeps
  <2>8. CASE ReportCall
    BY <2>8, ReportCallKeeps
  <2>9. CASE \E p \in UlpProxy \cup {NULL} : HandOver(p)
    BY <2>9, HandOverKeeps
  <2>10. CASE ProcSetUlp
    BY <2>10, SetUlpKeeps
  <2>11. CASE ProcSuplMode
    BY <2>11, CapabilitiesTakenKeeps
  <2>12. CASE ProcSession
    BY <2>12, SessionKeeps
  <2> QED BY <1>2, <2>1, <2>2, <2>3, <2>4, <2>5, <2>6, <2>7, <2>8, <2>9, <2>10, <2>11, <2>12 DEF UlpNext
<1> QED BY <1>1, <1>2

LEMMA UlpHolds == UlpSpec => []UlpInv
<1>1. UlpInit => UlpInv
  BY UlpInitHolds
<1>2. UlpInv /\ [UlpNext]_ulpVars => UlpInv'
  BY UlpStep
<1> QED BY <1>1, <1>2, PTL DEF UlpSpec

LEMMA InvDeliversAtMost == UlpInv => delivered \in 0..reported
<1> SUFFICES ASSUME UlpInv PROVE delivered \in 0..reported
  OBVIOUS
<1>1. delivered \in Nat /\ reported \in Nat /\ Making \in Nat
      /\ delivered + Cardinality(Positions(tasks)) + Making <= reported
      /\ Cardinality(Positions(tasks)) \in Nat
  BY FS_CardinalityType DEF UlpInv, UlpTyped, AllCounted, Making
<1> QED BY <1>1

\* The types of UlpProxyBase's and LocEngAdapter's fields and of the messages
\* that wait; no position is delivered twice.
THEOREM UlpTypes == UlpSpec => []UlpTypeOK
<1>1. UlpInv => UlpTypeOK
  <2> SUFFICES ASSUME UlpInv PROVE UlpTypeOK
    OBVIOUS
  <2>1. mUlp \in UlpProxy \cup Bases /\ mNavigating \in BOOLEAN /\ mFixCriteria \in LocPosMode \cup {INVALID}
        /\ \A p \in DOMAIN proxies : proxies[p].state \in {"new", "installed", "deleted"}
    BY DEF UlpInv, UlpTyped, Proxies, Modes, Record
  <2> QED BY <2>1, InvDeliversAtMost DEF UlpTypeOK
<1> QED BY <1>1, UlpHolds, PTL

\* setUlpProxy: of the proxies the library hands over and the bases that stand
\* in for them one lives as the adapter's mUlp; when all messages are handled it
\* knows the mode and the fix the framework wants (UlpProxyBase's sendFixMode,
\* sendStartFix and sendStopFix), the engine runs the session wanted, and each
\* report has been made once.
THEOREM UlpKeepsStep == UlpSpec => []UlpInStep
<1>1. UlpInv => UlpInStep
  <2> SUFFICES ASSUME UlpInv PROVE OneProxy /\ ModeInStep /\ ReportedOnce
    BY DEF UlpInStep
  <2>1. UlpTyped /\ Installed /\ AllCounted
    BY DEF UlpInv
  <2>2. OneProxy
    <3>1. DOMAIN proxies = Proxies /\ mUlp \in Proxies
      BY <2>1 DEF UlpTyped
    <3> QED BY <2>1, <3>1 DEF OneProxy, Installed
  <2>3. ModeInStep
    <3> SUFFICES ASSUME UlpQuiet, ~swapped, ~late
                 PROVE  /\ asked # INVALID => proxies[mUlp].mPosMode = asked
                        /\ proxies[mUlp].mFixSet = wanted
                        /\ mNavigating = wanted /\ (wanted => mFixCriteria = asked)
      BY DEF ModeInStep
    <3>1. Sound /\ ~StartsStops /\ ~GivesMode /\ tasks = << >>
      BY DEF Sound, UlpQuiet, StartsStops, GivesMode
    <3>2. ~Holds(tasks, NavRight) /\ ~Holds(tasks, ModeRight)
      BY <3>1 DEF Holds
    <3>3. wanted => asked # INVALID
      BY <2>1 DEF UlpTyped
    <3> QED BY <3>1, <3>2, <3>3 DEF UlpInv, NavComing, ModeComing
  <2>4. ReportedOnce
    <3> SUFFICES ASSUME UlpQuiet PROVE delivered = reported
      BY DEF ReportedOnce
    <3>1. Positions(tasks) = {} /\ Making = 0 /\ ~stale
      BY DEF UlpQuiet, Positions, Making
    <3>2. Cardinality(Positions(tasks)) = 0
      BY <3>1, FS_EmptySet
    <3> QED BY <2>1, <3>1, <3>2 DEF AllCounted, UlpTyped
  <2> QED BY <2>2, <2>3, <2>4
<1> QED BY <1>1, UlpHolds, PTL
=============================================================================
