----------------------------- MODULE LocContext -----------------------------
(***************************************************************************)
(* The foreground and the background context (LocDualContext.cpp,          *)
(* ContextBase.cpp).  Any thread may ask for either; the first to ask      *)
(* builds it, under mGetLocContextMutex, together with the message task    *)
(* both share, and the first context of all is the one whose features are  *)
(* injected.  The first message is sent after the mutex is released.       *)
(*                                                                         *)
(* A context takes its LocApi from the LBS library, from                   *)
(* libloc_api_v02.so, or from libloc_api-rpc-qc.so; which of them are      *)
(* there, and export a getter, is the platform's.                          *)
(***************************************************************************)
EXTENDS Naturals, Sequences, SequencesExt

CONSTANTS
  Caller,         \* the threads that ask for a context
  MaxAsks         \* bound on how often each asks

VARIABLES
  platform,       \* what dlopen and dlsym find
  mutex,          \* the holder of mGetLocContextMutex
  caller,         \* what each thread is doing
  mMsgTask,       \* the task, by the number of its creation; 0 is NULL
  context,        \* mFgContext and mBgContext, NoContext while NULL
  mInjectContext, \* "Fg", "Bg", or "none"
  injected,       \* the contexts whose features were injected, in order
  made,           \* how many tasks and contexts were built
  sent,           \* the first messages, by sender and task
  asks

vars == <<platform, mutex, caller, mMsgTask, context, mInjectContext, injected, made, sent, asks>>

Nobody    == "nobody"
NoContext == [task |-> 0, api |-> "none", exMask |-> "none"]
Kind      == {"Fg", "Bg"}
Working   == [at |-> "idle", want |-> "none"]

\* The library may be absent, lack getLocApi, have one that fails, or work.
Library  == {"absent", "no getter", "fails", "works"}
Platform == [mpq : BOOLEAN, lbs : BOOLEAN, v02 : Library, rpc : Library]

Init ==
  /\ platform \in Platform
  /\ mutex = Nobody /\ caller = [c \in Caller |-> Working]
  /\ mMsgTask = 0 /\ context = [k \in Kind |-> NoContext]
  /\ mInjectContext = "none" /\ injected = <<>>
  /\ made = [tasks |-> 0, contexts |-> 0]
  /\ sent = {} /\ asks = [c \in Caller |-> 0]

\* createLocApi: RPC is tried only where libloc_api_v02.so cannot be opened.
createLocApi ==
  CASE platform.mpq           -> "dummy"
    [] ~platform.mpq /\ platform.lbs -> "lbs"
    [] ~platform.mpq /\ ~platform.lbs /\ platform.v02 = "works" -> "v02"
    [] ~platform.mpq /\ ~platform.lbs /\ platform.v02 = "absent" /\ platform.rpc = "works" -> "rpc"
    [] OTHER -> "dummy"

-----------------------------------------------------------------------------
Step(c, from, to) == caller[c].at = from /\ caller' = [caller EXCEPT ![c].at = to]

\* getLocFgContext or getLocBgContext is called, and takes the mutex.
Ask(c, kind) ==
  /\ caller[c].at = "idle" /\ asks[c] < MaxAsks
  /\ asks' = [asks EXCEPT ![c] = @ + 1]
  /\ caller' = [caller EXCEPT ![c] = [at |-> "asking", want |-> kind]]
  /\ UNCHANGED <<platform, mutex, mMsgTask, context, mInjectContext, injected, made, sent>>

\* Mutant: no mutex.
MayAlwaysEnter == TRUE

MayEnter == mutex = Nobody

Lock(c) ==
  /\ Step(c, "asking", "locked") /\ MayEnter /\ mutex' = c
  /\ UNCHANGED <<platform, mMsgTask, context, mInjectContext, injected, made, sent, asks>>

\* The test for NULL and the building are two steps, both under the mutex.
FindContext(c) ==
  /\ caller[c].at = "locked"
  /\ caller' = [caller EXCEPT ![c].at =
       IF context[caller[c].want] = NoContext THEN "building" ELSE "built"]
  /\ UNCHANGED <<platform, mutex, mMsgTask, context, mInjectContext, injected, made, sent, asks>>

\* getMsgTask creates the task only for the first context of either kind.
BuildContext(c) ==
  LET k    == caller[c].want
      task == IF mMsgTask = 0 THEN made.tasks + 1 ELSE mMsgTask
  IN  /\ Step(c, "building", "built")
      /\ mMsgTask' = task
      /\ context' = [context EXCEPT ![k] =
           [task |-> task, api |-> createLocApi,
            exMask |-> IF k = "Fg" THEN "mFgExclMask" ELSE "mBgExclMask"]]
      /\ made' = [tasks |-> IF mMsgTask = 0 THEN made.tasks + 1 ELSE made.tasks,
                  contexts |-> made.contexts + 1]
      /\ UNCHANGED <<platform, mutex, mInjectContext, injected, sent, asks>>

\* injectFeatureConfig of the first context, before the mutex is released.
Inject(c) ==
  /\ Step(c, "built", "unlocked") /\ mutex' = Nobody
  /\ IF mInjectContext = "none"
     THEN mInjectContext' = caller[c].want /\ injected' = Append(injected, caller[c].want)
     ELSE UNCHANGED <<mInjectContext, injected>>
  /\ UNCHANGED <<platform, mMsgTask, context, made, sent, asks>>

\* The first message goes through the context, read again without the mutex.
SendFirst(c) ==
  /\ Step(c, "unlocked", "idle")
  /\ sent' = sent \cup {<<c, asks[c], context[caller[c].want].task>>}
  /\ UNCHANGED <<platform, mutex, mMsgTask, context, mInjectContext, injected, made, asks>>

Next ==
  \E c \in Caller :
    \/ \E k \in Kind : Ask(c, k)
    \/ Lock(c) \/ FindContext(c) \/ BuildContext(c) \/ Inject(c) \/ SendFirst(c)

Spec == Init /\ [][Next]_vars

-----------------------------------------------------------------------------
TypeOK ==
  /\ mutex \in Caller \cup {Nobody} /\ mMsgTask \in 0..1
  /\ context \in [Kind -> {NoContext} \cup
        [task : {1}, api : {"lbs", "v02", "rpc", "dummy"}, exMask : {"mFgExclMask", "mBgExclMask"}]]

(* However the threads interleave, each context is built once, on one task  *)
(* they share, features are injected once, in the context that came first,  *)
(* and no thread gets a context before that: every first message is sent to *)
(* the shared task after the injection.                                     *)
ContextsShared ==
  /\ made.tasks <= 1
  /\ made.contexts = Cardinality({k \in Kind : context[k] # NoContext})
  /\ Len(injected) <= 1 /\ (sent # {} => Len(injected) = 1)
  /\ \A s \in sent : s[3] = mMsgTask /\ mMsgTask # 0
=============================================================================
