------------------------------ MODULE LocEngNi ------------------------------
(***************************************************************************)
(* Network-initiated requests: loc_eng_ni.cpp.  The modem asks whether the *)
(* user agrees to be located; the framework shows the question and may     *)
(* answer; a thread spawned for each request sends the answer, or "no      *)
(* response" when time is up.  There is one session for ordinary SUPL      *)
(* requests and one for emergency ones.                                    *)
(*                                                                         *)
(* Three kinds of threads meet here: the MsgTask thread (requests, answers *)
(* to the modem, engine restarts), a framework thread in                   *)
(* loc_eng_ni_respond, and the ni_thread_proc threads.  Only some of their *)
(* accesses are under tLock; what is outside it is a step of its own.      *)
(***************************************************************************)
EXTENDS Naturals, Sequences, FiniteSets

CONSTANTS MaxRequests,   \* bound: requests accepted (reqIDCounter)
          MaxRestarts    \* bound: engine restarts

ASSUME NiAssumption == MaxRequests \in Nat \ {0} /\ MaxRestarts \in Nat

Session  == {"session", "sessionEs"}
UserResponse == {"ACCEPT", "DENY"}
Response == UserResponse \cup {"NORESP", "IGNORE", "UNSET"}

\* A request is known by its reqID, its payload and thread by the same number.
Request == 1..MaxRequests
None == 0

VARIABLES rawRequest, reqID, resp, respRecvd,   \* of each session
          reqIDCounter,
          thread,      \* where the thread of each request is
          serves,      \* its session
          msgs,        \* LocEngInformNiResponse messages for the MsgTask
          freed,       \* times each payload was freed
          said,        \* what the user has said of each request
          told,        \* history: what the modem has been told of each
          responder,   \* the framework thread in loc_eng_ni_respond
          reset,       \* what is left of an engine restart's reset
          restarts

niSession == <<rawRequest, reqID, resp, respRecvd>>
niVars == <<niSession, reqIDCounter, thread, serves, msgs, freed, said, told, responder,
          reset, restarts>>

Idle == [at |-> "idle"]
OfEach(x) == [s \in Session |-> x]

NiInit ==
  /\ rawRequest = OfEach(None) /\ reqID = OfEach(None)
  /\ resp = OfEach("UNSET") /\ respRecvd = OfEach(FALSE)
  /\ reqIDCounter = 0
  /\ thread = [n \in Request |-> "none"]
  /\ serves = [n \in Request |-> "session"]
  /\ msgs = << >> /\ freed = [n \in Request |-> 0]
  /\ said = [n \in Request |-> "nothing"] /\ told = said
  /\ responder = Idle /\ reset = << >> /\ restarts = 0

Free(n) == freed' = [freed EXCEPT ![n] = @ + 1]

-----------------------------------------------------------------------------
(* The MsgTask thread.                                                     *)

\* Mutant: an ordinary request does not look at its own session.
BusyEsOnly(s) == rawRequest["sessionEs"] # None

\* An emergency request waits for the emergency session, any other for both.
Busy(s) == rawRequest["sessionEs"] # None \/ rawRequest[s] # None

\* loc_eng_ni_request_handler; a request that finds the session busy is freed.
NiRequest(s) ==
  /\ reset = << >> /\ ~Busy(s)
  /\ reqIDCounter < MaxRequests /\ reqIDCounter' = reqIDCounter + 1
  /\ LET n == reqIDCounter + 1 IN
     /\ rawRequest' = [rawRequest EXCEPT ![s] = n]
     /\ reqID' = [reqID EXCEPT ![s] = n]
     /\ thread' = [thread EXCEPT ![n] = "starting"]
     /\ serves' = [serves EXCEPT ![n] = s]
     /\ said' = [said EXCEPT ![n] = "asked"]   \* ni_notify_cb
  /\ UNCHANGED <<resp, respRecvd, msgs, freed, told, responder, reset, restarts>>

\* LocEngInformNiResponse: the modem is told, the message frees the payload.
Inform ==
  /\ reset = << >> /\ msgs # << >>
  /\ msgs' = Tail(msgs)
  /\ Free(Head(msgs).req)
  /\ told' = [told EXCEPT ![Head(msgs).req] = Head(msgs).resp]
  /\ UNCHANGED <<niSession, reqIDCounter, thread, serves, said, responder, reset, restarts>>

\* loc_eng_ni_reset_on_engine_restart: for each session in turn, free the
\* request, forget it, wake the thread.  The first two are outside tLock.
EngineRestart ==
  /\ reset = << >> /\ restarts < MaxRestarts
  /\ restarts' = restarts + 1
  /\ reset' = << <<"free", "sessionEs">>, <<"free", "session">> >>
  /\ UNCHANGED <<niSession, reqIDCounter, thread, serves, msgs, freed, said, told, responder>>

ResetIs(step) == reset # << >> /\ reset[1][1] = step

ResetFree ==
  /\ ResetIs("free")
  /\ LET s == reset[1][2] IN
     IF rawRequest[s] = None
     THEN reset' = Tail(reset) /\ UNCHANGED freed
     ELSE /\ Free(rawRequest[s])
          /\ reset' = << <<"forget", s>>, <<"wake", s>> >> \o Tail(reset)
  /\ UNCHANGED <<niSession, reqIDCounter, thread, serves, msgs, said, told, responder, restarts>>

ResetForget ==
  /\ ResetIs("forget")
  /\ rawRequest' = [rawRequest EXCEPT ![reset[1][2]] = None]
  /\ reset' = Tail(reset)
  /\ UNCHANGED <<reqID, resp, respRecvd, reqIDCounter, thread, serves, msgs, freed,
                 said, told, responder, restarts>>

ResetWake ==
  /\ ResetIs("wake")
  /\ respRecvd' = [respRecvd EXCEPT ![reset[1][2]] = TRUE]
  /\ reset' = Tail(reset)
  /\ UNCHANGED <<rawRequest, reqID, resp, reqIDCounter, thread, serves, msgs, freed,
                 said, told, responder, restarts>>

MsgTaskStep == Inform \/ ResetFree \/ ResetForget \/ ResetWake

-----------------------------------------------------------------------------
(* The framework thread: loc_eng_ni_respond.                               *)

\* Mutant: an emergency request has the ordinary one ignored when it is denied.
RespondIgnoresAlways(n, r) ==
  /\ responder = Idle /\ said[n] = "asked"
  /\ said' = [said EXCEPT ![n] = r]
  /\ responder' =
       CASE n = reqID["sessionEs"] /\ rawRequest["sessionEs"] # None ->
              [at |-> IF rawRequest["session"] # None THEN "ignoring" ELSE "setting",
               s |-> "sessionEs", r |-> r]
         [] n = reqID["session"] /\ rawRequest["session"] # None ->
              [at |-> "setting", s |-> "session", r |-> r]
         [] OTHER -> Idle
  /\ UNCHANGED <<niSession, reqIDCounter, thread, serves, msgs, freed, told, reset, restarts>>

\* The session is chosen without a lock; an id of no session is dropped.
Respond(n, r) ==
  /\ responder = Idle /\ said[n] = "asked"
  /\ said' = [said EXCEPT ![n] = r]
  /\ responder' =
       CASE n = reqID["sessionEs"] /\ rawRequest["sessionEs"] # None ->
              [at |-> IF r = "ACCEPT" /\ rawRequest["session"] # None
                      THEN "ignoring" ELSE "setting",
               s |-> "sessionEs", r |-> r]
         [] n = reqID["session"] /\ rawRequest["session"] # None ->
              [at |-> "setting", s |-> "session", r |-> r]
         [] OTHER -> Idle
  /\ UNCHANGED <<niSession, reqIDCounter, thread, serves, msgs, freed, told, reset, restarts>>

Answer(s, r) ==
  /\ resp' = [resp EXCEPT ![s] = r]
  /\ respRecvd' = [respRecvd EXCEPT ![s] = TRUE]

\* An accepted emergency request has the ordinary one ignored.
RespondIgnores ==
  /\ responder.at = "ignoring"
  /\ Answer("session", "IGNORE")
  /\ responder' = [responder EXCEPT !.at = "setting"]
  /\ UNCHANGED <<rawRequest, reqID, reqIDCounter, thread, serves, msgs, freed, said,
                 told, reset, restarts>>

RespondSets ==
  /\ responder.at = "setting"
  /\ Answer(responder.s, responder.r)
  /\ responder' = Idle
  /\ UNCHANGED <<rawRequest, reqID, reqIDCounter, thread, serves, msgs, freed, said,
                 told, reset, restarts>>

-----------------------------------------------------------------------------
(* The thread of request n: ni_thread_proc.                                *)

\* Mutant: rawRequest is not checked, a reset request is answered too.
TakeRequestUnchecked(s, r) ==
  /\ rawRequest' = [rawRequest EXCEPT ![s] = None]
  /\ IF r = "IGNORE" THEN Free(rawRequest[s]) /\ UNCHANGED msgs
     ELSE msgs' = Append(msgs, [req |-> rawRequest[s], resp |-> r]) /\ UNCHANGED freed

\* What is pending in the session is answered, or freed when it is ignored.
\* The message, posted after tLock is released, is in the queue at once here.
TakeRequest(s, r) ==
  /\ rawRequest' = [rawRequest EXCEPT ![s] = None]
  /\ CASE rawRequest[s] = None -> UNCHANGED <<msgs, freed>>
       [] rawRequest[s] # None /\ r = "IGNORE" ->
            Free(rawRequest[s]) /\ UNCHANGED msgs
       [] OTHER -> /\ msgs' = Append(msgs, [req |-> rawRequest[s], resp |-> r])
                   /\ UNCHANGED freed

\* The wait is over, with a response or without: the rest of the critical
\* section.
Finish(n, r) ==
  LET s == serves[n] IN
  /\ TakeRequest(s, r)
  /\ resp' = [resp EXCEPT ![s] = r]
  /\ respRecvd' = [respRecvd EXCEPT ![s] = FALSE]
  /\ thread' = [thread EXCEPT ![n] = "leaving"]

\* The loop condition is read under tLock: on entry, and after each wakeup.
Waits(n) ==
  /\ thread[n] = "starting" /\ ~respRecvd[serves[n]]
  /\ thread' = [thread EXCEPT ![n] = "waiting"]
  /\ UNCHANGED <<niSession, reqIDCounter, serves, msgs, freed, said, told, responder, reset, restarts>>

Responded(n) ==
  /\ thread[n] \in {"starting", "waiting"} /\ respRecvd[serves[n]]
  /\ Finish(n, resp[serves[n]])
  /\ UNCHANGED <<reqID, reqIDCounter, serves, said, told, responder, reset, restarts>>

\* Mutant: a thread that times out returns at once.
TimedOutReturns(n) ==
  /\ thread[n] = "waiting"
  /\ thread' = [thread EXCEPT ![n] = "leaving"]
  /\ UNCHANGED <<niSession, reqIDCounter, serves, msgs, freed, said, told, responder, reset, restarts>>

\* ETIMEDOUT, even when a response has come meanwhile.
TimedOut(n) ==
  /\ thread[n] = "waiting"
  /\ Finish(n, "NORESP")
  /\ UNCHANGED <<reqID, reqIDCounter, serves, said, told, responder, reset, restarts>>

\* After tLock is released: reqID = 0.
Leaves(n) ==
  /\ thread[n] = "leaving"
  /\ thread' = [thread EXCEPT ![n] = "gone"]
  /\ reqID' = [reqID EXCEPT ![serves[n]] = None]
  /\ UNCHANGED <<rawRequest, resp, respRecvd, reqIDCounter, serves, msgs, freed, said,
                 told, responder, reset, restarts>>

NiThread(n) == Waits(n) \/ Responded(n) \/ TimedOut(n) \/ Leaves(n)

-----------------------------------------------------------------------------
NiNext ==
  \/ \E s \in Session : NiRequest(s)
  \/ EngineRestart \/ MsgTaskStep
  \/ \E n \in Request, r \in UserResponse : Respond(n, r)
  \/ RespondIgnores \/ RespondSets
  \/ \E n \in Request : NiThread(n)

NiSpec == NiInit /\ [][NiNext]_niVars

\* Threads are scheduled and the timed wait times out; the user need not
\* answer.
NiFairSpec ==
  /\ NiSpec
  /\ WF_niVars(MsgTaskStep)
  /\ \A n \in Request : WF_niVars(NiThread(n))

\* Type invariant.
NiTypeOK ==
  /\ rawRequest \in [Session -> 0..MaxRequests]
  /\ reqID \in [Session -> 0..MaxRequests]
  /\ resp \in [Session -> Response] /\ respRecvd \in [Session -> BOOLEAN]
  /\ reqIDCounter \in 0..MaxRequests /\ restarts \in 0..MaxRestarts
  /\ thread \in [Request -> {"none", "starting", "waiting", "leaving", "gone"}]
  /\ serves \in [Request -> Session]
  /\ msgs \in Seq([req : Request, resp : Response])
  /\ freed \in [Request -> Nat]
  /\ said \in [Request -> UserResponse \cup {"nothing", "asked"}]
  /\ told \in [Request -> Response \cup {"nothing"}]
  /\ responder.at \in {"idle", "ignoring", "setting"}

\* Where the payload of a request is: with a session, in a message, or freed.
Places(n) ==
  Cardinality({s \in Session : rawRequest[s] = n})
    + Cardinality({k \in DOMAIN msgs : msgs[k].req = n}) + freed[n]

\* Without a restart a request's payload is always in one place: it is never
\* freed twice, sent twice, sent after it was freed, or overwritten by a
\* later request and lost.
PayloadOnce == restarts = 0 => \A n \in 1..reqIDCounter : Places(n) = 1

\* Together with the types of the variables.
PayloadSound == NiTypeOK /\ PayloadOnce

\* Every request leaves its session, whether or not anybody answers and the
\* engine restarts: "to timeout to clear up the notification status".
RequestEnds ==
  \A n \in Request : \A s \in Session : rawRequest[s] = n ~> rawRequest[s] # n

EmergencyAccepted ==
  \E n \in Request : serves[n] = "sessionEs" /\ said[n] = "ACCEPT"

\* The modem is told something of every request: only a restart, or the user's
\* accepting an emergency request ("ignore any SUPL NI non-Es session if a SUPL
\* NI ES is accepted"), may leave one unanswered.
ModemHears ==
  \A n \in Request :
    said[n] # "nothing" ~> told[n] # "nothing" \/ restarts > 0 \/ EmergencyAccepted

\* "Reset the user response flag for the next session": the answer sent for a
\* request is the user's answer to that request, or none.
AnswerIsUsers ==
  \A k \in DOMAIN msgs : msgs[k].resp \in {said[msgs[k].req], "NORESP"}
=============================================================================
