------------------------------ MODULE DmnConn -------------------------------
(***************************************************************************)
(* The server through which other daemons ask for a network interface      *)
(* (loc_eng_dmn_conn).  loc_eng_agps_init launches a thread and waits      *)
(* until it is ready; the thread opens a pipe for requests and one pipe    *)
(* for the answers to each sender, and turns requests into messages for    *)
(* the message task; the message task writes the answers, and blocks when  *)
(* the pipe is full.  What the interface machines decide is in AgpsNif:    *)
(* here a subscriber may be granted or refused at any time.  A pipe that   *)
(* cannot be opened stops nobody: the server is ready without it.          *)
(*                                                                         *)
(* loc_eng_dmn_conn_loc_api_server_unblock and _join are called only from  *)
(* code that is compiled out, so the thread ends only by a failure.        *)
(***************************************************************************)
EXTENDS Integers, Sequences

CONSTANTS
  WifiSender,     \* the senders a LocEngReqRelWifi answers: QUIPC, MSAPM, MSAPU
  MaxWrites,      \* bound on the messages the daemons write
  MaxPipe         \* answers a pipe holds before a writer blocks

ASSUME ServerAssumption == MaxPipe \in Nat

GPSONE_DAEMON == "GPSONE_DAEMON"
Sender == WifiSender \cup {GPSONE_DAEMON}
Requests == "requests"
Pipe   == Sender \cup {Requests}      \* one for the answers to each sender

VARIABLES
  launcher,       \* loc_eng_agps_init: "idle", "locking", "asleep", "returned"
  creator,        \* how the thread is created, and whether that works
  thread,         \* the server's thread
  thread_ready, thread_exit, spurious,
  pipes,          \* the pipes that are open
  inbox,          \* the request pipe; ghost: how many valid requests came up to each message
  forwarded,      \* the requests handed to the message task, in order, and those
  accepted,       \* it has handled
  subscribed,     \* the senders an interface machine serves or is about to
  outbox,         \* the answers in each sender's pipe
  lost,           \* an answer went to a pipe that is not open
  written, wellFormed  \* what the daemons wrote, and the valid requests among it

serverVars == <<launcher, creator, thread, thread_ready, thread_exit, spurious, pipes, inbox,
          forwarded, accepted, subscribed, outbox, lost, written, wellFormed>>
helper == <<launcher, creator, thread_ready, thread_exit, spurious>>
task   == <<accepted, subscribed, outbox, lost>>
daemon == <<written, wellFormed>>

\* A message in the request pipe; "torn" is one whose size or text is cut short.
Ctrl(kind, type, sender) == [kind |-> kind, type |-> type, sender |-> sender]
Valid(m) == m.kind \in {"REQUEST", "RELEASE"} /\ m.type # "bad" /\ m.sender \in Sender
Wire == [kind : {"REQUEST", "RELEASE"}, type : {"SUPL"}, sender : Sender]
          \cup {Ctrl("REQUEST", "bad", GPSONE_DAEMON), Ctrl("REQUEST", "SUPL", "MODEM"),
                Ctrl("unsupported", "SUPL", GPSONE_DAEMON), Ctrl("torn", "SUPL", GPSONE_DAEMON)}

ServerInit ==
  /\ launcher = "idle" /\ thread = "none"
  /\ creator \in [by : {"create_thread_cb", "pthread_create"}, works : BOOLEAN]
  /\ thread_ready = FALSE /\ thread_exit = FALSE /\ spurious = FALSE
  /\ pipes = {} /\ inbox = <<>> /\ forwarded = <<>> /\ accepted = 0
  /\ subscribed = {} /\ outbox = [s \in Sender |-> <<>>] /\ lost = FALSE
  /\ written = 0 /\ wellFormed = <<>>

-----------------------------------------------------------------------------
(* loc_eng_dmn_conn_launch_thelper, on the HAL's thread.                    *)

\* The result of the callback is not looked at; that of pthread_create is.
Launch ==
  /\ launcher = "idle"
  /\ thread' = IF creator.works THEN "init" ELSE "none"
  /\ launcher' = IF creator.works \/ creator.by = "create_thread_cb" THEN "locking" ELSE "returned"
  /\ UNCHANGED <<creator, thread_ready, thread_exit, spurious, pipes, inbox, forwarded, task, daemon>>

\* thelper_signal_wait: one test under the mutex, then one wait.
thelper_signal_wait ==
  /\ launcher = "locking"
  /\ launcher' = IF ~thread_ready /\ ~thread_exit THEN "asleep" ELSE "returned"
  /\ UNCHANGED <<creator, thread, thread_ready, thread_exit, spurious, pipes, inbox, forwarded, task, daemon>>

SpuriousWakeup ==
  /\ launcher = "asleep" /\ launcher' = "returned" /\ spurious' = TRUE
  /\ UNCHANGED <<creator, thread, thread_ready, thread_exit, pipes, inbox, forwarded, task, daemon>>

-----------------------------------------------------------------------------
(* The server's thread: thelper_main and loc_api_server_proc.               *)

\* A pipe left by an earlier process is opened again.  Whether opening one
\* worked is not looked at.
loc_api_server_proc_init ==
  /\ thread = "init" /\ thread' = "ready" /\ pipes' \in SUBSET Pipe
  /\ UNCHANGED <<helper, inbox, forwarded, task, daemon>>

thelper_signal_ready ==
  /\ thread = "ready" /\ thread' = "proc"
  /\ thread_ready' = TRUE
  /\ launcher' = IF launcher = "asleep" THEN "returned" ELSE launcher
  /\ UNCHANGED <<creator, thread_exit, spurious, pipes, inbox, forwarded, task, daemon>>

\* Mutant: the sender is not looked at.
HandleAnySender(m) ==
  forwarded' = IF m.kind \in {"REQUEST", "RELEASE"} /\ m.type # "bad" THEN Append(forwarded, m)
               ELSE forwarded

\* What the request and release handlers do; their result is not passed on.
Handle(m) == forwarded' = IF Valid(m) THEN Append(forwarded, m) ELSE forwarded

\* The receive reads the size and then as much text; a message cut short
\* fails, and so does every receive from a pipe that was not opened.
msgrcv == Requests \in pipes /\ Head(inbox).msg.kind # "torn"

\* thelper_main calls loc_api_server_proc until it fails once.
thelper_main(result) ==
  IF result = 0 THEN UNCHANGED <<thread_exit, thread>>
  ELSE thread_exit' = TRUE /\ thread' = "post"

loc_api_server_proc ==
  /\ thread = "proc" /\ (Requests \in pipes => inbox # <<>>)
  /\ IF msgrcv THEN Handle(Head(inbox).msg) /\ thelper_main(0)
     ELSE UNCHANGED forwarded /\ thelper_main(-1)
  /\ inbox' = IF Requests \in pipes THEN Tail(inbox) ELSE inbox
  /\ UNCHANGED <<launcher, creator, thread_ready, spurious, pipes, task, daemon>>

\* The pipes are closed and removed; the message task keeps their numbers.
loc_api_server_proc_post ==
  /\ thread = "post" /\ thread' = "ended" /\ pipes' = {} /\ inbox' = <<>>
  /\ UNCHANGED <<helper, forwarded, task, daemon>>

-----------------------------------------------------------------------------
(* The message task.                                                        *)

\* Mutant: the pipe's writer does not wait for room.
data_connNonBlocking(s, status) ==
  /\ outbox' = [outbox EXCEPT ![s] = Append(@, status)]
  /\ UNCHANGED lost

\* loc_eng_dmn_conn_loc_api_server_data_conn: each sender has its own pipe.
data_conn(s, status) ==
  IF s \notin pipes THEN lost' = TRUE /\ UNCHANGED outbox
  ELSE /\ Len(outbox[s]) < MaxPipe
       /\ outbox' = [outbox EXCEPT ![s] = Append(@, status)]
       /\ UNCHANGED lost

Untold == UNCHANGED <<outbox, lost>>

\* The daemon is told of its own release at once, ...
LocEngReqRelBIT(m) ==
  IF m.kind = "REQUEST" THEN subscribed' = subscribed \cup {m.sender} /\ Untold
  ELSE /\ subscribed' = subscribed \ {m.sender}
       /\ IF m.sender \in subscribed THEN data_conn(m.sender, "RELEASE_SUCCESS") ELSE Untold

\* ... a WIFI sender when the interface is released.
LocEngReqRelWifi(m) ==
  /\ subscribed' = IF m.kind = "REQUEST" THEN subscribed \cup {m.sender} ELSE subscribed \ {m.sender}
  /\ Untold

ReqRel ==
  /\ accepted < Len(forwarded) /\ accepted' = accepted + 1
  /\ LET m == forwarded[accepted + 1] IN
     IF m.sender = GPSONE_DAEMON THEN LocEngReqRelBIT(m) ELSE LocEngReqRelWifi(m)
  /\ UNCHANGED <<helper, thread, pipes, inbox, forwarded, daemon>>

\* notifyRsrcStatus of a subscriber.
Notify(s) ==
  /\ s \in subscribed
  /\ \/ data_conn(s, "REQUEST_SUCCESS") /\ UNCHANGED subscribed
     \/ /\ \E status \in {"FAILURE", "RELEASE_SUCCESS"} : data_conn(s, status)
        /\ subscribed' = subscribed \ {s}
  /\ UNCHANGED <<helper, thread, pipes, inbox, forwarded, accepted, daemon>>

-----------------------------------------------------------------------------
(* The daemons.                                                             *)

Write(m) ==
  /\ Requests \in pipes /\ written < MaxWrites /\ written' = written + 1
  /\ wellFormed' = IF Valid(m) THEN Append(wellFormed, m) ELSE wellFormed
  /\ inbox' = Append(inbox, [msg |-> m, nth |-> Len(wellFormed')])
  /\ UNCHANGED <<helper, thread, pipes, forwarded, task>>

Read(s) ==
  /\ outbox[s] # <<>> /\ outbox' = [outbox EXCEPT ![s] = Tail(@)]
  /\ UNCHANGED <<helper, thread, pipes, inbox, forwarded, accepted, subscribed, lost, daemon>>

ServerNext ==
  \/ Launch \/ thelper_signal_wait \/ SpuriousWakeup
  \/ loc_api_server_proc_init \/ thelper_signal_ready
  \/ loc_api_server_proc \/ loc_api_server_proc_post
  \/ ReqRel \/ \E s \in Sender : Notify(s) \/ Read(s)
  \/ \E m \in Wire : Write(m)

ServerSpec == ServerInit /\ [][ServerNext]_serverVars

-----------------------------------------------------------------------------
ServerTypeOK ==
  /\ launcher \in {"idle", "locking", "asleep", "returned"} /\ lost \in BOOLEAN
  /\ thread \in {"none", "init", "ready", "proc", "post", "ended"}
  /\ pipes \subseteq Pipe /\ accepted \in 0..Len(forwarded)
  /\ \A s \in Sender : Len(outbox[s]) <= MaxPipe

(* loc_eng_agps_init sleeps only while the thread is on its way to waking   *)
(* it, unless the callback was to create the thread and failed, which is    *)
(* not looked at.  When it returns after a successful creation the server   *)
(* has tried to open its pipes, unless the one wait it does was woken by    *)
(* nobody.                                                                  *)
LaunchWaits ==
  /\ launcher = "asleep" => \/ thread \in {"init", "ready"}
                            \/ creator = [by |-> "create_thread_cb", works |-> FALSE]
  /\ launcher = "returned" /\ creator.works /\ ~spurious => thread \notin {"none", "init"}

(* Every valid request or release is handed to the message task once and in *)
(* order, whatever invalid messages come in between, until the server ends: *)
(* what waits in the pipe are the next ones, up to the last that was        *)
(* written.  A server whose request pipe was not opened has none to hand on. *)
UpTo(k) == IF k = 0 THEN Len(forwarded) ELSE inbox[k].nth
RequestsForwarded ==
  /\ Len(forwarded) <= Len(wellFormed) /\ \A k \in DOMAIN forwarded : forwarded[k] = wellFormed[k]
  /\ thread = "proc" =>
       /\ \A k \in DOMAIN inbox :
            IF Valid(inbox[k].msg)
            THEN UpTo(k) = UpTo(k - 1) + 1 /\ wellFormed[UpTo(k)] = inbox[k].msg
            ELSE UpTo(k) = UpTo(k - 1)
       /\ UpTo(Len(inbox)) = Len(wellFormed)

\* Both: the launch waits for the server, and the server serves the daemons.
DaemonsServed == LaunchWaits /\ RequestsForwarded
=============================================================================
