# Formal models of the Oppo Find 7 device tree

TLA+ models of the code under `src/`, checked with TLC, and theorems about them
proved with TLAPS. The device tree is mostly the Qualcomm GPS stack (`gps/`,
19 of 22 thousand lines): a set of C++ components that exchange messages on one
worker thread, talk to the modem, to the Android framework and to a
connectivity service, and must survive modem restarts. Around it stand the
platform's own parts: lights, camera wrapper, the device tree table tool.

Contents: 1 inventory, 2 plan, 3 the modules, 4 the runs, 5 bounds,
6 fairness, 7 what is proved, 8 disagreements found, 9 what is not modelled.

## 1. Inventory

Paths below are relative to `src/`; `loc_api` stands for
`gps/loc_api/libloc_api_50001`.

### How the parts interact

    framework --HAL calls--> loc.cpp --> loc_eng --messages--> MsgTask thread
    modem --QMI--> LocApi --> LocEngAdapter --messages--------> MsgTask thread
    connectivity service --agps calls--> loc_eng --messages---> MsgTask thread
    daemons (QUIPC, MSAPM) --pipes--> loc_eng_dmn_conn --msgs-> MsgTask thread
    MsgTask thread --callbacks--> framework, connectivity service; calls--> LocApi

Almost every entry point only posts a message; its `proc()` runs on the one
MsgTask thread. The exceptions are what makes the system hard: NI answers and
timeouts use threads of their own under a lock, the retry timer of the emergency
call touches the subscriber list from the timer thread, and the timer and thread
services are concurrent themselves. The daemon server and the engine's
delivery of reports run on threads of their own, and the HAL's settings and the
ULP proxy are used by one thread and replaced by another.

### Components

| component | state | operations | hard behaviour | correct when |
|---|---|---|---|---|
| AGPS machines (`loc_api/loc_eng_agps.*`): `agnss_nif`, `internet_nif`, `wifi_nif` | state, subscriber list with active/inactive entries | subscribe, unsubscribe, granted, released, denied, drop all | answers that carry no request identity, closes that wait, network loss, modem restart | nobody but a daemon at a restart is forgotten, nobody else keeps a dead connection or waits for ever |
| emergency data call (`DSStateMachine`, same files) | the same, and a retry count | the same, and retry callback, fallback to `agnss_nif` | retry timer against close and grant; a start refused in the middle of a transition | the call and the machine agree, retries are bounded, fallbacks name a connection |
| NI requests (`loc_api/loc_eng_ni.cpp`) | two sessions, a thread per request | request, respond, time out, reset | three kinds of threads, unlocked accesses | each payload is freed once, each request ends |
| engine session (`loc_api/loc_eng.cpp`, `LocEngAdapter.*`) | `mNavigating`, fix criteria, muting, engine status, pending aiding data | start, stop, mode, fix, status, down, up | reports of an old session, crash in mid-session | no orphaned session, a restart resumes, a stop is heeded |
| threads (`gps/utils/LocThread.*`) | delegate shared by two threads, runnable | create, run, stop, destroy | lifetime of the shared delegate | freed once, never used after |
| queue (`gps/utils/msg_q.c`) | list, unblocked flag | init, snd, rcv, flush, unblock, destroy | lost and spurious wakeups | whoever waits is woken |
| message task (`gps/utils/MsgTask.*`) | the two above | sendMsg, run, destroy | destroyed by its own thread | first in first out, once, until destroyed |
| timers (`gps/utils/LocTimer.*`, `LocSharedLock.h`, `LocHeap.*`) | delegates, heap, timerfd, shared locks | start, stop, expire | a timer stopped while it fires, three threads | nothing freed is reached, the soonest timer is armed |
| LocApi and adapters (`gps/core`) | adapter array, event masks, the engine's handle, the ULP proxy | add, remove, update mask, open, close, deliver, up, down, replace the proxy | a mask captured when a message is sent and used when it is handled; an array walked by one thread and changed by another | at rest every adapter's events are registered, an event reaches once each adapter in front of a removal |
| contexts (`gps/core/LocDualContext.cpp`, `ContextBase.cpp`) | two contexts, the task they share | get either, by any thread | several threads ask first | each built once, configured once |
| daemon connection (`loc_api/loc_eng_dmn_conn*`) | pipes, helper thread state | launch, receive, answer | start-up handshake, malformed and torn requests, a full pipe | every valid request becomes one message |
| linked list, heap, configuration reader (`gps/utils`) | chain, tree, table | add, search, remove; push, pop, remove; read, update | both ends of the list, equal ranks, repeated lines | each agrees with its definition |
| XTRA, NMEA (`loc_api/loc_eng_xtra.cpp`, `loc_eng_nmea.cpp`) | buffers, the data of the last satellite report | forward, format | sentence counts at limits, data used by a later report | all satellites appear once, no stale data |
| HAL entry and settings (`loc_api/loc.cpp`, the servers, network and configuration of `loc_eng.cpp`) | `gps_conf`, SUPL host, network state, power vote | init, cleanup, setters, configuration update, resend after a restart | settings changed while they are resent | the engine ends with what the process remembers |
| camera wrapper (`camerawrapper`) | vendor module, fixed-up parameters and their strings | open, close, get, put and set parameters | strings kept per camera in an array every open replaces; settings without the lock | nothing is freed twice until cameras clash, settings fit each other |
| lights (`liblight/lights.c`) | notification, battery, attention states | set each light, open, close | who wins the LED; integer ramps and divisions | the LED shows the highest source lit |
| power (`power`) | none of its own | hints | none | values written in order |
| disk encryption (`cryptfs_hw`) | loaded library | set, update, wipe key | too many attempts lead to a wipe | no wipe otherwise |
| dtb tool (`dtbtool/dtbtool.c`) | sorted list of chips, the image | scan, write table, write trees | duplicates, order, page alignment, files that change meanwhile, writes that fail | a kept image matches its table |
| Find7Parts (`Find7Parts`) | proximity, torch, settings | key events, screen on/off | sensor state after the screen turns on | covered gestures are dropped |
| shims, configs, overlays, sepolicy, wifi and sensor data | none | none | none | data |

## 2. Plan

Done, in this order:

1. The AGPS machines with their lease (`AgpsStates`, `NifLease`, `AgpsNif`),
   the emergency call (`DsNif`).
2. Threads and queues (`LocThread`, `MsgQ`, `TaskFifo`, `MsgTask`), NI requests
   (`LocEngNi`), timers (`LocTimer`), the session (`LocEngSession`).
3. The services around the engine: `LocApi`, `Ulp`, `Hal`, `LocContext`,
   `DmnConn`, `Nmea`.
4. The structures, as code with pointers or positions checked against what they
   promise: `LinkedList`, `LocHeap` (together in `Structures`), `LocCfg`.
5. The platform: `Lights`, `CameraWrapper`, `Dtbtool`.
6. Proofs: `AgpsNifProofs`, `MsgQProofs`, `MsgTaskProofs` (with its thread),
   `LocTimerProofs`, `EngineProofs` (session, NI requests), `ServicesProofs`
   (contexts, emergency call, daemon connection, LocApi, Hal, Ulp),
   `DeviceProofs` (lights, camera, configuration reader, list, heap, NMEA,
   device tree table), `PartsProofs` (the last two together).

Left: `Hal` composed with `LocEngSession`, which share the restart.

Abstract specifications: `NifLease` (what the AGPS machines promise) and
`TaskFifo` (what a message task promises). `DsNif` uses `NifLease` in place of
`agnss_nif`.

## 3. The modules

**AgpsStates** is the transition table of `loc_eng_agps.cpp`: one operator for
`onRsrcEvent` of each state, giving the next state, the list, what each
subscriber is told and what is asked of the interface. The list is a function
from clients to absent, active or inactive. It is shared by the next two.
`notifySubscribers` deletes the closing client's own list element and goes on
comparing the others with it; `Misread` lets what it reads there equal any of
them, which are then told and deleted too.

**AgpsNif** is one machine (`Kind` "ATL" or "WIFI") with its clients and the
connectivity service. Clients are connection handles of the modem, which end
with it in a restart, and the addresses of daemons (`BIT`), which do not:
`EngineUp` drops them from the list without telling them, and `dropped` names
those that still wait, or believe the connection open, until they ask again. `SubscribeRsrc`, `UnsubscribeRsrc`, `HandleReply` and
`EngineUp` are whole handlers on the MsgTask thread; `FwOpen`, `FwRefuse`,
`FwClose`, `FwIgnore` and `FwLose` are the external service, which takes requests
in order, answers with messages that queue up and may lose the network at any
time. APNs, addresses and SSIDs are left out, they only pass through.

**NifLease** is what a client may rely on: one lease, granted to all who wait
at once and ended for all at once. `AgpsNif` implements it with
`held <- (mState = "Acquired")`, for the clients it serves: a dropped daemon
has left the lease.

**DsNif** is the emergency call with the retry timer, the data service client
(external), the messages between them and the fallback to `agnss_nif`, here a
`NifLease`. The retry callback walks the list without a lock; in the model it
is one step between two messages, so the data race inside a list operation is
not explored (it is listed as a hazard).

**LocThread**, **MsgQ**, **MsgTask**, **TaskFifo**. `LocThread` has one step per
access to the delegate's fields, by the creating client and the spawned thread,
and counts how often the delegate is freed. `MsgQ` is the queue with its
condition variable, spurious wakeups included; an operation under the mutex is
one step. `MsgTask` composes the two: the thread runs `MsgTask::run()`, whose
receive and `proc()` are steps, and deletes the object itself. `TaskFifo` is the
abstract task: messages handled in the order of their sends, none after it is
closed except the one in hand.

**LocEngNi**: both sessions, one thread for each request, a framework thread
in `loc_eng_ni_respond`, the MsgTask thread and the reset of an engine restart.
What happens under `tLock` is one step, each access outside is a step.

**LocTimer**: `start`, `stop`, deletion of the timer, the three messages (push,
remove, expire), the poll thread with its disarm, unpoll and send as steps, the
callback. Deadlines are in ticks, several to a second, because `ranks` compares
seconds. `updateSoonestTime` arms the timerfd and adds it to the poll set in one
step: in the window between them an expiry message is always already pending,
whose handling repeats both. A behaviour in which a deleted `LocTimer` is called
is undefined and ends there (`misused`). One of the two containers is modelled,
they share nothing. The poll thread is taken never to fail.

**LocEngSession**: the messages that change the positioning session, handled
one per step, and a modem whose reports arrive late, in order, or are lost in a
crash. `LocSsrMsg` of `LocApiBase.cpp` reopens the connection before `LocEngUp`
is handled. What is only told to the application (fixes, statuses, NMEA) leaves
no state and is left out, as are the parts of `loc_eng_handle_engine_up` that
belong to other modules. The modem is assumed to accept `startFix` for a session
it is running, to take over criteria changed in a session, and to end a single
session with its final fix.

**LocApi**: a client thread that adds and removes adapters and changes their
masks, in the steps between which the code uses no lock; the messages `LocOpenMsg`,
`LocSsrMsg`, `LocEngUp` and `LocEngDown`; the engine's thread, which walks
`mLocAdapters` one adapter per step. `removeAdapter` writes the array three
times: its adapter's place becomes NULL, where every walk ends, the last adapter
is copied there, and the last place becomes NULL. A walk knows the first place
at which there has been a hole since it began. The engine is outside the repository; the header of the module says what
is assumed of its `open`.

**Ulp**: the proxy the HAL's and the engine's calls go through, its replacement
by `LocSetUlpProxy` on the task thread, and the mode and fix request that a base
proxy remembers for its successor. Loading the pointer `mUlp` and calling on it
are two steps; a call that meets a deleted proxy sets `stale`.

**Hal**: `loc_init`, `loc_cleanup`, the AGPS initialisation, server, network
and configuration calls on the framework's thread, their messages on the task
thread, and `loc_eng_reinit` after a crash, which reads the settings in one step
and sends them in another. `behind` names the settings that were written
between the two, whose old value is then sent last, and a network status kept
back for want of an APN; the next write or restart clears the name. `misread`
names the messages that saw a configuration between its two writes. Section 8
says what happens then.

**LocContext**: any number of threads in `getLocFgContext` and
`getLocBgContext`, the mutex, the task both contexts share, the choice of a
`LocApi` library among those the platform has, the injection by the first.

**DmnConn**: the launcher and the helper thread with their handshake (mutex,
condition, spurious wakeups, both ways of creating the thread), the server's
loop, requests in a pipe, and answers in pipes that fill up. Any pipe may fail
to open, which nothing looks at. How many valid requests came up to each message
is kept beside it, which only the properties look at.

**Nmea**: which sentences a report yields, their numbers and satellites, and
the two caches that a satellite report leaves for a later position report. The
code's loops over the satellites are recursive functions, one turn a step.

**LinkedList**, **LocHeap** and **LocCfg** are algorithms. The list has
elements at addresses, with `next`, `prev` and both ends. A heap node is its
place, the pointers `mLeft` and `mRight` that lead to it from `mTree`, with the
data and the size it keeps; the code's recursions of push and pop are functions
whose step is one level of the descent, and `remove` finds the node that the
code's search meets first. The reader takes every text of up to three lines in
every order; an entry of a table has a flag or none, as those of the log. Each keeps ghost variables that say what it should hold, by
definition, and the properties compare. **Structures** puts list and heap side
by side, as they are in the process.

**Lights**: each call writes the files of one chip or the other; the duty table
of a blinking light is computed with the code's integer divisions, for any
period. A division by zero ends the process, and a table of more than 63 steps
may end it, since it may not fit into `dutystr`.

**CameraWrapper**: `fixed_set_params` and the strings in it as allocations,
with any number of cameras open. An open allocates the array in one step and
clears it in the next, and setting parameters, which takes no lock, frees the
old string and keeps the new one in two; `torn` is set when what is freed is no
allocated string. `clashed` names the two things the code does not exclude:
a close while another camera is open, parameters set during an open. What the code does to
the parameters is kept, the parameters themselves are a few.

**Dtbtool**: the scan in any order of the files, the sorted list, the table and
the image by bytes and pages. A file may be rewritten, with any tree and size,
or vanish between scan and copy; a write may fail or fall short; an earlier
output may be there, and is not cut.

**MCParts** checks the last twelve and `DsNif` in one run. They share no
modelled state with each other, so each behaviour is one of one part, chosen in
the initial state, with the variables of the others at rest; the state space is
the sum of theirs and not the product. It EXTENDS the parts, so that the run
evaluates their assumptions and checks the very definitions the theorems state.

## 4. The runs

| run | module | shows |
|---|---|---|
| `nif_atl` | MCAgpsNif | two ATL handles and two daemons: `ListMatchesState` (Released is empty, Releasing has somebody closing); `ClientServed` (belief of a client, list and state agree, but for the daemons a restart dropped, of whom it says where they stand); `OpenIsReal` (nobody else has a dead connection without the news of it queued); `RequestAnswered` (every request is answered, withdrawn or a dropped daemon's); `LeaseSpec` |
| `nif_wifi` | MCAgpsNif | the WIFI machine: `CloseCompletes`. Its safety is in the theorems, which hold of both kinds |
| `msg_task` | MsgTask | `DelegateShared` (freed by the last of two holders), `NoLostWakeup`, `TaskAlive` (deleted once and not under `run()`), `FateKnown` (each message queued, handled or dropped, once), `FifoSpec`, `MessageHandled`, `DestroyReturns` |
| `ni` | LocEngNi | `PayloadSound` (types, and without a restart each payload in one place and freed once), `RequestEnds`, `ModemHears` (the modem is told something of each request, unless the engine restarts or the user accepts an emergency request) |
| `timer` | LocTimer | `TimersSound` (types, and nothing names a deleted delegate), `LockShared`, `SoonestArmed`, `TimerEnds` |
| `session` | LocEngSession | `SessionSound` (types, and a periodic session of the modem always has an owner that can stop it), `StatusSettles` (`MuteEnds` and `EngineKnown`), `RestartResumes` |
| `parts` | MCParts | `PartsTypeOK`, and of each part: `EventsCovered`, `AdaptersServed` (LocApi: who stands in front of every hole hears of each event once); `SettingsArrive` (each setting that is not behind), `CapabilitiesTold` (Hal); `UlpInStep` (one proxy, in the mode and session wanted, every position reported once); `ContextsShared`; `DaemonsServed` (DmnConn: the launch waits only for a signal that will come or for a thread the callback failed to create, and the valid requests are those forwarded, in order); `SentencesWhole` (Nmea); `StructuresKept` (list and heap); `ConfRead` (which lines count, and what they leave); `LedShows` (the winner, and which periods fail); `CamerasSafe` (until cameras clash); `DtbTable` (bootable, of the trees scanned if nothing was disturbed); `RetriesBounded`, `CallTracked` (call and machine agree, or the report is queued), `FallbackHasHandle` (DsNif). Each is explained where it is stated, in the module of its part |
| `nif_idle_atl`, `ds_stray`, `ni_stale`, `timer_early`, `session_stop` | | section 8 |

Every property of a passing run has a mutant: a definition changed as a
plausible bug would change it (listed in PROJECT.json, defined just before the
definition they replace, marked `Mutant`), under which TLC finds that property
violated. So no property holds by the shape of the model.

Deadlock is checked in the AGPS runs and in `ds_stray`, where something can
always happen. The others stop when their bounds are used up, the task has been
destroyed, the image written or the server ended.

## 5. Bounds

| run | bound | why it is enough |
|---|---|---|
| `nif_atl` | 2 handles, 2 daemons, 4 requests and answers in flight | of each kind one that leaves beside one that waits or uses; stale answers of two earlier requests in front of a new one; a restart drops both daemons, which ask again |
| `nif_wifi` | 2 senders, 5 in flight | the second is refused while the first closes |
| `msg_task` | 3 messages, queue of 3 | send before, during and after unblocking |
| `ni` | 2 requests, 1 restart | a late answer of the first meets the second; the restart meets both |
| `timer` | 2 timers, 2 starts, 5 ticks, 2 ticks a second | a stop, a restart and a deletion against an expiry; two deadlines within one second and apart. 3 starts and 4 ticks were also run to the end (3.2 million states) |
| `session` | 3 framework calls, 1 fix, 1 crash | start, stop or mute and start again around a crash. 2 calls, 2 fixes and 2 crashes were also run to the end (7 million states) |
| `parts`, LocApi | 3 adapters (all the array holds), 5 calls and deliveries together | a hole in the middle with an adapter behind it that keeps its place or moves, under a walk and under a restart |
| `parts`, Hal and Ulp | 2 framework calls after `loc_init` and 3 HAL calls, 1 restart, 1 proxy of the library and 1 new base proxy | a setting before, during and after a restart; each proxy succeeds the other |
| `parts`, contexts | 2 threads, 2 requests each | the race for the first, and a later request for the other kind |
| `parts`, DmnConn | 3 messages, a pipe of 1 | a malformed message between two good ones, a writer that blocks |
| `parts`, Nmea | 3 reports; up to 2 satellites of any mix, and 4, 5 and 9 | full, partial and empty last sentences; a position after each kind of satellite report |
| `parts`, structures | 3 list elements; 6 heap items in pairs of equal rank; 3 lines, 2 texts | head, middle, tail and only element; a heap three levels deep; a repeated line that uses the count up, a file and an update |
| `parts`, platform | 6 light states, among them one that divides by zero and one of too long a table; 2 cameras, 3 strings; 3 files of 0 and 32 bytes with pages of 32, 4 trees, an earlier output of 1000 bytes | each pair of sources with each kind of blinking; both cameras open, and a setting during an open; the sizes on which rounding decides, a rewrite with another tree, an output longer than the image |
| `parts`, DsNif | 2 handles, retry limit 1, 3 messages, 2 timers | every retry below, at and above the limit; two timers race one close. The limit of the code is 4, which is only counting |

The whole run `parts` has 2.3 million states and takes about three minutes. The bounds are the constants
named in the cfg files; in the modules they are guards of the environment's
actions only (clients, framework, modem, service), never of a handler.

## 6. Fairness

The MsgTask thread loops on its queue (`MsgTask.cpp:85-102`), so a waiting
message is handled: weak fairness of its steps. The same holds of the poll
thread, the NI threads (their timed wait returns) and the thread of a
`LocThread`. The owner of a task, once in `destroy()`, goes on. External parties
are fair only where the code relies on it: the connectivity service answers a
request (without it nothing obliges a request to be answered), the clock
advances, a crashed modem comes back and delivers what it reports. No client,
no framework call, no network loss and no fix is ever obliged to happen. The
run `parts` states no fairness: its properties are invariants.

## 7. What is proved

`AgpsNifProofs` proves, for every set of clients, both kinds of machine and
every bound on what is in flight:

- `TypeCorrect`, `ListSafe`, `ClientsSafe`, `OpenIsRealSafe`: each is
  `Spec => []P` for the invariants `TypeOK`, `ListMatchesState`, `ClientServed`
  and `OpenIsReal` of the run `nif_atl`;
- `Inductive`: `Spec => []IInv`;
- `ImplementsLease`: `Spec => LeaseSpec`, the refinement.

Assumptions: `MaxPipe \in Nat`, `Kind \in {"ATL", "WIFI"}`, the two ways the
class is instantiated, and that the daemons' addresses are clients
(`ClientAssumption`). Nothing else is assumed of the set of clients.

The argument. `ListMatchesState` and `ClientServed` only hold together, and for
WIFI only because a second subscriber is refused, so `SingleWifi` joins them
(`ListInv`). `OpenIsReal` is not inductive: a grant that is queued when the
network is lost would open a dead connection. `GrantIsReal` says that such a
grant has the loss behind it in the queue, and `LossReported` that a machine in
Acquired has the interface or its loss queued; these need that answers are
handled in order. `IInv` is the conjunction. The tables (`ReleasedTable` and its
like) state what `onRsrcEvent` does in each state; `SubscribeDoes`,
`UnsubscribeDoes` and `ReplyDoes` state what a handler does to list and clients
in terms no longer mentioning the table; each preservation step is then short.
A dropped daemon is unlisted and not idle (part of `ClientServed`), so that no
handler on the list touches it until it asks again. The refinement needs
`ListInv` to see that the interface is given back exactly when the last user
leaves, and lets those end with a leaver whom a freed list element is taken for.

`MsgTaskProofs` proves of `MsgTask`, for every set of messages, the five safety
properties of the run `msg_task` (`TypeCorrect`, `DelegateSafe`, `WakeupsKept`,
`ObjectSafe`, `FateSafe`) and the refinement `ImplementsFifo`. The only
assumption is `TaskAssumption`: `NoMessage` is not a message and `MaxLength` is
a number, which bounds the queue in TLC's runs and is arbitrary here.

The argument is compositional. Of the thread, `mRefCount` is the number of
threads that still hold the delegate (`Counted`), which is inductive.
`MsgQProofs` shows that `NoLostWakeup` is inductive with `TypeOK`, once one
knows that only finitely many threads are inside `msg_q_rcv`; nothing is
assumed of the set of receivers. Its lemmas of a step are used through
`INSTANCE`: a step of the task is a step of
its thread or leaves it alone (`ThreadStep`) and likewise for the queue
(`QueueStep`), except that `run()` forgets the message it has handled, which is
nothing to the queue (`OutsideKeeps`). What is new in the composition is
`TaskInv`: the loop around `run()` ends only after the queue was unblocked, and
nobody destroys a task under construction, so `create()`, which asks
`isRunning()` after the thread may already have ended, is answered rightly here,
and only an owner without a thread deletes the object. The refinement needs
`LoopInv`: the queue is flushed with nothing in hand and after it was closed.

Two of these theorems are proved of the parts as well (`ThreadDelegateSafe`,
`MsgQProofs!WakeupsKept`), for clients and receivers other than a task.

`LocTimerProofs` proves `TimersSafe`, `LockSafe` and `ArmedSafe`, the three
invariants of the run `timer`, for every set of timers, every number of starts
and every clock whose first second lies within `MaxTime`. `NoDangling` needs to
know the life of a delegate (`LifeInv`: numbered in order, unborn above the
last, running exactly while a client has it) and where its messages are
(`MsgInv`: one Push and one Remove at most, the Push in front, no Push left once
it is in the heap). With these the reference count is a cardinality that each
step changes by one element (`LocksStart`, `LocksDelete`, `LocksRemove`).
`SoonestArmed` needs that the top is one of the soonest (`TopInv`), and that a
step which changes the top either arms the timerfd or leaves an expiry announced.

`EngineProofs` proves `SessionSafe` and `StatusSafe` for any number of
calls, fixes and crashes. For the first: a modem that is away runs nothing
(`AwayIsIdle`), the sessions of adapter and modem are of one kind while both
run, so that the fix which ends the one ends the other (`SameKind`), and a
periodic session is the adapter's or has a StartFix queued (`Owned`). For the second, the queue and the reports of
the modem are folded into the status and muting they will leave behind
(`After`); each step leaves that result as it is or moves both it and the modem
(`StatusInv`), and with nothing under way the result is the present state.

It also proves `PayloadSafe` for any number of requests: without a restart every
payload is in one place (`InOnePlace`) and in some place (`Somewhere`).

`ServicesProofs` is about six parts of the run `parts`.

- *Contexts.* `SharedSafe` for any set of threads, assuming only that the value
  for a free mutex is no thread: the mutex excludes (`Excluded`), what a thread
  saw under it is still so (`SeenIsSo`), what was built is counted (`Counted`),
  and no message comes before the injection (`InjectedFirst`).
- *Emergency call.* `RetriesStayBounded`, `CallStaysTracked` and
  `FallbacksHaveHandles` for any finite set of subscribers and any limit of
  retries (`DsAssumption`). A call and the machine disagree only while a report
  is queued: `CallInStep` says, for each state of the machine, in which state the
  call is with which reports waiting, and `ReportsInOrder` that each of the two
  waits at most once, the end of the call last. Lists of what is to be told or posted are any sequences with the right
  members, so the proofs do not depend on the order in which a list is walked.
- *Daemon connection.* `DaemonsAreServed` for any daemons, messages and sizes of
  pipe, and whichever pipes can be opened. `ServerInv` relates the launcher's
  wait to where the thread is (`LaunchInv`), and says by a counting function
  (`UpTo`) that what the task has received is the valid messages of what was
  read, in order (`Prefix`), and the next ones are those in the pipe
  (`NextOnes`).
- *LocApi.* `NoneDeaf` and `NoneMissed`, for any adapters, masks, bounds and
  contexts (`ApiAssumption` types the constants). `EventsComing`: an event wanted
  is registered, or a message that reopens, or opens with a mask that has it,
  waits, or the client is still to send it. `Restarted`: restarts are
  renegotiated in order, and each `LocEngUp` stands behind its `LocSsrMsg`.
  `Delivery`: an adapter in front of every hole made since the walk began stands
  where it stood, and has been given the event just if the walk has passed it.
  Of the adapters behind a hole nothing is claimed: the code misses them.
- *Hal.* `SettingsReach` and `CapabilitiesRight` for any values, any number of
  calls and restarts, and every order of the two threads. For each setting that
  is not `behind`, the last message of its kind carries the value remembered, or
  none waits and the engine has it (`Settled`, by `Lands`, which says what a list
  leaves behind); what a restart has read of it and not yet sent is still so
  (`ReadRight`). The server remembered is the one given last since `loc_init`
  (`ServerKnown`), and none is sent before (`NoServer`). Capabilities are told
  behind the question for measurements, unless that question met a dead engine or
  a configuration half replaced (`MeasurementsAsked`); a target that works alone
  keeps the assisted modes out of every copy of its configuration
  (`AloneTarget`).
- *Ulp.* `UlpKeepsStep` for any set of library proxies. Of the messages that
  wait, some leave the engine as wanted and others do not; each wrong one has a
  right one behind it (`Follows`), and the engine is right or a right one waits
  (`NavComing`, `ModeComing`). That holds while the base proxies only are
  replaced, no thread was caught with a deleted one and no session was cleaned up
  before its start was handled (`Sound`), the cases `UlpInStep` leaves out too. A
  thread about to call any proxy but the one installed calls a deleted one
  (`Installed`), which makes `Sound` survive a replacement; reports are counted
  in the queue (`AllCounted`). `UlpAssumption`: the library's proxies are neither
  NULL nor the adapter's bases, and INVALID is no mode.

Each part also has its types proved (`TypeCorrect`, `DsTypes`, `ServerTypes`,
`ApiTypes`, `HalTypes`, `UlpTypes`), which are more than types in two of them. No
subscriber of the emergency call is listed twice, because one is appended only
when it was absent (`Outside`). No pipe of an answer holds more than its bound
(`Answered`; `ServerAssumption`: the bound is a number), because the writer
waits.

`DeviceProofs` proves of the platform, the structures and the sentences:

- `CameraSafe`: types and `CamerasSafe`, for any number of cameras, open in any
  number. Until they clash the array holds, while no open is under way, a live
  string of its own for each open camera whose string is not being replaced, and
  none for the others (`ArrayOwned`), and no string is being replaced during an
  open (`Unclashed`); the settings of each camera fit whatever happens (`AllFit`).
- `LightsSafe`: whatever the requests and their periods, the LED shows the one of
  highest rank, only a winner of less than 200 ms, or on for just one of 50 steps,
  ends the process, and the duty table of any other fits the chip (`DutyTable`,
  `HeldTable`). The hypothesis `ColoursFlash`, that a request which flashes has a
  colour, is what the framework sends; on the qpnp chip a black request that
  flashes would blink.
- `LightsTypes`: every light keeps a request that was made of it, or none, and
  every value written to a brightness or a colour is a byte (`PwmByte`: of a duty,
  the time on never exceeds the period).
- `ConfIsRead` for any two tables whose names differ (`CfgAssumption`) and texts
  of any length. The lines are a recursion over the text, and what holds after
  each of them is proved by an induction stated for a set (`Counting`, from the
  least element of a non-empty set of naturals): of the lines that give a value
  just the first are taken, as many as the call takes (`Used`), each uses one of
  the count up (`UsedNext`), and the parameters and flags are what the lines taken
  so far say (`FillDoes`). A file is two such passes, which touch different names
  (`NamesApart`).
- `StructuresSafe`, for any objects and any amount of memory (`ListAssumption`:
  a number of elements) and any items with integer ranks (`HeapAssumption`),
  equal ones included.
  *List.* `ListInv` names the chain: a sequence of distinct addresses that `next`
  and `prev` link in both directions, that ends at `p_head` and `p_tail` and that
  holds `held` and all of memory (`ChainOf`); and no object is held twice, one
  that is held was never freed and any other at most once (`Owned`). A walk along `next` meets exactly this
  chain, because distinct addresses fit in memory (`Fits`, `WalkIs`). Unlinking
  an element, wherever it is, is cutting the chain at its place (`Cut`,
  `UnlinkCuts`), so that removing at the tail and removing what a search finds
  are one argument.
  *Heap.* `HeapInv`: places are closed under their prefixes, no child outranks its
  parent, each node counts its subtree, and no item is in two nodes. `Pushing` and
  `Popping` say what holds while a descent is on its way down, level by level:
  the counts are those of the tree to come above the place it has reached, and of
  the old tree below. No way down is longer than the number of nodes (`Deep`), so
  the levels suffice for the descent to end. From the order it follows that no
  item outranks a node above it (`NoneAbove`), so the subtrees that `remove`
  skips do not hold the item (`MetIs`), and that `pop` returns one of the most
  urgent (`TopIs`).
- `SentencesAreWhole`, for reports of any length and any masks of satellites in
  use (`NmeaAssumption`). A sentence takes the first four of the satellites that
  are left (`PageTakes`, from `FirstOnes`), so before the n-th sentence four times
  n - 1 have gone (`FourEach`), and the last one, and no other, may have fewer:
  the sentences are as many as they announce and every satellite is in exactly
  one (`GsvIs`). The GLONASS sentences stand behind those of GPS and do not
  disturb them (`BehindOther`). `NmeaInv` adds that what a satellite report
  caches is used by the next position report and then gone.
- `DtbTableIsRight`, for any files, trees, sizes and page size (`DtbAssumption`: a
  page is not empty, the trees are as the two versions of the format have them),
  in any order of reading, with files that are rewritten or vanish meanwhile,
  writes that fall short and any earlier output. An insert
  keeps the list strictly sorted by board and changes none of its entries
  (`Inserted`, `ChipAdded`), so that the entries of a tree, taken one after
  another, add just its boards that were missing (`Extended`, `RestAdded`,
  `FileAdded`) and each board stays with the file that had it first (`Wins`). The
  layout is a function of the boards met so far: a file's place is given at its
  first board, is the same at every later one, and the end is the table's pages
  plus those of the files met (`Placed`, `NextPlace`). While the image is written
  (`Writing`) it holds the files of the boards passed, and ends where the table
  has the next one; each of them is a number of whole pages (`Pages`, `PagesAdd`).
  What is offered to `write()` and what is lacking are counted apart, so that an
  image with the expected bytes lacks none; in an undisturbed directory the trees
  written are those that were scanned (`AsThere`, `Found`).

`PartsProofs` takes these together. A behaviour of the run `parts` is a behaviour
of each part, because the step of one is a step of it and leaves the variables of
the others alone (`ServicesMove`, `PlatformMoves`). So the theorems of the parts
hold of the run: `PartsTyped` for `PartsTypeOK`, `PartsSound` for its other
invariants, under the two hypotheses their parts state (the value for a free
mutex is no thread, `ColoursFlash`). With it every invariant that a run
checks is also the subject of a theorem, under the hypotheses given above.

`TypeOK` of `AgpsNif` and `MsgTask` is proved and no longer part of a run.

Only model-checked: all liveness under fairness (`RequestAnswered`,
`CloseCompletes`, `ModemHears`, `MessageHandled`, `DestroyReturns`, `RequestEnds`,
`TimerEnds`, `RestartResumes`), which TLAPS does not prove here, and the
counterexamples of section 8.

## 8. Disagreements found

Each has a run in which TLC finds the property violated, and an entry under
`findings` that quotes the comment it contradicts.

- `nif_idle_atl`: a modem restart drops all subscribers and leaves the machine
  in its state (`loc_eng.cpp:2848-2851`): the interface stays up for nobody. A
  late DENIED meant for an earlier request has the same effect.
- `ds_stray`: a connection released while its refused start is retried is told
  it is unsubscribed but stays listed; the retry or the fallback later opens it.
- `ni_stale`: `loc_eng_ni_respond` sets the response after the request timed
  out and its session was taken by another request, which it then answers.
- `timer_early`: an expiry pops the first timer whatever its time. If the one
  it was meant for has been stopped, the next fires early.
- `session_stop`: `loc_eng_handle_engine_up` clears the session flag and appends
  a StartFix behind what is queued; a StopFix queued before it finds no session,
  and the StartFix starts a session the framework has stopped.

Seen while modelling, without a run. AGPS, session and timers: the result of `sendRsrcRequest` is ignored
on the way from Releasing to Pending, so a refused data call leaves the
emergency machine in Pending with no call (`loc_eng_agps.cpp:563`); a second deletion of aiding data
overwrites a pending one, and an engine-down does not delete what is pending
(`loc_eng.cpp:1301`, `2832`); the restart after a modem crash uses the mode that
`setInSession(false)` has just made invalid (`LocEngAdapter.cpp:403`);
`loc_timer_start` returns its handle where `loc_eng_agps.cpp:885` takes anything
but zero for an error; `LocThread::create` takes a thread that has already ended
for one that was not created; a second mute in a muted session unmutes it
(`loc_eng.cpp:2006`).

Also without a run, but in the models, whose properties say no more than the code
keeps:

- *Daemons.* A modem restart drops the daemons on `internet_nif` from the list and
  does not tell them (`loc_eng.cpp:2848-2851`): one that waits gets no answer, one
  that is served believes in a connection nobody keeps, until it asks again.
  `notifySubscribers` goes on using the list element it has deleted
  (`loc_eng_agps.cpp:715-736`), so others may be told they left.
- *Adapters.* `removeAdapter` makes a NULL hole first (`LocApiBase.cpp:177`), and
  `TO_ALL_ADAPTERS` stops at it: a report under way misses every adapter behind
  the hole, also one that keeps its place, and may reach the last one twice. The
  comments of the reports (`LocApiBase.cpp:219` and below) say "deliver to all
  adapters".
- *Settings.* A setter between the reading and the sending of a restart is undone
  by the older value, sent last, until the next write or restart. A network
  status without an APN is remembered and not sent (`loc_eng.cpp:2649`). A server
  given before `loc_init` is kept, as the comment at 2569-2571 says, and then
  lost: `loc_eng_init` clears the structure it was kept in (`loc_eng.cpp:1739`),
  so that what "came before init" (2253) is never sent. A `MEASUREMENTS` bit set
  while a configuration is replaced is lost, and capabilities told then are
  unmasked.
- *Daemon server.* A pipe that cannot be opened is not noticed, the server reports
  that it is ready and ends at its first receive; with `create_thread_cb` a thread
  that was not created leaves `loc_eng_agps_init` asleep.
- *Cameras.* With two cameras open, closing one frees the other's string, which is
  then freed again (`CameraWrapper.cpp:523-526`); parameters set during an open of
  another camera may find the new array uncleared (571-577). The comment at
  545-549 allows both: it says that each camera is opened once.
- *Lights.* A blink of less than 50 ms, or on for one step, divides by zero, and
  one of less than 200 ms makes a table of more steps than the chip takes
  (`lights.c:284-302`).
- *Device trees.* A file rewritten with as many pages is not noticed
  (`dtbtool.c:783`); an earlier, longer output keeps its tail, since the file is
  not cut (713); that it could not be opened is not noticed there (714), only by
  the count of bytes at the end.
- *Configuration.* A repeated parameter uses the count up, so that lines at the
  end of a file are not read, and an update takes one value fewer than the table
  has entries (`loc_cfg.cpp:286`, `340`).

## 9. What is not modelled

- XTRA download, injection of time and position, geofencing, raw measurements:
  values forwarded to the engine or the framework, no protocol.
- Target detection and logging: files read once at start, tables of names.
- Power and shims: one file written, symbols forwarded. `cryptfs_hw`: one call
  each into a library of the secure world, whose state is not here.
- `Find7Parts`: gestures and preferences inside the framework's callbacks.
- Configs, overlays, sepolicy, wifi and sensor files: data.
- `loc_eng_dmn_conn_loc_api_server_unblock` and `_join`: called only from code
  that is compiled out.
- Data races inside one operation (the unlocked list walk of `retryCallback`,
  `loc_eng_agps.cpp:842`, torn reads): undefined behaviour with no bounded set
  of outcomes to choose from.
- Failures of allocation (among them that of the camera's array, which leaves
  NULL under the cameras that are open) and of thread creation elsewhere than in
  `DmnConn`: an NI thread that cannot be created leaves its request in the session
  (`loc_eng_ni.cpp:180`); the poll thread of the timers is taken never to fail.
- What follows undefined behaviour: the call of a deleted `LocTimer` or ULP proxy,
  `destroy()` reading a task that has deleted itself (`MsgTask.cpp:66-70`), a
  payload freed twice by a restart. The models mark the step (`misused`, `stale`)
  or state the property without a restart, and `hazards` lists each.
- A message refused by an unblocked queue is never deleted (`MsgTask.cpp:77`):
  memory that is leaked is not followed, except where a ghost variable says so.
