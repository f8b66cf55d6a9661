------------------------------ MODULE LocThread ------------------------------
(***************************************************************************)
(* A thread of the GPS libraries: LocThread, the handle its client holds,  *)
(* LocThreadDelegate, the reference-counted object it shares with the      *)
(* spawned thread, and the LocRunnable the spawned thread runs.            *)
(*                                                                         *)
(* The members of the delegate are plain fields that the two threads read  *)
(* and write without a lock, except the reference count: every access is a *)
(* step of its own.                                                        *)
(***************************************************************************)
EXTENDS Naturals

VARIABLES mRunnable,   \* LocThreadDelegate::mRunnable is not NULL
          mJoinable,   \* LocThreadDelegate::mJoinable
          mRefCount,   \* LocThreadDelegate::mRefCount
          freed,       \* times the delegate was deleted
          deleted,     \* times the runnable was deleted
          client,      \* where the client thread is
          thread       \* where the spawned thread is

delegate == <<mRunnable, mJoinable, mRefCount, freed>>
vars == <<delegate, deleted, client, thread>>

Init ==
  /\ mRunnable = FALSE /\ mJoinable \in BOOLEAN /\ mRefCount = 0
  /\ freed = 0 /\ deleted = 0
  /\ client = "new" /\ thread = "none"

-----------------------------------------------------------------------------
(* The client: start(), then stop() or the deletion of the handle.         *)

\* The constructor: its members are set before the thread can look at them.
Create ==
  /\ client = "new" /\ client' = "created"
  /\ mRunnable' = TRUE /\ mRefCount' = 2
  /\ thread' = "start"
  /\ UNCHANGED <<mJoinable, freed, deleted>>

\* Mutant: the count is left at what it is without a thread or a client.
CreateFailsUncounted ==
  /\ client = "new" /\ client' = "created"
  /\ mRunnable' = FALSE /\ mJoinable' = FALSE /\ mRefCount' = 0
  /\ UNCHANGED <<freed, deleted, thread>>

\* pthread_create failed.
CreateFails ==
  /\ client = "new" /\ client' = "created"
  /\ mRunnable' = FALSE /\ mJoinable' = FALSE /\ mRefCount' = 1
  /\ UNCHANGED <<freed, deleted, thread>>

\* create() asks isRunning() to learn whether the thread was created.
Created ==
  /\ client = "created"
  /\ client' = IF mRunnable THEN "started" ELSE "discarding"
  /\ UNCHANGED <<delegate, deleted, thread>>

\* Mutant: whoever leaves deletes.
DestroyAlways == freed' = freed + 1 /\ mRefCount' = mRefCount - 1

\* destroy(): the last of the two to come deletes the delegate.
Destroy ==
  /\ freed' = IF mRefCount = 1 THEN freed + 1 ELSE freed
  /\ mRefCount' = mRefCount - 1

\* The thread was not created: start() will return false.
Discard ==
  /\ client = "discarding" /\ client' = "failed"
  /\ Destroy
  /\ UNCHANGED <<mRunnable, mJoinable, deleted, thread>>

\* start() returned false: "it is client's responsibility to delete".
ClientDeletes ==
  /\ client = "failed" /\ client' = "done"
  /\ deleted' = deleted + 1
  /\ UNCHANGED <<delegate, thread>>

\* LocThread::stop().
Stop ==
  /\ client = "started" /\ client' = "stopping"
  /\ UNCHANGED <<delegate, deleted, thread>>

\* ~LocThread, bye(): a joinable thread is stopped, a detached one left alone.
Bye ==
  /\ client = "started"
  /\ client' = IF mJoinable THEN "stopping" ELSE "leaving"
  /\ UNCHANGED <<delegate, deleted, thread>>

StopRunnable ==
  /\ client = "stopping" /\ client' = "stopped"
  /\ mRunnable' = FALSE
  /\ UNCHANGED <<mJoinable, mRefCount, freed, deleted, thread>>

StopJoin ==
  /\ client = "stopped"
  /\ mJoinable => thread = "gone"   \* pthread_join
  /\ mJoinable' = FALSE /\ client' = "leaving"
  /\ UNCHANGED <<mRunnable, mRefCount, freed, deleted, thread>>

Leave ==
  /\ client = "leaving" /\ client' = "done"
  /\ Destroy
  /\ UNCHANGED <<mRunnable, mJoinable, deleted, thread>>

Client ==
  \/ Create \/ CreateFails \/ Created \/ Discard \/ ClientDeletes
  \/ Stop \/ Bye \/ StopRunnable \/ StopJoin \/ Leave

-----------------------------------------------------------------------------
(* The spawned thread: threadMain().                                       *)

At(here, there) == thread = here /\ thread' = there

\* locThread->mRunnable is copied; with NULL there is nothing to run.
TakeRunnable ==
  /\ At("start", IF mRunnable THEN "prerun" ELSE "leaving")
  /\ UNCHANGED <<delegate, deleted, client>>

Prerun ==
  /\ At("prerun", "check")
  /\ UNCHANGED <<delegate, deleted, client>>

\* The loop condition, read again before each run().
CheckRunning ==
  /\ At("check", IF mRunnable THEN "run" ELSE "clear")
  /\ UNCHANGED <<delegate, deleted, client>>

\* run() returns; after the last one postrun() is called if still running.
RunReturns(more) ==
  /\ At("run", IF more THEN "check" ELSE "clear")
  /\ UNCHANGED <<delegate, deleted, client>>

ClearRunnable ==
  /\ At("clear", "delete")
  /\ mRunnable' = FALSE
  /\ UNCHANGED <<mJoinable, mRefCount, freed, deleted, client>>

DeleteRunnable ==
  /\ At("delete", "leaving")
  /\ deleted' = deleted + 1
  /\ UNCHANGED <<delegate, client>>

ThreadLeaves ==
  /\ At("leaving", "gone")
  /\ Destroy
  /\ UNCHANGED <<mRunnable, mJoinable, deleted, client>>

Run == \E more \in BOOLEAN : RunReturns(more)

Thread ==
  \/ TakeRunnable \/ Prerun \/ CheckRunning \/ Run
  \/ ClearRunnable \/ DeleteRunnable \/ ThreadLeaves

-----------------------------------------------------------------------------
Next == Client \/ Thread

Spec == Init /\ [][Next]_vars

\* Type invariant.
TypeOK ==
  /\ mRunnable \in BOOLEAN /\ mJoinable \in BOOLEAN
  /\ mRefCount \in 0..2 /\ freed \in Nat /\ deleted \in Nat
  /\ client \in {"new", "created", "started", "discarding", "failed",
                 "stopping", "stopped", "leaving", "done"}
  /\ thread \in {"none", "start", "prerun", "check", "run", "clear",
                 "delete", "leaving", "gone"}

ClientHolds == client \in {"created", "started", "discarding", "stopping",
                           "stopped", "leaving"}
ThreadHolds == thread \notin {"none", "gone"}

\* The delegate is deleted once, by the last of the two threads to leave it,
\* and never while one of them still has a field of it to look at.
DelegateShared ==
  /\ ClientHolds \/ ThreadHolds => freed = 0
  /\ client \notin {"new"} /\ ~ClientHolds /\ ~ThreadHolds => freed = 1
=============================================================================
