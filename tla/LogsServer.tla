----------------------------- MODULE LogsServer -----------------------------
(***************************************************************************)
(* The logs server's storage: HTTP handlers admit batches through a lock,  *)
(* a gate on queued bytes and a bounded queue; one writer thread applies   *)
(* the queue in order, publishes to the live tail and answers; flush and   *)
(* backup go through the same queue; shutdown goes last.  (So do optimize, *)
(* barrier and WAL checkpoint, which move no batch; a failed optimize is   *)
(* to the queue what a failed flush is.)  A client may disconnect at any   *)
(* wait, which drops its handler with all it holds.  A command that fails  *)
(* ends the writer, except a backup.                                       *)
(*                                                                         *)
(* A batch is named after its request.  What the extension has buffered is *)
(* searchable; what it has flushed survives a crash.  The extension also   *)
(* flushes on its own as its buffers fill, so durable is the least that    *)
(* survives.                                                               *)
(***************************************************************************)
EXTENDS Integers, Sequences, FiniteSets, SequencesExt

CONSTANTS Req,        \* ingest requests
          Job,        \* other calls: a subset of {"flush", "backup"}
          Units,      \* Units[r]: the gate units of request r's payload
          GateUnits,  \* capacity of the gate
          QueueSlots  \* queue_batches

VARIABLES call,    \* each caller's progress
          lock,    \* who holds the admission lock: a set of at most one
          queue,   \* the writer's channel
          writer,  \* the writer thread
          db,      \* [applied, durable, backup, tail]: sets of batches
          sd,      \* progress of shutdown
          lease    \* is the owner lease held?

vars == <<call, lock, queue, writer, db, sd, lease>>

Callers == Req \cup Job
Shutdown == "shutdown"
Waiting == {"gating", "reserving", "sending", "sent"}
Settled == {"ok", "err", "gone"}

\* A request larger than the gate is clamped to all of it.
Need(r) == Min({Units[r], GateUnits})
UnitsOf(S) == MapThenSumSet(Need, S)
Holding == {r \in Req : call[r].at \in {"reserving", "sent"}}
Free == GateUnits - UnitsOf(Holding)

Acked == {r \in Req : call[r].at = "ok"}
Fresh == [at |-> "new", reply |-> "none", seen |-> {}]
-----------------------------------------------------------------------------
(* Mutated forms of the definitions below. *)
TakesTailFirst(c) == [db EXCEPT !.tail = IF c \in Req THEN @ \cup {c} ELSE @]

FlushedBuffersOnly(d) == d

ShutdownUnflushed(c) ==
  CASE c \in Req -> [db EXCEPT !.applied = @ \cup {c}]
    [] c = "flush" -> [db EXCEPT !.durable = db.applied]
    [] c = "backup" -> [db EXCEPT !.durable = db.applied, !.backup = db.applied]
    [] c = Shutdown -> db

BackupBeforeFlush(c) ==
  CASE c \in Req -> [db EXCEPT !.applied = @ \cup {c}]
    [] c \in {"flush", Shutdown} -> [db EXCEPT !.durable = db.applied]
    [] c = "backup" -> [db EXCEPT !.durable = db.applied, !.backup = db.durable]

DisconnectKeepsLock(c) ==
  /\ call[c].at \in Waiting
  /\ call' = [call EXCEPT ![c].at = "gone"]
  /\ UNCHANGED <<lock, queue, writer, db, sd, lease>>
-----------------------------------------------------------------------------
(***************************************************************************)
(* An ingest request.                                                      *)
(***************************************************************************)
Set(c, at) == call' = [call EXCEPT ![c].at = at]

\* The admission lock, then the shutdown flag.
Admit(r) ==
  /\ call[r].at = "new" /\ lock = {}
  /\ IF sd # "no" THEN Set(r, "err") /\ UNCHANGED lock
     ELSE Set(r, "gating") /\ lock' = {r}
  /\ UNCHANGED <<queue, writer, db, sd, lease>>

EnterGate(r) ==
  /\ call[r].at = "gating" /\ Need(r) <= Free
  /\ Set(r, "reserving")
  /\ UNCHANGED <<lock, queue, writer, db, sd, lease>>

\* A slot of the queue, then the batch is sent and the lock released.
Enqueue(r) ==
  /\ call[r].at = "reserving" /\ lock' = {}
  /\ IF writer.at = "stopped" THEN Set(r, "err") /\ UNCHANGED queue
     ELSE Len(queue) < QueueSlots /\ queue' = Append(queue, r) /\ Set(r, "sent")
  /\ UNCHANGED <<writer, db, sd, lease>>

\* The handler hears the writer's answer, or that there will be none.
Hear(c) ==
  /\ call[c].at = "sent"
  /\ call[c].reply # "none" \/ (writer.at = "stopped" /\ writer.cmd # c)
  /\ Set(c, IF call[c].reply = "ok" THEN "ok" ELSE "err")
  /\ UNCHANGED <<lock, queue, writer, db, sd, lease>>

\* The client goes away: its handler is dropped at the await it is in (at the
\* first, for the lock, it holds nothing).  What it has sent stays in the queue.
Disconnect(c) ==
  /\ call[c].at \in Waiting
  /\ Set(c, "gone") /\ lock' = lock \ {c}
  /\ UNCHANGED <<queue, writer, db, sd, lease>>
-----------------------------------------------------------------------------
(***************************************************************************)
(* flush is sent without the admission lock; backup takes it to send.      *)
(***************************************************************************)
Ask(j) ==
  /\ call[j].at = "new" /\ (j = "backup" => lock = {})
  /\ IF j = "backup" /\ sd # "no" THEN Set(j, "err") /\ UNCHANGED lock
     ELSE /\ call' = [call EXCEPT ![j].at = "sending", ![j].seen = Acked]
          /\ lock' = IF j = "backup" THEN {j} ELSE lock
  /\ UNCHANGED <<queue, writer, db, sd, lease>>

Send(j) ==
  /\ call[j].at = "sending" /\ lock' = lock \ {j}
  /\ IF writer.at = "stopped" THEN Set(j, "err") /\ UNCHANGED queue
     ELSE Len(queue) < QueueSlots /\ queue' = Append(queue, j) /\ Set(j, "sent")
  /\ UNCHANGED <<writer, db, sd, lease>>
-----------------------------------------------------------------------------
(***************************************************************************)
(* The writer thread: take a command, carry it out, publish, answer.       *)
(***************************************************************************)
\* What the extension's flush command leaves.
Flushed(d) == [d EXCEPT !.durable = d.applied]

\* What taking a command does before it is carried out: nothing.
Taken(c) == db

Take ==
  /\ writer.at = "idle" /\ queue # << >>
  /\ writer' = [at |-> "busy", cmd |-> Head(queue)] /\ queue' = Tail(queue)
  /\ db' = Taken(Head(queue))
  /\ UNCHANGED <<call, lock, sd, lease>>

\* What a command that succeeds does to the store.
Effect(c) ==
  CASE c \in Req -> [db EXCEPT !.applied = @ \cup {c}]
    [] c \in {"flush", Shutdown} -> Flushed(db)
    [] c = "backup" -> [Flushed(db) EXCEPT !.backup = Flushed(db).durable]

Answer(c, reply) == IF c = Shutdown THEN call ELSE [call EXCEPT ![c].reply = reply]

Succeed ==
  /\ writer.at = "busy" /\ writer.cmd # Shutdown
  /\ db' = Effect(writer.cmd)
  /\ IF writer.cmd \in Req THEN writer' = [writer EXCEPT !.at = "publish"] /\ UNCHANGED call
     ELSE writer' = [at |-> "idle", cmd |-> "none"] /\ call' = Answer(writer.cmd, "ok")
  /\ UNCHANGED <<lock, queue, sd, lease>>

\* A batch is published once it is applied, and answered after that.
Publish ==
  /\ writer.at = "publish"
  /\ db' = [db EXCEPT !.tail = @ \cup {writer.cmd}]
  /\ call' = Answer(writer.cmd, "ok") /\ writer' = [at |-> "idle", cmd |-> "none"]
  /\ UNCHANGED <<lock, queue, sd, lease>>

\* A failed command is answered and ends the thread; a failed backup, which may
\* have flushed, is only answered.
Fail ==
  /\ writer.at = "busy" /\ writer.cmd # Shutdown
  /\ IF writer.cmd = "backup"
     THEN /\ db' \in {db, Flushed(db)} /\ call' = Answer("backup", "err")
          /\ writer' = [at |-> "idle", cmd |-> "none"] /\ UNCHANGED queue
     ELSE /\ call' = Answer(writer.cmd, "err") /\ UNCHANGED db
          /\ writer' = [at |-> "stopped", cmd |-> "none"] /\ queue' = << >>
  /\ UNCHANGED <<lock, sd, lease>>

\* The last command: flush and checkpoint, of which either may fail.
WriterShutsDown ==
  /\ writer.at = "busy" /\ writer.cmd = Shutdown
  /\ \/ db' = Effect(Shutdown) /\ sd' \in {"flushed", "failed"}
     \/ db' = db /\ sd' = "failed"
  /\ writer' = [at |-> "stopped", cmd |-> "none"] /\ queue' = << >>
  /\ UNCHANGED <<call, lock, lease>>
-----------------------------------------------------------------------------
(***************************************************************************)
(* Shutdown: the flag, the admission lock (held to the end), the command,  *)
(* the threads, the lease.                                                 *)
(***************************************************************************)
BeginShutdown ==
  /\ sd = "no" /\ sd' = "flag"
  /\ UNCHANGED <<call, lock, queue, writer, db, lease>>

LockShutdown ==
  /\ sd = "flag" /\ lock = {}
  /\ sd' = "locked" /\ lock' = {Shutdown}
  /\ UNCHANGED <<call, queue, writer, db, lease>>

SendShutdown ==
  /\ sd = "locked"
  /\ IF writer.at = "stopped" THEN sd' = "failed" /\ UNCHANGED queue
     ELSE Len(queue) < QueueSlots /\ queue' = Append(queue, Shutdown) /\ sd' = "sent"
  /\ UNCHANGED <<call, lock, writer, db, lease>>

\* The writer ended on an earlier command: no answer comes.
ShutdownUnanswered ==
  /\ sd = "sent" /\ writer.at = "stopped"
  /\ sd' = "lost" /\ lock' = {}
  /\ UNCHANGED <<call, queue, writer, db, lease>>

\* A worker that ended with an error ends shutdown with it, before the lease.
EndShutdown ==
  /\ sd \in {"flushed", "failed"} /\ lock' = {}
  /\ sd' = IF sd = "flushed" THEN "ok" ELSE "lost"
  /\ lease' = (lease /\ sd # "flushed")
  /\ UNCHANGED <<call, queue, writer, db>>
-----------------------------------------------------------------------------
Init ==
  /\ call = [c \in Callers |-> Fresh]
  /\ lock = {} /\ queue = << >> /\ writer = [at |-> "idle", cmd |-> "none"]
  /\ db = [applied |-> {}, durable |-> {}, backup |-> {}, tail |-> {}]
  /\ sd = "no" /\ lease = TRUE

WriterStep == Take \/ Succeed \/ Publish \/ Fail \/ WriterShutsDown
ShutdownStep == LockShutdown \/ SendShutdown \/ ShutdownUnanswered \/ EndShutdown
CallStep(c) ==
  \/ c \in Req /\ (Admit(c) \/ EnterGate(c) \/ Enqueue(c))
  \/ c \in Job /\ (Ask(c) \/ Send(c))
  \/ Hear(c)

Next ==
  \/ WriterStep \/ BeginShutdown \/ ShutdownStep
  \/ \E c \in Callers : CallStep(c) \/ Disconnect(c)

\* Threads are scheduled and futures that can go on are polled.
Spec ==
  /\ Init /\ [][Next]_vars
  /\ WF_vars(WriterStep) /\ WF_vars(ShutdownStep) /\ \A c \in Callers : WF_vars(CallStep(c))
-----------------------------------------------------------------------------
\* A live subscriber never sees an entry that a search would not return.
TailIsSearchable == db.tail \subseteq db.applied

\* An answered flush is the durability boundary: every batch that had been
\* answered when it was asked for survives a crash.
FlushIsBarrier ==
  "flush" \in Job /\ call["flush"].at = "ok" => call["flush"].seen \subseteq db.durable

\* An answered backup holds every batch answered before it was asked for.
BackupHoldsAcknowledged ==
  "backup" \in Job /\ call["backup"].at = "ok" => call["backup"].seen \subseteq db.backup

\* Another process may own the database once the lease is free: by then the
\* writer is gone and every batch ever answered is durable, also those admitted
\* while shutdown was waiting.
ReleasedIsDurable == ~lease => writer.at = "stopped" /\ Acked \cup db.applied \subseteq db.durable

\* Every request, job and shutdown is answered, whoever fails or goes away.
EverySettles ==
  /\ \A c \in Callers : <>(call[c].at \in Settled)
  /\ (sd # "no") ~> (sd \in {"ok", "lost"})
=============================================================================
