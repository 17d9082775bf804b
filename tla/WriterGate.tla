----------------------------- MODULE WriterGate -----------------------------
(***************************************************************************)
(* The writer gate of one shared engine, with the transaction hooks of the *)
(* virtual tables that use it.                                             *)
(*                                                                         *)
(* One engine serves every connection of the process, and keeps a single   *)
(* transaction journal.  xBegin takes the gate before it opens the journal *)
(* and xCommit / xRollback release it; a read of a logs or traces table    *)
(* holds a permit while it copies the engine's state.  A writer that finds *)
(* the gate busy waits on a condition variable until a deadline.           *)
(*                                                                         *)
(* A connection is named by an address and a registration generation: the  *)
(* allocator may hand the address of a closed connection to a new one.     *)
(***************************************************************************)
EXTENDS Naturals, FiniteSets

CONSTANTS
    Addr,       \* addresses of sqlite3 handles
    None,       \* "no connection": Option::None
    MaxGen      \* bound: registrations of one address

ASSUME AddrAssumption == IsFiniteSet(Addr)
ASSUME MaxGenAssumption == MaxGen \in Nat
ASSUME NoneAssumption == None \notin Addr \X (0..MaxGen)

VARIABLES
    writer,           \* GateState.writer: the identity that holds the gate
    readers,          \* GateState.readers: permits now materializing
    waiting_writers,  \* GateState.waiting_writers
    journal,          \* owner of the engine's open transaction journal
    gate_held,        \* per connection: the vtab's own gate_held flag
    phase,            \* per connection: where its current callback is
    gen               \* per address: generation of the live connection

gateVars == <<writer, readers, waiting_writers>>
vars == <<writer, readers, waiting_writers, journal, gate_held, phase, gen>>

\* idle: in no callback.  parked: asleep on the condvar.  woken: notified,
\* about to look again.  expired: woken by the deadline.  opening: holds the
\* gate, has not opened the journal.  reading / readingOwn: inside xFilter
\* with an active / an inactive permit.
Phases == {"idle", "parked", "woken", "expired", "opening", "reading", "readingOwn"}
Waiting == {"parked", "woken", "expired"}

Id(a) == <<a, gen[a]>>
Busy == writer # None \/ readers > 0

TypeOK ==
    /\ writer \in {None} \cup (Addr \X (0..MaxGen))
    /\ readers \in Nat
    /\ waiting_writers \in Nat
    /\ journal \in {None} \cup (Addr \X (0..MaxGen))
    /\ gate_held \in [Addr -> BOOLEAN]
    /\ phase \in [Addr -> Phases]
    /\ gen \in [Addr -> 0..MaxGen]

Init ==
    /\ writer = None
    /\ readers = 0
    /\ waiting_writers = 0
    /\ journal = None
    /\ gate_held = [a \in Addr |-> FALSE]
    /\ phase = [a \in Addr |-> "idle"]
    /\ gen = [a \in Addr |-> 0]

-----------------------------------------------------------------------------
(* Acquiring the gate in xBegin.                                           *)

\* Condvar::notify_all, once the callback of a has gone to phase p.
NotifyAll(a, p) ==
    phase' = [b \in Addr |-> IF b = a THEN p
                             ELSE IF phase[b] = "parked" THEN "woken"
                             ELSE phase[b]]

TakeGate(a) ==
    /\ writer' = Id(a)
    /\ gate_held' = [gate_held EXCEPT ![a] = TRUE]
    /\ phase' = [phase EXCEPT ![a] = "opening"]
    /\ UNCHANGED <<readers, journal, gen>>

\* Mutant: a writer that does not look at the readers.
AcquireAtOnceOverReaders(a) ==
    /\ phase[a] = "idle"
    /\ ~gate_held[a]
    /\ writer \in {None, Id(a)}
    /\ TakeGate(a)
    /\ UNCHANGED waiting_writers


AcquireAtOnce(a) ==
    /\ phase[a] = "idle"
    /\ ~gate_held[a]
    /\ writer = Id(a) \/ ~Busy
    /\ TakeGate(a)
    /\ UNCHANGED waiting_writers

AcquireWaits(a) ==
    /\ phase[a] = "idle"
    /\ ~gate_held[a]
    /\ writer # Id(a)
    /\ Busy
    /\ waiting_writers' = waiting_writers + 1
    /\ phase' = [phase EXCEPT ![a] = "parked"]
    /\ UNCHANGED <<writer, readers, journal, gate_held, gen>>

\* wait_timeout returns because the deadline has passed.
DeadlinePasses(a) ==
    /\ phase[a] \in {"parked", "woken"}
    /\ phase' = [phase EXCEPT ![a] = "expired"]
    /\ UNCHANGED <<gateVars, journal, gate_held, gen>>

RecheckAcquires(a) ==
    /\ phase[a] \in {"woken", "expired"}
    /\ ~Busy
    /\ waiting_writers' = waiting_writers - 1
    /\ TakeGate(a)

\* Mutant: the error path forgets that it no longer waits.
RecheckTimesOutLeaks(a) ==
    /\ phase[a] = "expired"
    /\ Busy
    /\ phase' = [phase EXCEPT ![a] = "idle"]
    /\ UNCHANGED <<gateVars, journal, gate_held, gen>>

\* Mutant: the loop waits again past its deadline.
RecheckParksAgain(a) ==
    /\ phase[a] = "expired"
    /\ Busy
    /\ phase' = [phase EXCEPT ![a] = "parked"]
    /\ UNCHANGED <<gateVars, journal, gate_held, gen>>


RecheckTimesOut(a) ==
    /\ phase[a] = "expired"
    /\ Busy
    /\ waiting_writers' = waiting_writers - 1
    /\ phase' = [phase EXCEPT ![a] = "idle"]
    /\ UNCHANGED <<writer, readers, journal, gate_held, gen>>

RecheckParks(a) ==
    /\ phase[a] = "woken"
    /\ Busy
    /\ phase' = [phase EXCEPT ![a] = "parked"]
    /\ UNCHANGED <<gateVars, journal, gate_held, gen>>

-----------------------------------------------------------------------------
(* Releasing it, and the hooks around the journal.                         *)

ReleaseGate(a) ==
    /\ gate_held' = [gate_held EXCEPT ![a] = FALSE]
    /\ IF writer = Id(a)
       THEN writer' = None /\ NotifyAll(a, "idle")
       ELSE UNCHANGED writer /\ phase' = [phase EXCEPT ![a] = "idle"]

\* xBegin got the gate: the engine opens its journal.
TxnBegin(a) ==
    /\ phase[a] = "opening"
    /\ journal' = Id(a)
    /\ phase' = [phase EXCEPT ![a] = "idle"]
    /\ UNCHANGED <<gateVars, gate_held, gen>>

\* xBegin got the gate, but reading the table's current state failed.
BeginFails(a) ==
    /\ phase[a] = "opening"
    /\ ReleaseGate(a)
    /\ UNCHANGED <<readers, waiting_writers, journal, gen>>

\* Mutant: xCommit closes the journal whoever holds the gate.
EndTxnOfAnyone(a) ==
    /\ phase[a] = "idle"
    /\ journal' = None
    /\ ReleaseGate(a)
    /\ UNCHANGED <<readers, waiting_writers, gen>>


\* xCommit and xRollback close the journal and release the gate, but only for
\* the connection that holds it: SQLite also sends a lone xCommit at CREATE.
EndTxn(a) ==
    /\ phase[a] = "idle"
    /\ IF gate_held[a]
       THEN journal' = None /\ ReleaseGate(a)
       ELSE UNCHANGED <<journal, writer, gate_held, phase>>
    /\ UNCHANGED <<readers, waiting_writers, gen>>

\* Mutant: a torn-down table keeps the gate.
CloseKeepsGate(a) ==
    /\ phase[a] = "idle"
    /\ gen[a] < MaxGen
    /\ journal' = IF gate_held[a] THEN None ELSE journal
    /\ gate_held' = [gate_held EXCEPT ![a] = FALSE]
    /\ gen' = [gen EXCEPT ![a] = @ + 1]
    /\ UNCHANGED <<gateVars, phase>>


\* The connection closes.  sqlite3_close rolls an open transaction back first,
\* so xRollback has closed the journal when the vtab's Drop releases what is
\* left of the gate; the address is then registered anew.  (A DROP TABLE inside
\* an open transaction reaches Drop without xRollback and is not modelled.)
Close(a) ==
    /\ phase[a] = "idle"
    /\ gen[a] < MaxGen
    /\ journal' = IF gate_held[a] THEN None ELSE journal
    /\ ReleaseGate(a)
    /\ gen' = [gen EXCEPT ![a] = @ + 1]
    /\ UNCHANGED <<readers, waiting_writers>>

-----------------------------------------------------------------------------
(* Read permits.                                                           *)

\* Mutant: a read is admitted past a waiting writer.
AcquireReadBarges(a) ==
    /\ phase[a] = "idle"
    /\ writer = None
    /\ readers' = readers + 1
    /\ phase' = [phase EXCEPT ![a] = "reading"]
    /\ UNCHANGED <<writer, waiting_writers, journal, gate_held, gen>>


\* A read that finds another connection's writer, or a waiting writer, is an
\* error that changes nothing, and has no action.
AcquireRead(a) ==
    /\ phase[a] = "idle"
    /\ writer = None
    /\ waiting_writers = 0
    /\ readers' = readers + 1
    /\ phase' = [phase EXCEPT ![a] = "reading"]
    /\ UNCHANGED <<writer, waiting_writers, journal, gate_held, gen>>

AcquireOwnRead(a) ==
    /\ phase[a] = "idle"
    /\ writer = Id(a)
    /\ phase' = [phase EXCEPT ![a] = "readingOwn"]
    /\ UNCHANGED <<gateVars, journal, gate_held, gen>>

\* Mutant: the last reader leaves without waking the writers.
DropPermitSilently(a) ==
    /\ phase[a] \in {"reading", "readingOwn"}
    /\ readers' = IF phase[a] = "reading" THEN readers - 1 ELSE readers
    /\ phase' = [phase EXCEPT ![a] = "idle"]
    /\ UNCHANGED <<writer, waiting_writers, journal, gate_held, gen>>

\* Mutant: an inactive permit is returned like an active one.
DropPermitAlwaysCounts(a) ==
    /\ phase[a] \in {"reading", "readingOwn"}
    /\ readers' = readers - 1
    /\ NotifyAll(a, "idle")
    /\ UNCHANGED <<writer, waiting_writers, journal, gate_held, gen>>


DropPermit(a) ==
    /\ phase[a] \in {"reading", "readingOwn"}
    /\ IF phase[a] = "reading"
       THEN readers' = readers - 1 /\ NotifyAll(a, "idle")
       ELSE UNCHANGED readers /\ phase' = [phase EXCEPT ![a] = "idle"]
    /\ UNCHANGED <<writer, waiting_writers, journal, gate_held, gen>>

Next ==
    \E a \in Addr :
        \/ AcquireAtOnce(a) \/ AcquireWaits(a) \/ DeadlinePasses(a)
        \/ RecheckAcquires(a) \/ RecheckTimesOut(a) \/ RecheckParks(a)
        \/ TxnBegin(a) \/ BeginFails(a) \/ EndTxn(a) \/ Close(a)
        \/ AcquireRead(a) \/ AcquireOwnRead(a) \/ DropPermit(a)

Spec == Init /\ [][Next]_vars

\* A woken thread runs: the scheduler.  Nothing is assumed of the holders, which
\* may keep the gate for ever, nor of the readers and the clock; a property that
\* needs these says so.
Fairness ==
    \A a \in Addr : WF_vars(RecheckAcquires(a) \/ RecheckTimesOut(a))

FairSpec == Spec /\ Fairness

-----------------------------------------------------------------------------
(* What the gate promises.                                                 *)

\* The journal is single-writer: an open journal belongs to the live
\* connection that holds the gate, which finds it open until it ends its
\* transaction.  So txn_begin never resets a journal in use, and no other
\* connection's xCommit can close it (shared.rs: "nobody activates it without
\* holding the gate").
JournalSingleWriter ==
    /\ journal # None => journal = writer
    /\ \A a \in Addr : phase[a] = "opening" => journal = None /\ writer = Id(a)
    /\ \A a \in Addr : gate_held[a] /\ phase[a] # "opening" => journal = Id(a)

\* The gate is never left with a holder that will not release it: its holder
\* is the live registration of its address and has gate_held set.
HolderIsLive ==
    /\ \A a \in Addr : gate_held[a] <=> writer = Id(a)
    /\ writer # None => \E a \in Addr : writer = Id(a)

\* A read never copies engine state that another connection's transaction is
\* changing: while any active permit is out, no journal is open.
NoReadUnderWriter ==
    /\ (\E a \in Addr : phase[a] = "reading") => writer = None /\ journal = None
    /\ \A a \in Addr : phase[a] = "readingOwn" => writer = Id(a)

\* The two counters are exact.  A leaked reader would stop every writer, and a
\* leaked waiter every reader, for as long as the process lives.
CountersExact ==
    /\ readers = Cardinality({a \in Addr : phase[a] = "reading"})
    /\ waiting_writers = Cardinality({a \in Addr : phase[a] \in Waiting})

\* No wake-up is lost: a writer sleeps only while the gate is busy.
NoLostWakeup == \A a \in Addr : phase[a] = "parked" => Busy

\* Reads cannot keep writers out.  If every read that has its permit ends, then
\* while a writer waits some writer comes to hold the gate, unless the wait ends
\* first: however many connections go on asking for reads, and without any help
\* from the deadline (acquire_read turns reads away while waiting_writers > 0).
WriterServed ==
    (\A a \in Addr : WF_vars(DropPermit(a))) =>
      \A a \in Addr : phase[a] \in Waiting ~> (writer # None \/ phase[a] \notin Waiting)

\* A blocked writer gets the gate or an error once its deadline has passed: it
\* never hangs, even behind a holder or a reader that never lets go.
WaiterSettles ==
    (\A a \in Addr : WF_vars(DeadlinePasses(a))) =>
      \A a \in Addr : phase[a] \in Waiting ~> phase[a] \notin Waiting
=============================================================================
