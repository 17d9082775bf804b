-------------------------- MODULE WriterGateProofs --------------------------
(***************************************************************************)
(* The safety properties of the writer gate for any finite set of          *)
(* addresses and any number of registrations of each.                      *)
(***************************************************************************)
EXTENDS WriterGate, FiniteSetTheorems, TLAPS

Readers == {a \in Addr : phase[a] = "reading"}
Waiters == {a \in Addr : phase[a] \in Waiting}

\* The holder is not itself waiting or reading with an active permit.
HolderPlaced ==
    \A a \in Addr : gate_held[a] => phase[a] \in {"idle", "opening", "readingOwn"}

Safety ==
    /\ TypeOK
    /\ JournalSingleWriter
    /\ HolderIsLive
    /\ NoReadUnderWriter
    /\ NoLostWakeup
    /\ HolderPlaced

SafetyInv == Safety /\ CountersExact

-----------------------------------------------------------------------------
(* Counting the connections in a set of phases.                            *)

\* The counters after one connection enters or leaves a set of connections,
\* or none does.
LEMMA CountAdd ==
    ASSUME NEW S \in SUBSET Addr, NEW a \in Addr, a \notin S
    PROVE  Cardinality(S \cup {a}) = Cardinality(S) + 1
  <1>1. IsFiniteSet(S)
    BY AddrAssumption, FS_Subset
  <1> QED BY <1>1, FS_AddElement

LEMMA CountRemove ==
    ASSUME NEW S \in SUBSET Addr, NEW a \in S
    PROVE  Cardinality(S \ {a}) = Cardinality(S) - 1
  <1>1. IsFiniteSet(S)
    BY AddrAssumption, FS_Subset
  <1> QED BY <1>1, FS_RemoveElement

\* The reader count is zero exactly when no connection is reading.
LEMMA CountZero ==
    ASSUME NEW S \in SUBSET Addr
    PROVE  /\ Cardinality(S) \in Nat
           /\ Cardinality(S) = 0 <=> S = {}
  <1>1. IsFiniteSet(S)
    BY AddrAssumption, FS_Subset
  <1> QED BY <1>1, FS_CardinalityType, FS_EmptySet

LEMMA BusyReaders ==
    ASSUME TypeOK, CountersExact
    PROVE  Busy <=> writer # None \/ \E a \in Addr : phase[a] = "reading"
  <1>1. readers = Cardinality(Readers)
    BY DEF CountersExact, Readers
  <1>2. readers > 0 <=> Readers # {}
    BY <1>1, CountZero DEF Readers
  <1> QED BY <1>2 DEF Busy, Readers

-----------------------------------------------------------------------------
(* Every step keeps the invariant.                                         *)

\* An identity names one address, and is never None.
LEMMA IdFacts ==
    ASSUME TypeOK
    PROVE  /\ \A a \in Addr : Id(a) \in Addr \X (0..MaxGen) /\ Id(a) # None
           /\ \A a, b \in Addr : Id(a) = Id(b) => a = b
  BY NoneAssumption DEF TypeOK, Id

\* The step moves only a into or out of the readers and the waiters, and the
\* counters follow it.
CountedStep(a) ==
    /\ \A b \in Addr \ {a} :
          /\ phase'[b] = "reading" <=> phase[b] = "reading"
          /\ phase'[b] \in Waiting <=> phase[b] \in Waiting
    /\ readers' = readers + (IF phase'[a] = "reading" THEN 1 ELSE 0)
                          - (IF phase[a] = "reading" THEN 1 ELSE 0)
    /\ waiting_writers' = waiting_writers + (IF phase'[a] \in Waiting THEN 1 ELSE 0)
                                          - (IF phase[a] \in Waiting THEN 1 ELSE 0)

\* The counters stay exact: each action moves its connection into or out of
\* the readers or the waiters together with the counter, and notify_all moves
\* connections only among the waiters.
LEMMA CountersStep ==
    ASSUME TypeOK, CountersExact, NEW a \in Addr, TypeOK', CountedStep(a)
    PROVE  CountersExact'
  <1> USE DEF CountedStep
  <1>1. readers' = Cardinality(Readers')
    <2>0. readers = Cardinality(Readers) /\ Readers \subseteq Addr /\ Cardinality(Readers) \in Nat
      BY CountZero DEF CountersExact, Readers
    <2>1. CASE (phase'[a] = "reading") = (phase[a] = "reading")
      <3>1. Readers' = Readers
        BY <2>1 DEF Readers
      <3> QED BY <2>0, <2>1, <3>1
    <2>2. CASE phase'[a] = "reading" /\ phase[a] # "reading"
      <3>1. Readers' = Readers \cup {a} /\ a \notin Readers
        BY <2>2 DEF Readers
      <3> QED BY <2>0, <2>2, <3>1, CountAdd
    <2>3. CASE phase'[a] # "reading" /\ phase[a] = "reading"
      <3>1. Readers' = Readers \ {a} /\ a \in Readers
        BY <2>3 DEF Readers
      <3> QED BY <2>0, <2>3, <3>1, CountRemove
    <2> QED BY <2>1, <2>2, <2>3
  <1>2. waiting_writers' = Cardinality(Waiters')
    <2>0. waiting_writers = Cardinality(Waiters) /\ Waiters \subseteq Addr /\ Cardinality(Waiters) \in Nat
      BY CountZero DEF CountersExact, Waiters
    <2>1. CASE (phase'[a] \in Waiting) = (phase[a] \in Waiting)
      <3>1. Waiters' = Waiters
        BY <2>1 DEF Waiters
      <3> QED BY <2>0, <2>1, <3>1
    <2>2. CASE phase'[a] \in Waiting /\ phase[a] \notin Waiting
      <3>1. Waiters' = Waiters \cup {a} /\ a \notin Waiters
        BY <2>2 DEF Waiters
      <3> QED BY <2>0, <2>2, <3>1, CountAdd
    <2>3. CASE phase'[a] \notin Waiting /\ phase[a] \in Waiting
      <3>1. Waiters' = Waiters \ {a} /\ a \in Waiters
        BY <2>3 DEF Waiters
      <3> QED BY <2>0, <2>3, <3>1, CountRemove
    <2> QED BY <2>1, <2>2, <2>3
  <1> QED BY <1>1, <1>2 DEF CountersExact, Readers, Waiters


\* One action of one connection keeps the gate's safety and its counters.
LEMMA ActionKeepsCounters ==
    ASSUME SafetyInv, Next
    PROVE  TypeOK' /\ CountersExact'
  <1>0. TypeOK /\ CountersExact /\ HolderPlaced
    BY DEF SafetyInv, Safety
  <1>1. PICK a \in Addr :
           \/ AcquireAtOnce(a) \/ AcquireWaits(a) \/ DeadlinePasses(a)
           \/ RecheckAcquires(a) \/ RecheckTimesOut(a) \/ RecheckParks(a)
           \/ TxnBegin(a) \/ BeginFails(a) \/ EndTxn(a) \/ Close(a)
           \/ AcquireRead(a) \/ AcquireOwnRead(a) \/ DropPermit(a)
    BY DEF Next
  <1>2. Id(a) \in Addr \X (0..MaxGen)
    BY <1>0, IdFacts
  <1>3. /\ phase[a] = "reading" => readers - 1 \in Nat
        /\ phase[a] \in Waiting => waiting_writers - 1 \in Nat
    <2>1. /\ phase[a] = "reading" => a \in Readers
          /\ phase[a] \in Waiting => a \in Waiters
      BY DEF Readers, Waiters
    <2>2. /\ readers = Cardinality(Readers) /\ Readers \subseteq Addr
          /\ waiting_writers = Cardinality(Waiters) /\ Waiters \subseteq Addr
      BY <1>0 DEF CountersExact, Readers, Waiters
    <2>3. /\ readers \in Nat /\ (readers = 0 <=> Readers = {})
          /\ waiting_writers \in Nat /\ (waiting_writers = 0 <=> Waiters = {})
      BY <2>2, CountZero
    <2> QED BY <2>1, <2>3
  <1>4. CASE AcquireAtOnce(a)
    <2>1. TypeOK'
      BY <1>0, <1>2, <1>3, <1>4, MaxGenAssumption DEF TypeOK, Phases, Waiting, gateVars, AcquireAtOnce, TakeGate
    <2>2. CountersExact'
      <3>1. CountedStep(a)
        BY <1>0, <1>4 DEF CountedStep, TypeOK, Phases, Waiting, gateVars, AcquireAtOnce, TakeGate
      <3> QED BY <1>0, <2>1, <3>1, CountersStep
    <2> QED BY <2>1, <2>2
  <1>5. CASE AcquireWaits(a)
    <2>1. TypeOK'
      BY <1>0, <1>2, <1>3, <1>5, MaxGenAssumption DEF TypeOK, Phases, Waiting, gateVars, AcquireWaits
    <2>2. CountersExact'
      <3>1. CountedStep(a)
        BY <1>0, <1>5 DEF CountedStep, TypeOK, Phases, Waiting, gateVars, AcquireWaits
      <3> QED BY <1>0, <2>1, <3>1, CountersStep
    <2> QED BY <2>1, <2>2
  <1>6. CASE DeadlinePasses(a)
    <2>1. TypeOK'
      BY <1>0, <1>2, <1>3, <1>6, MaxGenAssumption DEF TypeOK, Phases, Waiting, gateVars, DeadlinePasses
    <2>2. CountersExact'
      <3>1. CountedStep(a)
        BY <1>0, <1>6 DEF CountedStep, TypeOK, Phases, Waiting, gateVars, DeadlinePasses
      <3> QED BY <1>0, <2>1, <3>1, CountersStep
    <2> QED BY <2>1, <2>2
  <1>7. CASE RecheckAcquires(a)
    <2>1. TypeOK'
      BY <1>0, <1>2, <1>3, <1>7, MaxGenAssumption DEF TypeOK, Phases, Waiting, gateVars, RecheckAcquires, TakeGate
    <2>2. CountersExact'
      <3>1. CountedStep(a)
        BY <1>0, <1>7 DEF CountedStep, TypeOK, Phases, Waiting, gateVars, RecheckAcquires, TakeGate
      <3> QED BY <1>0, <2>1, <3>1, CountersStep
    <2> QED BY <2>1, <2>2
  <1>8. CASE RecheckTimesOut(a)
    <2>1. TypeOK'
      BY <1>0, <1>2, <1>3, <1>8, MaxGenAssumption DEF TypeOK, Phases, Waiting, gateVars, RecheckTimesOut
    <2>2. CountersExact'
      <3>1. CountedStep(a)
        BY <1>0, <1>8 DEF CountedStep, TypeOK, Phases, Waiting, gateVars, RecheckTimesOut
      <3> QED BY <1>0, <2>1, <3>1, CountersStep
    <2> QED BY <2>1, <2>2
  <1>9. CASE RecheckParks(a)
    <2>1. TypeOK'
      BY <1>0, <1>2, <1>3, <1>9, MaxGenAssumption DEF TypeOK, Phases, Waiting, gateVars, RecheckParks
    <2>2. CountersExact'
      <3>1. CountedStep(a)
        BY <1>0, <1>9 DEF CountedStep, TypeOK, Phases, Waiting, gateVars, RecheckParks
      <3> QED BY <1>0, <2>1, <3>1, CountersStep
    <2> QED BY <2>1, <2>2
  <1>10. CASE TxnBegin(a)
    <2>1. TypeOK'
      BY <1>0, <1>2, <1>3, <1>10, MaxGenAssumption DEF TypeOK, Phases, Waiting, gateVars, TxnBegin
    <2>2. CountersExact'
      <3>1. CountedStep(a)
        BY <1>0, <1>10 DEF CountedStep, TypeOK, Phases, Waiting, gateVars, TxnBegin
      <3> QED BY <1>0, <2>1, <3>1, CountersStep
    <2> QED BY <2>1, <2>2
  <1>11. CASE BeginFails(a)
    <2>1. TypeOK'
      BY <1>0, <1>2, <1>3, <1>11, MaxGenAssumption DEF TypeOK, Phases, Waiting, gateVars, BeginFails, ReleaseGate, NotifyAll
    <2>2. CountersExact'
      <3>1. CountedStep(a)
        BY <1>0, <1>11 DEF CountedStep, TypeOK, Phases, Waiting, gateVars, BeginFails, ReleaseGate, NotifyAll
      <3> QED BY <1>0, <2>1, <3>1, CountersStep
    <2> QED BY <2>1, <2>2
  <1>12. CASE EndTxn(a)
    <2>1. TypeOK'
      <3>1. CASE gate_held[a]
        <4>1. /\ journal' = None /\ ReleaseGate(a)
              /\ UNCHANGED <<readers, waiting_writers, gen>>
          BY <1>12, <3>1 DEF EndTxn
        <4> QED BY <1>0, <4>1 DEF TypeOK, Phases, ReleaseGate, NotifyAll
      <3>2. CASE ~gate_held[a]
        BY <1>0, <1>12, <3>2 DEF TypeOK, EndTxn
      <3> QED BY <3>1, <3>2
    <2>2. CountersExact'
      <3>1. CountedStep(a)
        BY <1>0, <1>12 DEF CountedStep, TypeOK, Phases, Waiting, gateVars, EndTxn, ReleaseGate, NotifyAll
      <3> QED BY <1>0, <2>1, <3>1, CountersStep
    <2> QED BY <2>1, <2>2
  <1>13. CASE Close(a)
    <2>1. TypeOK'
      BY <1>0, <1>2, <1>3, <1>13, MaxGenAssumption DEF TypeOK, Phases, Waiting, gateVars, Close, ReleaseGate, NotifyAll
    <2>2. CountersExact'
      <3>1. CountedStep(a)
        BY <1>0, <1>13 DEF CountedStep, TypeOK, Phases, Waiting, gateVars, Close, ReleaseGate, NotifyAll
      <3> QED BY <1>0, <2>1, <3>1, CountersStep
    <2> QED BY <2>1, <2>2
  <1>14. CASE AcquireRead(a)
    <2>1. TypeOK'
      BY <1>0, <1>2, <1>3, <1>14, MaxGenAssumption DEF TypeOK, Phases, Waiting, gateVars, AcquireRead
    <2>2. CountersExact'
      <3>1. CountedStep(a)
        BY <1>0, <1>14 DEF CountedStep, TypeOK, Phases, Waiting, gateVars, AcquireRead
      <3> QED BY <1>0, <2>1, <3>1, CountersStep
    <2> QED BY <2>1, <2>2
  <1>15. CASE AcquireOwnRead(a)
    <2>1. TypeOK'
      BY <1>0, <1>2, <1>3, <1>15, MaxGenAssumption DEF TypeOK, Phases, Waiting, gateVars, AcquireOwnRead
    <2>2. CountersExact'
      <3>1. CountedStep(a)
        BY <1>0, <1>15 DEF CountedStep, TypeOK, Phases, Waiting, gateVars, AcquireOwnRead
      <3> QED BY <1>0, <2>1, <3>1, CountersStep
    <2> QED BY <2>1, <2>2
  <1>16. CASE DropPermit(a)
    <2>1. TypeOK'
      BY <1>0, <1>2, <1>3, <1>16, MaxGenAssumption DEF TypeOK, Phases, Waiting, gateVars, DropPermit, NotifyAll
    <2>2. CountersExact'
      <3>1. CountedStep(a)
        BY <1>0, <1>16 DEF CountedStep, TypeOK, Phases, Waiting, gateVars, DropPermit, NotifyAll
      <3> QED BY <1>0, <2>1, <3>1, CountersStep
    <2> QED BY <2>1, <2>2
  <1> QED BY <1>1, <1>4, <1>5, <1>6, <1>7, <1>8, <1>9, <1>10, <1>11, <1>12, <1>13, <1>14, <1>15, <1>16

\* One action of one connection keeps the gate exclusive, its holder live and
\* its sleepers behind a busy gate.
LEMMA ActionKeepsSafety ==
    ASSUME SafetyInv, Next
    PROVE  Safety'
  <1>0. /\ TypeOK /\ CountersExact /\ TypeOK' /\ CountersExact'
        /\ JournalSingleWriter /\ HolderIsLive /\ NoReadUnderWriter
        /\ NoLostWakeup /\ HolderPlaced
    BY ActionKeepsCounters DEF SafetyInv, Safety
  <1>1. PICK a \in Addr :
           \/ AcquireAtOnce(a) \/ AcquireWaits(a) \/ DeadlinePasses(a)
           \/ RecheckAcquires(a) \/ RecheckTimesOut(a) \/ RecheckParks(a)
           \/ TxnBegin(a) \/ BeginFails(a) \/ EndTxn(a) \/ Close(a)
           \/ AcquireRead(a) \/ AcquireOwnRead(a) \/ DropPermit(a)
    BY DEF Next
  <1>2. /\ \A b \in Addr : Id(b) # None /\ Id(b)' # None
        /\ \A b, c \in Addr : Id(b) = Id(c) => b = c
    BY <1>0, IdFacts, NoneAssumption DEF TypeOK, Id
  <1>3. Busy <=> writer # None \/ \E b \in Addr : phase[b] = "reading"
    BY <1>0, BusyReaders
  <1>4. Busy' <=> writer' # None \/ \E b \in Addr : phase'[b] = "reading"
    <2>1. readers' = Cardinality(Readers')
      BY <1>0 DEF CountersExact, Readers
    <2>2. readers' > 0 <=> Readers' # {}
      BY <2>1, CountZero DEF Readers
    <2> QED BY <2>2 DEF Busy, Readers
  <1>5. CASE AcquireAtOnce(a)
    <2>1. JournalSingleWriter'
      BY <1>0, <1>2, <1>3, <1>4, <1>5
      DEF JournalSingleWriter, HolderIsLive, NoReadUnderWriter, NoLostWakeup,
          HolderPlaced, Id, TypeOK, Waiting, gateVars, AcquireAtOnce, TakeGate
    <2>2. HolderIsLive'
      BY <1>0, <1>2, <1>3, <1>4, <1>5
      DEF JournalSingleWriter, HolderIsLive, NoReadUnderWriter, NoLostWakeup,
          HolderPlaced, Id, TypeOK, Waiting, gateVars, AcquireAtOnce, TakeGate
    <2>3. NoReadUnderWriter'
      BY <1>0, <1>2, <1>3, <1>4, <1>5
      DEF JournalSingleWriter, HolderIsLive, NoReadUnderWriter, NoLostWakeup,
          HolderPlaced, Id, TypeOK, Waiting, gateVars, AcquireAtOnce, TakeGate
    <2>4. NoLostWakeup'
      BY <1>0, <1>2, <1>3, <1>4, <1>5
      DEF JournalSingleWriter, HolderIsLive, NoReadUnderWriter, NoLostWakeup,
          HolderPlaced, Id, TypeOK, Waiting, gateVars, AcquireAtOnce, TakeGate
    <2>5. HolderPlaced'
      BY <1>0, <1>2, <1>3, <1>4, <1>5
      DEF JournalSingleWriter, HolderIsLive, NoReadUnderWriter, NoLostWakeup,
          HolderPlaced, Id, TypeOK, Waiting, gateVars, AcquireAtOnce, TakeGate
    <2> QED BY <1>0, <2>1, <2>2, <2>3, <2>4, <2>5 DEF Safety
  <1>6. CASE AcquireWaits(a)
    <2>1. JournalSingleWriter'
      BY <1>0, <1>2, <1>3, <1>4, <1>6
      DEF JournalSingleWriter, HolderIsLive, NoReadUnderWriter, NoLostWakeup,
          HolderPlaced, Id, TypeOK, Waiting, gateVars, AcquireWaits
    <2>2. HolderIsLive'
      BY <1>0, <1>2, <1>3, <1>4, <1>6
      DEF JournalSingleWriter, HolderIsLive, NoReadUnderWriter, NoLostWakeup,
          HolderPlaced, Id, TypeOK, Waiting, gateVars, AcquireWaits
    <2>3. NoReadUnderWriter'
      BY <1>0, <1>2, <1>3, <1>4, <1>6
      DEF JournalSingleWriter, HolderIsLive, NoReadUnderWriter, NoLostWakeup,
          HolderPlaced, Id, TypeOK, Waiting, gateVars, AcquireWaits
    <2>4. NoLostWakeup'
      BY <1>0, <1>2, <1>3, <1>4, <1>6
      DEF JournalSingleWriter, HolderIsLive, NoReadUnderWriter, NoLostWakeup,
          HolderPlaced, Id, TypeOK, Waiting, gateVars, AcquireWaits
    <2>5. HolderPlaced'
      BY <1>0, <1>2, <1>3, <1>4, <1>6
      DEF JournalSingleWriter, HolderIsLive, NoReadUnderWriter, NoLostWakeup,
          HolderPlaced, Id, TypeOK, Waiting, gateVars, AcquireWaits
    <2> QED BY <1>0, <2>1, <2>2, <2>3, <2>4, <2>5 DEF Safety
  <1>7. CASE DeadlinePasses(a)
    <2>1. JournalSingleWriter'
      BY <1>0, <1>2, <1>3, <1>4, <1>7
      DEF JournalSingleWriter, HolderIsLive, NoReadUnderWriter, NoLostWakeup,
          HolderPlaced, Id, TypeOK, Waiting, gateVars, DeadlinePasses
    <2>2. HolderIsLive'
      BY <1>0, <1>2, <1>3, <1>4, <1>7
      DEF JournalSingleWriter, HolderIsLive, NoReadUnderWriter, NoLostWakeup,
          HolderPlaced, Id, TypeOK, Waiting, gateVars, DeadlinePasses
    <2>3. NoReadUnderWriter'
      BY <1>0, <1>2, <1>3, <1>4, <1>7
      DEF JournalSingleWriter, HolderIsLive, NoReadUnderWriter, NoLostWakeup,
          HolderPlaced, Id, TypeOK, Waiting, gateVars, DeadlinePasses
    <2>4. NoLostWakeup'
      BY <1>0, <1>2, <1>3, <1>4, <1>7
      DEF JournalSingleWriter, HolderIsLive, NoReadUnderWriter, NoLostWakeup,
          HolderPlaced, Id, TypeOK, Waiting, gateVars, DeadlinePasses
    <2>5. HolderPlaced'
      BY <1>0, <1>2, <1>3, <1>4, <1>7
      DEF JournalSingleWriter, HolderIsLive, NoReadUnderWriter, NoLostWakeup,
          HolderPlaced, Id, TypeOK, Waiting, gateVars, DeadlinePasses
    <2> QED BY <1>0, <2>1, <2>2, <2>3, <2>4, <2>5 DEF Safety
  <1>8. CASE RecheckAcquires(a)
    <2>1. JournalSingleWriter'
      BY <1>0, <1>2, <1>3, <1>4, <1>8
      DEF JournalSingleWriter, HolderIsLive, NoReadUnderWriter, NoLostWakeup,
          HolderPlaced, Id, TypeOK, Waiting, gateVars, RecheckAcquires, TakeGate
    <2>2. HolderIsLive'
      BY <1>0, <1>2, <1>3, <1>4, <1>8
      DEF JournalSingleWriter, HolderIsLive, NoReadUnderWriter, NoLostWakeup,
          HolderPlaced, Id, TypeOK, Waiting, gateVars, RecheckAcquires, TakeGate
    <2>3. NoReadUnderWriter'
      BY <1>0, <1>2, <1>3, <1>4, <1>8
      DEF JournalSingleWriter, HolderIsLive, NoReadUnderWriter, NoLostWakeup,
          HolderPlaced, Id, TypeOK, Waiting, gateVars, RecheckAcquires, TakeGate
    <2>4. NoLostWakeup'
      BY <1>0, <1>2, <1>3, <1>4, <1>8
      DEF JournalSingleWriter, HolderIsLive, NoReadUnderWriter, NoLostWakeup,
          HolderPlaced, Id, TypeOK, Waiting, gateVars, RecheckAcquires, TakeGate
    <2>5. HolderPlaced'
      BY <1>0, <1>2, <1>3, <1>4, <1>8
      DEF JournalSingleWriter, HolderIsLive, NoReadUnderWriter, NoLostWakeup,
          HolderPlaced, Id, TypeOK, Waiting, gateVars, RecheckAcquires, TakeGate
    <2> QED BY <1>0, <2>1, <2>2, <2>3, <2>4, <2>5 DEF Safety
  <1>9. CASE RecheckTimesOut(a)
    <2>1. JournalSingleWriter'
      BY <1>0, <1>2, <1>3, <1>4, <1>9
      DEF JournalSingleWriter, HolderIsLive, NoReadUnderWriter, NoLostWakeup,
          HolderPlaced, Id, TypeOK, Waiting, gateVars, RecheckTimesOut
    <2>2. HolderIsLive'
      BY <1>0, <1>2, <1>3, <1>4, <1>9
      DEF JournalSingleWriter, HolderIsLive, NoReadUnderWriter, NoLostWakeup,
          HolderPlaced, Id, TypeOK, Waiting, gateVars, RecheckTimesOut
    <2>3. NoReadUnderWriter'
      BY <1>0, <1>2, <1>3, <1>4, <1>9
      DEF JournalSingleWriter, HolderIsLive, NoReadUnderWriter, NoLostWakeup,
          HolderPlaced, Id, TypeOK, Waiting, gateVars, RecheckTimesOut
    <2>4. NoLostWakeup'
      BY <1>0, <1>2, <1>3, <1>4, <1>9
      DEF JournalSingleWriter, HolderIsLive, NoReadUnderWriter, NoLostWakeup,
          HolderPlaced, Id, TypeOK, Waiting, gateVars, RecheckTimesOut
    <2>5. HolderPlaced'
      BY <1>0, <1>2, <1>3, <1>4, <1>9
      DEF JournalSingleWriter, HolderIsLive, NoReadUnderWriter, NoLostWakeup,
          HolderPlaced, Id, TypeOK, Waiting, gateVars, RecheckTimesOut
    <2> QED BY <1>0, <2>1, <2>2, <2>3, <2>4, <2>5 DEF Safety
  <1>10. CASE RecheckParks(a)
    <2>1. JournalSingleWriter'
      BY <1>0, <1>2, <1>3, <1>4, <1>10
      DEF JournalSingleWriter, HolderIsLive, NoReadUnderWriter, NoLostWakeup,
          HolderPlaced, Id, TypeOK, Waiting, gateVars, RecheckParks
    <2>2. HolderIsLive'
      BY <1>0, <1>2, <1>3, <1>4, <1>10
      DEF JournalSingleWriter, HolderIsLive, NoReadUnderWriter, NoLostWakeup,
          HolderPlaced, Id, TypeOK, Waiting, gateVars, RecheckParks
    <2>3. NoReadUnderWriter'
      BY <1>0, <1>2, <1>3, <1>4, <1>10
      DEF JournalSingleWriter, HolderIsLive, NoReadUnderWriter, NoLostWakeup,
          HolderPlaced, Id, TypeOK, Waiting, gateVars, RecheckParks
    <2>4. NoLostWakeup'
      BY <1>0, <1>2, <1>3, <1>4, <1>10
      DEF JournalSingleWriter, HolderIsLive, NoReadUnderWriter, NoLostWakeup,
          HolderPlaced, Id, TypeOK, Waiting, gateVars, RecheckParks
    <2>5. HolderPlaced'
      BY <1>0, <1>2, <1>3, <1>4, <1>10
      DEF JournalSingleWriter, HolderIsLive, NoReadUnderWriter, NoLostWakeup,
          HolderPlaced, Id, TypeOK, Waiting, gateVars, RecheckParks
    <2> QED BY <1>0, <2>1, <2>2, <2>3, <2>4, <2>5 DEF Safety
  <1>11. CASE TxnBegin(a)
    <2>1. JournalSingleWriter'
      BY <1>0, <1>2, <1>3, <1>4, <1>11
      DEF JournalSingleWriter, HolderIsLive, NoReadUnderWriter, NoLostWakeup,
          HolderPlaced, Id, TypeOK, Waiting, gateVars, TxnBegin
    <2>2. HolderIsLive'
      BY <1>0, <1>2, <1>3, <1>4, <1>11
      DEF JournalSingleWriter, HolderIsLive, NoReadUnderWriter, NoLostWakeup,
          HolderPlaced, Id, TypeOK, Waiting, gateVars, TxnBegin
    <2>3. NoReadUnderWriter'
      BY <1>0, <1>2, <1>3, <1>4, <1>11
      DEF JournalSingleWriter, HolderIsLive, NoReadUnderWriter, NoLostWakeup,
          HolderPlaced, Id, TypeOK, Waiting, gateVars, TxnBegin
    <2>4. NoLostWakeup'
      BY <1>0, <1>2, <1>3, <1>4, <1>11
      DEF JournalSingleWriter, HolderIsLive, NoReadUnderWriter, NoLostWakeup,
          HolderPlaced, Id, TypeOK, Waiting, gateVars, TxnBegin
    <2>5. HolderPlaced'
      BY <1>0, <1>2, <1>3, <1>4, <1>11
      DEF JournalSingleWriter, HolderIsLive, NoReadUnderWriter, NoLostWakeup,
          HolderPlaced, Id, TypeOK, Waiting, gateVars, TxnBegin
    <2> QED BY <1>0, <2>1, <2>2, <2>3, <2>4, <2>5 DEF Safety
  <1>12. CASE BeginFails(a)
    <2>1. JournalSingleWriter'
      BY <1>0, <1>2, <1>3, <1>4, <1>12
      DEF JournalSingleWriter, HolderIsLive, NoReadUnderWriter, NoLostWakeup,
          HolderPlaced, Id, TypeOK, Waiting, gateVars, BeginFails, ReleaseGate, NotifyAll
    <2>2. HolderIsLive'
      BY <1>0, <1>2, <1>3, <1>4, <1>12
      DEF JournalSingleWriter, HolderIsLive, NoReadUnderWriter, NoLostWakeup,
          HolderPlaced, Id, TypeOK, Waiting, gateVars, BeginFails, ReleaseGate, NotifyAll
    <2>3. NoReadUnderWriter'
      BY <1>0, <1>2, <1>3, <1>4, <1>12
      DEF JournalSingleWriter, HolderIsLive, NoReadUnderWriter, NoLostWakeup,
          HolderPlaced, Id, TypeOK, Waiting, gateVars, BeginFails, ReleaseGate, NotifyAll
    <2>4. NoLostWakeup'
      BY <1>0, <1>2, <1>3, <1>4, <1>12
      DEF JournalSingleWriter, HolderIsLive, NoReadUnderWriter, NoLostWakeup,
          HolderPlaced, Id, TypeOK, Waiting, gateVars, BeginFails, ReleaseGate, NotifyAll
    <2>5. HolderPlaced'
      BY <1>0, <1>2, <1>3, <1>4, <1>12
      DEF JournalSingleWriter, HolderIsLive, NoReadUnderWriter, NoLostWakeup,
          HolderPlaced, Id, TypeOK, Waiting, gateVars, BeginFails, ReleaseGate, NotifyAll
    <2> QED BY <1>0, <2>1, <2>2, <2>3, <2>4, <2>5 DEF Safety
  <1>13. CASE EndTxn(a)
    <2>1. JournalSingleWriter'
      BY <1>0, <1>2, <1>3, <1>4, <1>13
      DEF JournalSingleWriter, HolderIsLive, NoReadUnderWriter, NoLostWakeup,
          HolderPlaced, Id, TypeOK, Waiting, gateVars, EndTxn, ReleaseGate, NotifyAll
    <2>2. HolderIsLive'
      BY <1>0, <1>2, <1>3, <1>4, <1>13
      DEF JournalSingleWriter, HolderIsLive, NoReadUnderWriter, NoLostWakeup,
          HolderPlaced, Id, TypeOK, Waiting, gateVars, EndTxn, ReleaseGate, NotifyAll
    <2>3. NoReadUnderWriter'
      BY <1>0, <1>2, <1>3, <1>4, <1>13
      DEF JournalSingleWriter, HolderIsLive, NoReadUnderWriter, NoLostWakeup,
          HolderPlaced, Id, TypeOK, Waiting, gateVars, EndTxn, ReleaseGate, NotifyAll
    <2>4. NoLostWakeup'
      BY <1>0, <1>2, <1>3, <1>4, <1>13
      DEF JournalSingleWriter, HolderIsLive, NoReadUnderWriter, NoLostWakeup,
          HolderPlaced, Id, TypeOK, Waiting, gateVars, EndTxn, ReleaseGate, NotifyAll
    <2>5. HolderPlaced'
      BY <1>0, <1>2, <1>3, <1>4, <1>13
      DEF JournalSingleWriter, HolderIsLive, NoReadUnderWriter, NoLostWakeup,
          HolderPlaced, Id, TypeOK, Waiting, gateVars, EndTxn, ReleaseGate, NotifyAll
    <2> QED BY <1>0, <2>1, <2>2, <2>3, <2>4, <2>5 DEF Safety
  <1>14. CASE Close(a)
    <2>1. JournalSingleWriter'
      BY <1>0, <1>2, <1>3, <1>4, <1>14
      DEF JournalSingleWriter, HolderIsLive, NoReadUnderWriter, NoLostWakeup,
          HolderPlaced, Id, TypeOK, Waiting, gateVars, Close, ReleaseGate, NotifyAll
    <2>2. HolderIsLive'
      BY <1>0, <1>2, <1>3, <1>4, <1>14
      DEF JournalSingleWriter, HolderIsLive, NoReadUnderWriter, NoLostWakeup,
          HolderPlaced, Id, TypeOK, Waiting, gateVars, Close, ReleaseGate, NotifyAll
    <2>3. NoReadUnderWriter'
      BY <1>0, <1>2, <1>3, <1>4, <1>14
      DEF JournalSingleWriter, HolderIsLive, NoReadUnderWriter, NoLostWakeup,
          HolderPlaced, Id, TypeOK, Waiting, gateVars, Close, ReleaseGate, NotifyAll
    <2>4. NoLostWakeup'
      BY <1>0, <1>2, <1>3, <1>4, <1>14
      DEF JournalSingleWriter, HolderIsLive, NoReadUnderWriter, NoLostWakeup,
          HolderPlaced, Id, TypeOK, Waiting, gateVars, Close, ReleaseGate, NotifyAll
    <2>5. HolderPlaced'
      BY <1>0, <1>2, <1>3, <1>4, <1>14
      DEF JournalSingleWriter, HolderIsLive, NoReadUnderWriter, NoLostWakeup,
          HolderPlaced, Id, TypeOK, Waiting, gateVars, Close, ReleaseGate, NotifyAll
    <2> QED BY <1>0, <2>1, <2>2, <2>3, <2>4, <2>5 DEF Safety
  <1>15. CASE AcquireRead(a)
    <2>1. JournalSingleWriter'
      BY <1>0, <1>2, <1>3, <1>4, <1>15
      DEF JournalSingleWriter, HolderIsLive, NoReadUnderWriter, NoLostWakeup,
          HolderPlaced, Id, TypeOK, Waiting, gateVars, AcquireRead
    <2>2. HolderIsLive'
      BY <1>0, <1>2, <1>3, <1>4, <1>15
      DEF JournalSingleWriter, HolderIsLive, NoReadUnderWriter, NoLostWakeup,
          HolderPlaced, Id, TypeOK, Waiting, gateVars, AcquireRead
    <2>3. NoReadUnderWriter'
      BY <1>0, <1>2, <1>3, <1>4, <1>15
      DEF JournalSingleWriter, HolderIsLive, NoReadUnderWriter, NoLostWakeup,
          HolderPlaced, Id, TypeOK, Waiting, gateVars, AcquireRead
    <2>4. NoLostWakeup'
      BY <1>0, <1>2, <1>3, <1>4, <1>15
      DEF JournalSingleWriter, HolderIsLive, NoReadUnderWriter, NoLostWakeup,
          HolderPlaced, Id, TypeOK, Waiting, gateVars, AcquireRead
    <2>5. HolderPlaced'
      BY <1>0, <1>2, <1>3, <1>4, <1>15
      DEF JournalSingleWriter, HolderIsLive, NoReadUnderWriter, NoLostWakeup,
          HolderPlaced, Id, TypeOK, Waiting, gateVars, AcquireRead
    <2> QED BY <1>0, <2>1, <2>2, <2>3, <2>4, <2>5 DEF Safety
  <1>16. CASE AcquireOwnRead(a)
    <2>1. JournalSingleWriter'
      BY <1>0, <1>2, <1>3, <1>4, <1>16
      DEF JournalSingleWriter, HolderIsLive, NoReadUnderWriter, NoLostWakeup,
          HolderPlaced, Id, TypeOK, Waiting, gateVars, AcquireOwnRead
    <2>2. HolderIsLive'
      BY <1>0, <1>2, <1>3, <1>4, <1>16
      DEF JournalSingleWriter, HolderIsLive, NoReadUnderWriter, NoLostWakeup,
          HolderPlaced, Id, TypeOK, Waiting, gateVars, AcquireOwnRead
    <2>3. NoReadUnderWriter'
      BY <1>0, <1>2, <1>3, <1>4, <1>16
      DEF JournalSingleWriter, HolderIsLive, NoReadUnderWriter, NoLostWakeup,
          HolderPlaced, Id, TypeOK, Waiting, gateVars, AcquireOwnRead
    <2>4. NoLostWakeup'
      BY <1>0, <1>2, <1>3, <1>4, <1>16
      DEF JournalSingleWriter, HolderIsLive, NoReadUnderWriter, NoLostWakeup,
          HolderPlaced, Id, TypeOK, Waiting, gateVars, AcquireOwnRead
    <2>5. HolderPlaced'
      BY <1>0, <1>2, <1>3, <1>4, <1>16
      DEF JournalSingleWriter, HolderIsLive, NoReadUnderWriter, NoLostWakeup,
          HolderPlaced, Id, TypeOK, Waiting, gateVars, AcquireOwnRead
    <2> QED BY <1>0, <2>1, <2>2, <2>3, <2>4, <2>5 DEF Safety
  <1>17. CASE DropPermit(a)
    <2>1. JournalSingleWriter'
      BY <1>0, <1>2, <1>3, <1>4, <1>17
      DEF JournalSingleWriter, HolderIsLive, NoReadUnderWriter, NoLostWakeup,
          HolderPlaced, Id, TypeOK, Waiting, gateVars, DropPermit, NotifyAll
    <2>2. HolderIsLive'
      BY <1>0, <1>2, <1>3, <1>4, <1>17
      DEF JournalSingleWriter, HolderIsLive, NoReadUnderWriter, NoLostWakeup,
          HolderPlaced, Id, TypeOK, Waiting, gateVars, DropPermit, NotifyAll
    <2>3. NoReadUnderWriter'
      BY <1>0, <1>2, <1>3, <1>4, <1>17
      DEF JournalSingleWriter, HolderIsLive, NoReadUnderWriter, NoLostWakeup,
          HolderPlaced, Id, TypeOK, Waiting, gateVars, DropPermit, NotifyAll
    <2>4. NoLostWakeup'
      BY <1>0, <1>2, <1>3, <1>4, <1>17
      DEF JournalSingleWriter, HolderIsLive, NoReadUnderWriter, NoLostWakeup,
          HolderPlaced, Id, TypeOK, Waiting, gateVars, DropPermit, NotifyAll
    <2>5. HolderPlaced'
      BY <1>0, <1>2, <1>3, <1>4, <1>17
      DEF JournalSingleWriter, HolderIsLive, NoReadUnderWriter, NoLostWakeup,
          HolderPlaced, Id, TypeOK, Waiting, gateVars, DropPermit, NotifyAll
    <2> QED BY <1>0, <2>1, <2>2, <2>3, <2>4, <2>5 DEF Safety
  <1> QED BY <1>1, <1>5, <1>6, <1>7, <1>8, <1>9, <1>10, <1>11, <1>12, <1>13, <1>14, <1>15, <1>16, <1>17

-----------------------------------------------------------------------------
(* The theorems.                                                           *)

LEMMA InitSafety == Init => SafetyInv
  <1> SUFFICES ASSUME Init PROVE SafetyInv
    OBVIOUS
  <1>1. TypeOK
    BY MaxGenAssumption DEF Init, TypeOK, Phases
  <1>2. /\ {a \in Addr : phase[a] = "reading"} = {}
        /\ {a \in Addr : phase[a] \in Waiting} = {}
    BY DEF Init, Waiting
  <1>3. CountersExact
    BY <1>2, FS_EmptySet DEF Init, CountersExact
  <1>4. \A a \in Addr : Id(a) # None
    BY <1>1, IdFacts
  <1>5. JournalSingleWriter /\ HolderIsLive /\ NoReadUnderWriter /\ NoLostWakeup /\ HolderPlaced
    BY <1>4 DEF Init, JournalSingleWriter, HolderIsLive, NoReadUnderWriter,
                NoLostWakeup, HolderPlaced
  <1> QED BY <1>1, <1>3, <1>5 DEF SafetyInv, Safety

LEMMA StepSafety == SafetyInv /\ [Next]_vars => SafetyInv'
  <1> SUFFICES ASSUME SafetyInv, [Next]_vars PROVE SafetyInv'
    OBVIOUS
  <1>1. CASE Next
    BY <1>1, ActionKeepsCounters, ActionKeepsSafety DEF SafetyInv
  <1>2. CASE UNCHANGED vars
    BY <1>2 DEF vars, SafetyInv, Safety, TypeOK, JournalSingleWriter, HolderIsLive,
                NoReadUnderWriter, NoLostWakeup, HolderPlaced, CountersExact, Busy, Id
  <1> QED BY <1>1, <1>2

\* The inductive invariant holds in every reachable state of the gate.
THEOREM GateInvariant == Spec => []SafetyInv
  BY InitSafety, StepSafety, PTL DEF Spec

\* The engine's journal has one writer, the connection that holds the gate:
\* txn_begin never resets a journal that is in use.
THEOREM GateJournalSingleWriter == Spec => []JournalSingleWriter
  <1>1. SafetyInv => JournalSingleWriter
    BY DEF SafetyInv, Safety
  <1> QED BY <1>1, GateInvariant, PTL

\* The holder of the gate is always a live registration that will release it.
THEOREM GateHolderIsLive == Spec => []HolderIsLive
  <1>1. SafetyInv => HolderIsLive
    BY DEF SafetyInv, Safety
  <1> QED BY <1>1, GateInvariant, PTL

\* No engine state is copied for a read while another connection writes it.
THEOREM GateNoReadUnderWriter == Spec => []NoReadUnderWriter
  <1>1. SafetyInv => NoReadUnderWriter
    BY DEF SafetyInv, Safety
  <1> QED BY <1>1, GateInvariant, PTL

\* The reader and waiter counts are exact, whatever times out or closes.
THEOREM GateCountersExact == Spec => []CountersExact
  <1>1. SafetyInv => CountersExact
    BY DEF SafetyInv, Safety
  <1> QED BY <1>1, GateInvariant, PTL

\* A writer sleeps on the condition variable only while the gate is busy.
THEOREM GateNoLostWakeup == Spec => []NoLostWakeup
  <1>1. SafetyInv => NoLostWakeup
    BY DEF SafetyInv, Safety
  <1> QED BY <1>1, GateInvariant, PTL
=============================================================================
