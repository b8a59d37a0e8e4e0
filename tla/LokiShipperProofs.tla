------------------------- MODULE LokiShipperProofs -------------------------
(***************************************************************************)
(* Proofs of the safety properties of LokiShipper, for any number of       *)
(* entries and timer threads and any batch size: its invariants, that it   *)
(* implements EntryDelivery, and what EntriesLeave needs besides fairness. *)
(***************************************************************************)
EXTENDS LokiShipper, FiniteSetTheorems, TLAPS

USE TimerAssumption

\* Every state has the declared types, and a timer thread pushes exactly while
\* it holds entries: no thread ever pushes an empty batch.
THEOREM TypeCorrect == Spec => []TypeOK
<1>1. Init => TypeOK
  BY DEF Init, TypeOK, Alive
<1>2. TypeOK /\ [Next]_vars => TypeOK'
  <2> SUFFICES ASSUME TypeOK, [Next]_vars PROVE TypeOK'
    OBVIOUS
  <2> USE DEF TypeOK, Alive, ended
  <2>1. ASSUME NEW e \in Entries, ShipEntry(e) PROVE TypeOK'
    BY <2>1 DEF ShipEntry, Schedule, CancelTimer
  <2>2. CASE FinishShip
    BY <2>2 DEF FinishShip, Push
  <2>3. ASSUME NEW t \in Timers, Fire(t) PROVE TypeOK'
    BY <2>3 DEF Fire
  <2>4. ASSUME NEW t \in Timers, FlushBatch(t) PROVE TypeOK'
    BY <2>4 DEF FlushBatch
  <2>5. ASSUME NEW t \in Timers, FinishFlush(t) PROVE TypeOK'
    BY <2>5 DEF FinishFlush, Push
  <2>6. CASE Exit
    BY <2>6 DEF Exit, InMemory
  <2>7. CASE UNCHANGED vars
    BY <2>7 DEF vars
  <2>8. QED
    BY <2>1, <2>2, <2>3, <2>4, <2>5, <2>6, <2>7 DEF Next
<1>3. QED
  BY <1>1, <1>2, PTL DEF Spec

\* No interleaving of the event loop with timer threads, late ones included,
\* pushes an entry twice or both delivers and drops it.
THEOREM OneHomeHolds == Spec => []OneHome
<1>1. Init => OneHome
  BY DEF Init, OneHome, Places
<1>2. TypeOK /\ OneHome /\ [Next]_vars => OneHome'
  <2> SUFFICES ASSUME TypeOK, OneHome, [Next]_vars PROVE OneHome'
    OBVIOUS
  <2> USE DEF TypeOK, OneHome, Places, ended
  <2>1. ASSUME NEW e \in Entries, ShipEntry(e) PROVE OneHome'
    BY <2>1 DEF ShipEntry, LockFree
  <2>2. CASE FinishShip
    BY <2>2 DEF FinishShip, Push
  <2>3. ASSUME NEW t \in Timers, Fire(t) PROVE OneHome'
    BY <2>3 DEF Fire
  <2>4. ASSUME NEW t \in Timers, FlushBatch(t) PROVE OneHome'
    BY <2>4 DEF FlushBatch
  <2>5. ASSUME NEW t \in Timers, FinishFlush(t) PROVE OneHome'
    BY <2>5 DEF FinishFlush, Push
  <2>6. CASE Exit
    BY <2>6 DEF Exit, InMemory
  <2>7. CASE UNCHANGED vars
    BY <2>7 DEF vars
  <2>8. QED
    BY <2>1, <2>2, <2>3, <2>4, <2>5, <2>6, <2>7 DEF Next
<1>3. QED
  BY TypeCorrect, <1>1, <1>2, PTL DEF Spec

\* The timer that ship_entry relies on when it schedules nothing is one that
\* will still push the batch.
THEOREM NeverStrandedHolds == Spec => []NeverStranded
<1>1. Init => NeverStranded
  BY DEF Init, NeverStranded
<1>2. TypeOK /\ NeverStranded /\ [Next]_vars => NeverStranded'
  <2> SUFFICES ASSUME TypeOK, NeverStranded, [Next]_vars PROVE NeverStranded'
    OBVIOUS
  <2> USE DEF TypeOK, NeverStranded, Alive, ended
  <2>1. ASSUME NEW e \in Entries, ShipEntry(e) PROVE NeverStranded'
    BY <2>1 DEF ShipEntry, Schedule, CancelTimer
  <2>2. CASE FinishShip
    BY <2>2 DEF FinishShip
  <2>3. ASSUME NEW t \in Timers, Fire(t) PROVE NeverStranded'
    BY <2>3 DEF Fire
  <2>4. ASSUME NEW t \in Timers, FlushBatch(t) PROVE NeverStranded'
    BY <2>4 DEF FlushBatch
  <2>5. ASSUME NEW t \in Timers, FinishFlush(t) PROVE NeverStranded'
    BY <2>5 DEF FinishFlush
  <2>6. CASE Exit
    BY <2>6 DEF Exit
  <2>7. CASE UNCHANGED vars
    BY <2>7 DEF vars
  <2>8. QED
    BY <2>1, <2>2, <2>3, <2>4, <2>5, <2>6, <2>7 DEF Next
<1>3. QED
  BY TypeCorrect, <1>1, <1>2, PTL DEF Spec

\* A batch that reaches _BATCH_SIZE is taken away in the critical section that
\* filled it.
THEOREM BatchBelowLimitHolds == Spec => []BatchBelowLimit
<1>0. Cardinality({}) < BatchSize
  BY FS_EmptySet, BatchAssumption
<1>1. Init => BatchBelowLimit
  BY <1>0 DEF Init, BatchBelowLimit
<1>2. TypeOK /\ BatchBelowLimit /\ [Next]_vars => BatchBelowLimit'
  <2> SUFFICES ASSUME TypeOK, BatchBelowLimit, [Next]_vars PROVE BatchBelowLimit'
    OBVIOUS
  <2>1. ASSUME NEW e \in Entries, ShipEntry(e) PROVE BatchBelowLimit'
    <3>1. CASE IsFull(batch \cup {e})
      BY <1>0, <2>1, <3>1 DEF ShipEntry, BatchBelowLimit
    <3>2. CASE ~IsFull(batch \cup {e})
      <4>1. Cardinality(batch \cup {e}) \in Nat
        BY BatchAssumption, FS_Subset, FS_CardinalityType DEF TypeOK
      <4>2. QED
        BY <2>1, <3>2, <4>1, BatchAssumption DEF ShipEntry, BatchBelowLimit, IsFull
    <3>3. QED
      BY <3>1, <3>2
  <2>2. ASSUME NEW t \in Timers, FlushBatch(t) PROVE BatchBelowLimit'
    BY <1>0, <2>2 DEF FlushBatch, BatchBelowLimit
  <2>3. CASE Exit
    BY <1>0, <2>3 DEF Exit, BatchBelowLimit
  <2>4. CASE UNCHANGED batch
    BY <2>4 DEF BatchBelowLimit
  <2>5. QED
    BY <2>1, <2>2, <2>3, <2>4 DEF Next, vars, FinishShip, Fire, FinishFlush
<1>3. QED
  BY TypeCorrect, <1>1, <1>2, PTL DEF Spec

-----------------------------------------------------------------------------
(***************************************************************************)
(* LokiShipper implements EntryDelivery.                                   *)
(***************************************************************************)
\* A push carries at most _BATCH_SIZE entries, whoever makes it.
PushesBounded ==
  /\ Cardinality(pushing) <= BatchSize
  /\ \A t \in Timers : Cardinality(taken[t]) <= BatchSize

\* The batch that an entry fills has exactly _BATCH_SIZE entries.
LEMMA FilledBatch ==
  ASSUME TypeOK, BatchBelowLimit, NEW e \in Entries
  PROVE Cardinality(batch \cup {e}) <= BatchSize
<1>1. IsFiniteSet(batch)
  BY BatchAssumption, FS_Subset DEF TypeOK
<1>2. /\ Cardinality(batch) \in Nat
      /\ \/ Cardinality(batch \cup {e}) = Cardinality(batch)
         \/ Cardinality(batch \cup {e}) = Cardinality(batch) + 1
  BY <1>1, FS_CardinalityType, FS_AddElement
<1>3. QED
  BY <1>2, BatchAssumption DEF BatchBelowLimit

\* No timer thread and no ship_entry takes away more than a full batch.
THEOREM PushesAreBounded == Spec => []PushesBounded
<1>0. Cardinality({}) <= BatchSize
  BY FS_EmptySet, BatchAssumption
<1>1. Init => PushesBounded
  BY <1>0 DEF Init, PushesBounded
<1>2. TypeOK /\ BatchBelowLimit /\ PushesBounded /\ [Next]_vars => PushesBounded'
  <2> SUFFICES ASSUME TypeOK, BatchBelowLimit, PushesBounded, [Next]_vars
               PROVE PushesBounded'
    OBVIOUS
  <2>1. ASSUME NEW e \in Entries, ShipEntry(e) PROVE PushesBounded'
    BY <2>1, FilledBatch DEF ShipEntry, PushesBounded
  <2>2. CASE FinishShip
    BY <1>0, <2>2 DEF FinishShip, PushesBounded
  <2>3. ASSUME NEW t \in Timers, FlushBatch(t) PROVE PushesBounded'
    <3>1. Cardinality(batch) <= BatchSize
      BY BatchAssumption, FS_Subset, FS_CardinalityType DEF TypeOK, BatchBelowLimit
    <3>2. QED
      BY <2>3, <3>1 DEF FlushBatch, PushesBounded, TypeOK
  <2>4. ASSUME NEW t \in Timers, FinishFlush(t) PROVE PushesBounded'
    BY <1>0, <2>4 DEF FinishFlush, PushesBounded, TypeOK
  <2>5. CASE Exit
    BY <1>0, <2>5 DEF Exit, PushesBounded
  <2>6. CASE UNCHANGED <<pushing, taken>>
    BY <2>6 DEF PushesBounded
  <2>7. QED
    BY <2>1, <2>2, <2>3, <2>4, <2>5, <2>6 DEF Next, vars, Fire
<1>3. QED
  BY TypeCorrect, BatchBelowLimitHolds, <1>1, <1>2, PTL DEF Spec

\* What leaves a thread leaves the memory of the shipper, since no other place
\* holds it: OneHome is what makes each step of the refinement hold.
LEMMA StepDelivers ==
  ASSUME TypeOK, OneHome, PushesBounded, [Next]_vars
  PROVE [Delivery!Next]_<<unsent, InMemory, delivered, dropped, lost>>
<1> DEFINE held == <<unsent, InMemory, delivered, dropped, lost>>
           Pushes == \E p \in Pushable : Delivery!Deliver(p) \/ Delivery!Drop(p)
<1> USE DEF TypeOK, InMemory, ended
<1>1. ASSUME NEW e \in Entries, ShipEntry(e) PROVE Delivery!Accept(e)
  <2>1. InMemory' = InMemory \cup {e}
    BY <1>1 DEF ShipEntry, LockFree
  <2>2. QED
    BY <1>1, <2>1 DEF ShipEntry, Delivery!Accept
<1>2. ASSUME FinishShip PROVE Pushes
  <2>1. InMemory' = InMemory \ pushing
    BY <1>2 DEF FinishShip, OneHome, Places
  <2>2. PICK push \in Pushable : push = pushing
    BY <1>2 DEF FinishShip, PushesBounded, Pushable
  <2>3. Delivery!Deliver(push) \/ Delivery!Drop(push)
    BY <1>2, <2>1, <2>2
    DEF FinishShip, Push, Delivery!Deliver, Delivery!Drop, Delivery!Leave
  <2>4. QED
    BY <2>3
<1>3. ASSUME NEW t \in Timers, Fire(t) PROVE UNCHANGED held
  BY <1>3 DEF Fire
<1>4. ASSUME NEW t \in Timers, FlushBatch(t) PROVE UNCHANGED held
  <2>1. taken[t] = {}
    BY <1>4 DEF FlushBatch
  <2>2. InMemory' = InMemory
    BY <1>4, <2>1 DEF FlushBatch
  <2>3. QED
    BY <1>4, <2>2 DEF FlushBatch
<1>5. ASSUME NEW t \in Timers, FinishFlush(t) PROVE Pushes
  <2>1. InMemory' = InMemory \ taken[t]
    BY <1>5 DEF FinishFlush, OneHome, Places
  <2>2. PICK push \in Pushable : push = taken[t]
    BY <1>5 DEF FinishFlush, PushesBounded, Pushable
  <2>3. Delivery!Deliver(push) \/ Delivery!Drop(push)
    BY <1>5, <2>1, <2>2
    DEF FinishFlush, Push, Delivery!Deliver, Delivery!Drop, Delivery!Leave
  <2>4. QED
    BY <2>3
<1>6. ASSUME Exit PROVE Delivery!Lose \/ UNCHANGED held
  <2>1. InMemory' = {}
    BY <1>6 DEF Exit
  <2>2. QED
    BY <1>6, <2>1 DEF Exit, Delivery!Lose, Delivery!Leave
<1>7. ASSUME UNCHANGED vars PROVE UNCHANGED held
  BY <1>7 DEF vars
<1>8. QED
  <2>1. CASE UNCHANGED vars
    BY <1>7, <2>1
  <2>2. CASE Exit
    BY <1>6, <2>2 DEF Delivery!Next
  <2>3. CASE FinishShip
    BY <1>2, <2>3 DEF Delivery!Next
  <2>4. CASE \E e \in Entries : ShipEntry(e)
    BY <1>1, <2>4 DEF Delivery!Next
  <2>5. CASE \E t \in Timers : Fire(t) \/ FlushBatch(t) \/ FinishFlush(t)
    BY <1>3, <1>4, <1>5, <2>5 DEF Delivery!Next
  <2>6. QED
    BY <2>1, <2>2, <2>3, <2>4, <2>5 DEF Next

\* ImplementsDelivery: with its threads, timers that run late and a lock held
\* over a push, the shipper does nothing that EntryDelivery does not allow.
THEOREM Implements == Spec => ImplementsDelivery
<1>1. Init => Delivery!Init
  BY DEF Init, Delivery!Init, InMemory
<1>2. QED
  BY TypeCorrect, OneHomeHolds, PushesAreBounded, StepDelivers, <1>1, PTL
  DEF Spec, ImplementsDelivery, Delivery!Spec

-----------------------------------------------------------------------------
(***************************************************************************)
(* Towards EntriesLeave: how far an entry in memory still is from leaving. *)
(* In the batch it waits for the timer that _flush_timer names, which      *)
(* NeverStranded says is there, to fire and then to flush.                 *)
(***************************************************************************)
Distance(e) ==
  IF e \in batch THEN IF thread[timer] = "sleeping" THEN 3 ELSE 2
  ELSE IF e \in InMemory THEN 1 ELSE 0

\* The steps that have to come for entry e.
Helps(e) ==
  \/ e \in batch /\ (Fire(timer) \/ FlushBatch(timer))
  \/ e \in pushing /\ FinishShip
  \/ \E t \in Timers : e \in taken[t] /\ FinishFlush(t)

Nearer ==
  \A e \in Entries : e \in InMemory =>
    /\ Distance(e)' <= Distance(e)
    /\ Helps(e) => Distance(e)' < Distance(e)

\* Whoever takes the next step, an entry in memory is not thrown back.
LEMMA NoneSetBack ==
  ASSUME TypeOK, OneHome, NeverStranded, [Next]_vars, NEW e \in Entries, e \in InMemory
  PROVE  Distance(e)' <= Distance(e)
<1> USE DEF TypeOK, Alive, ended, Distance, InMemory
<1>1. /\ Distance(e) \in {1, 2, 3}
      /\ e \in batch => Distance(e) \in {2, 3} /\ timer \in Timers
      /\ e \notin batch => Distance(e) = 1
  BY DEF NeverStranded
<1>2. Distance(e)' \in {0, 1, 2, 3} /\ (e \notin batch' => Distance(e)' \in {0, 1})
  OBVIOUS
<1>3. ASSUME e \notin batch PROVE e \notin batch'
  <2>1. e \notin unsent
    BY <1>3 DEF OneHome, Places
  <2>2. CASE \E f \in Entries : ShipEntry(f)
    BY <1>3, <2>1, <2>2 DEF ShipEntry
  <2>3. CASE ~\E f \in Entries : ShipEntry(f)
    BY <1>3, <2>3 DEF Next, vars, FinishShip, Fire, FlushBatch, FinishFlush, Exit
  <2>4. QED
    BY <2>2, <2>3
<1>4. ASSUME e \in batch, e \in batch', thread[timer] # "sleeping"
      PROVE  timer' = timer /\ thread'[timer] # "sleeping"
  <2>1. timer \in Timers /\ timer # NoTimer
    BY <1>4, <1>1
  <2>2. CASE \E f \in Entries : ShipEntry(f)
    BY <1>4, <2>1, <2>2 DEF ShipEntry, Schedule
  <2>3. CASE \E t \in Timers : Fire(t) \/ FinishFlush(t)
    BY <1>4, <2>1, <2>3 DEF Fire, FinishFlush
  <2>4. CASE \E t \in Timers : FlushBatch(t)
    BY <1>4, <2>4 DEF FlushBatch
  <2>5. CASE Exit
    BY <1>4, <2>5 DEF Exit
  <2>6. CASE FinishShip \/ UNCHANGED vars
    BY <1>4, <2>6 DEF FinishShip, vars
  <2>7. QED
    BY <2>2, <2>3, <2>4, <2>5, <2>6 DEF Next
<1>5. CASE e \notin batch
  BY <1>1, <1>2, <1>3, <1>5
<1>6. CASE e \in batch /\ e \notin batch'
  BY <1>1, <1>2, <1>6
<1>7. CASE e \in batch /\ e \in batch'
  <2>1. thread[timer] # "sleeping" => Distance(e)' = 2
    BY <1>4, <1>7
  <2>2. thread[timer] = "sleeping" => Distance(e) = 3
    BY <1>7
  <2> HIDE DEF TypeOK, Distance, InMemory
  <2>3. QED
    BY <1>1, <1>2, <1>7, <2>1, <2>2
<1>8. QED
  BY <1>5, <1>6, <1>7

\* The step an entry waits for brings it nearer.
LEMMA HelpHelps ==
  ASSUME TypeOK, OneHome, NeverStranded, NEW e \in Entries, Helps(e)
  PROVE  Distance(e)' < Distance(e)
<1> USE DEF TypeOK, Distance, InMemory
<1>1. CASE e \in batch /\ Fire(timer)
  BY <1>1 DEF Fire, NeverStranded
<1>2. CASE e \in batch /\ FlushBatch(timer)
  BY <1>2 DEF FlushBatch
<1>3. CASE e \in pushing /\ FinishShip
  <2>1. e \notin InMemory' /\ e \notin batch'
    BY <1>3 DEF FinishShip, OneHome, Places
  <2>2. e \notin batch
    BY <1>3 DEF OneHome, Places
  <2>3. QED
    BY <1>3, <2>1, <2>2
<1>4. ASSUME NEW t \in Timers, e \in taken[t], FinishFlush(t)
      PROVE  Distance(e)' < Distance(e)
  <2>1. e \notin InMemory' /\ e \notin batch'
    BY <1>4 DEF FinishFlush, OneHome, Places
  <2>2. e \notin batch
    BY <1>4 DEF OneHome, Places
  <2>3. QED
    BY <1>4, <2>1, <2>2
<1>5. QED
  BY <1>1, <1>2, <1>3, <1>4 DEF Helps

\* The safety half of EntriesLeave: an entry leaves the memory after at most
\* three steps, those of the thread that has it or will take it, and no step of
\* another thread, late timers included, takes any of them back.
THEOREM ThreeSteps == Spec => [][Nearer]_vars
<1>1. TypeOK /\ OneHome /\ NeverStranded /\ [Next]_vars => Nearer
  BY NoneSetBack, HelpHelps DEF Nearer
<1>2. QED
  BY TypeCorrect, OneHomeHolds, NeverStrandedHolds, <1>1, PTL DEF Spec

=============================================================================
