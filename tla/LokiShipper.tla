---------------------------- MODULE LokiShipper ----------------------------
(***************************************************************************)
(* Shipping audit entries to Loki: audit/loki_shipper.py.                  *)
(*                                                                         *)
(* ship_entry runs on the event loop and appends an entry to a batch.  A   *)
(* full batch is pushed at once, with _batch_lock still held; any other    *)
(* entry makes sure that a timer thread will push the batch later.  A      *)
(* timer that is cancelled after it has fired runs all the same, so more   *)
(* timer threads than the one _flush_timer names can be alive.             *)
(*                                                                         *)
(* The lock is held from one step to another only while the event loop     *)
(* pushes (pushing is then not empty); every other critical section is one *)
(* step.                                                                   *)
(***************************************************************************)
EXTENDS Naturals, FiniteSets

CONSTANTS
  Entries,    \* audit entries, each shipped by one log_event
  Timers,     \* timer threads that can be alive at a time
  NoTimer,    \* _flush_timer is None
  BatchSize   \* _BATCH_SIZE

ASSUME TimerAssumption == NoTimer \notin Timers
ASSUME BatchAssumption == BatchSize \in Nat \ {0} /\ IsFiniteSet(Entries)

VARIABLES
  unsent,     \* entries not logged yet
  batch,      \* _batch
  timer,      \* _flush_timer
  thread,     \* thread[t]: the state of timer thread t
  taken,      \* taken[t]: the entries_to_send of timer thread t
  pushing,    \* the entries_to_send of ship_entry
  delivered,  \* entries Loki has accepted
  dropped,    \* entries of pushes that failed
  lost        \* entries that were in memory when the process ended

ended == <<delivered, dropped>>
vars  == <<unsent, batch, timer, thread, taken, pushing, ended, lost>>

\* A timer thread sleeps, has fired and wants the lock, or pushes a batch.
Alive == {"sleeping", "fired", "pushing"}

Init ==
  /\ unsent = Entries
  /\ batch = {}
  /\ timer = NoTimer
  /\ thread = [t \in Timers |-> "none"]
  /\ taken = [t \in Timers |-> {}]
  /\ pushing = {}
  /\ delivered = {}
  /\ dropped = {}
  /\ lost = {}

LockFree == pushing = {}

-----------------------------------------------------------------------------
\* Mutant: off by one.
IsFullByOne(entries) == Cardinality(entries) > BatchSize

IsFull(entries) == Cardinality(entries) >= BatchSize

\* _schedule_flush: nothing to do while _flush_timer names a timer.
Schedule ==
  IF timer # NoTimer THEN UNCHANGED <<timer, thread>>
  ELSE \E t \in Timers :
         /\ thread[t] = "none"
         /\ thread' = [thread EXCEPT ![t] = "sleeping"]
         /\ timer' = t

\* Mutant: the cancelled timer stays in _flush_timer.
CancelTimerOnly ==
  /\ thread' = [t \in Timers |->
                  IF t = timer /\ thread[t] = "sleeping" THEN "none" ELSE thread[t]]
  /\ UNCHANGED timer

\* _flush_timer.cancel(): without effect on a timer that has fired.
CancelTimer ==
  /\ thread' = [t \in Timers |->
                  IF t = timer /\ thread[t] = "sleeping" THEN "none" ELSE thread[t]]
  /\ timer' = NoTimer

ShipEntry(e) ==
  /\ e \in unsent
  /\ LockFree
  /\ unsent' = unsent \ {e}
  /\ IF IsFull(batch \cup {e})
       THEN /\ batch' = {}
            /\ pushing' = batch \cup {e}
            /\ CancelTimer
       ELSE /\ batch' = batch \cup {e}
            /\ UNCHANGED pushing
            /\ Schedule
  /\ UNCHANGED <<taken, ended, lost>>

\* _push_to_loki: a push that fails, or times out, drops its batch.
Push(entries) ==
  \/ delivered' = delivered \cup entries /\ UNCHANGED dropped
  \/ dropped' = dropped \cup entries /\ UNCHANGED delivered

\* The push of ship_entry ends, and with it the critical section.
FinishShip ==
  /\ pushing # {}
  /\ Push(pushing)
  /\ pushing' = {}
  /\ UNCHANGED <<unsent, batch, timer, thread, taken, lost>>

\* The interval of a timer that was not cancelled has passed.
Fire(t) ==
  /\ thread[t] = "sleeping"
  /\ thread' = [thread EXCEPT ![t] = "fired"]
  /\ UNCHANGED <<unsent, batch, timer, taken, pushing, ended, lost>>

\* Mutant: the batch is copied but not cleared.
FlushBatchKeeps(t) ==
  /\ thread[t] = "fired"
  /\ LockFree
  /\ timer' = NoTimer
  /\ taken' = [taken EXCEPT ![t] = batch]
  /\ thread' = [thread EXCEPT ![t] = IF batch = {} THEN "none" ELSE "pushing"]
  /\ UNCHANGED <<unsent, batch, pushing, ended, lost>>

\* Mutant: no early return on an empty batch.
FlushBatchAlways(t) ==
  /\ thread[t] = "fired"
  /\ LockFree
  /\ timer' = NoTimer
  /\ batch' = {}
  /\ taken' = [taken EXCEPT ![t] = batch]
  /\ thread' = [thread EXCEPT ![t] = "pushing"]
  /\ UNCHANGED <<unsent, pushing, ended, lost>>

\* _flush_batch up to the end of its critical section.  It clears
\* _flush_timer whichever timer that names by now.
FlushBatch(t) ==
  /\ thread[t] = "fired"
  /\ LockFree
  /\ timer' = NoTimer
  /\ batch' = {}
  /\ taken' = [taken EXCEPT ![t] = batch]
  /\ thread' = [thread EXCEPT ![t] = IF batch = {} THEN "none" ELSE "pushing"]
  /\ UNCHANGED <<unsent, pushing, ended, lost>>

FinishFlush(t) ==
  /\ thread[t] = "pushing"
  /\ Push(taken[t])
  /\ taken' = [taken EXCEPT ![t] = {}]
  /\ thread' = [thread EXCEPT ![t] = "none"]
  /\ UNCHANGED <<unsent, batch, timer, pushing, lost>>

\* The process ends: timers are daemon threads and nothing flushes the batch.
InMemory == batch \cup pushing \cup UNION {taken[t] : t \in Timers}

Exit ==
  /\ lost' = lost \cup InMemory
  /\ batch' = {}
  /\ pushing' = {}
  /\ timer' = NoTimer
  /\ thread' = [t \in Timers |-> "none"]
  /\ taken' = [t \in Timers |-> {}]
  /\ UNCHANGED <<unsent, ended>>

Next ==
  \/ \E e \in Entries : ShipEntry(e)
  \/ FinishShip
  \/ \E t \in Timers : Fire(t) \/ FlushBatch(t) \/ FinishFlush(t)
  \/ Exit

Spec == Init /\ [][Next]_vars

\* Timers fire, threads run, and _LOKI_TIMEOUT ends every push.
Fairness ==
  /\ WF_vars(FinishShip)
  /\ \A t \in Timers : WF_vars(Fire(t) \/ FlushBatch(t) \/ FinishFlush(t))

FairSpec == Spec /\ Fairness

-----------------------------------------------------------------------------
\* Types; and a timer thread pushes exactly while it holds entries.
TypeOK ==
  /\ unsent \subseteq Entries
  /\ batch \subseteq Entries
  /\ timer \in Timers \cup {NoTimer}
  /\ thread \in [Timers -> Alive \cup {"none"}]
  /\ taken \in [Timers -> SUBSET Entries]
  /\ pushing \subseteq Entries
  /\ delivered \subseteq Entries
  /\ dropped \subseteq Entries
  /\ lost \subseteq Entries
  /\ \A t \in Timers : thread[t] = "pushing" <=> taken[t] # {}

\* Whatever timers and the event loop do at the same time, an entry is in one
\* place only: it is pushed at most once, and not both delivered and dropped.
Places == <<unsent, batch, pushing, delivered, dropped, lost>>

OneHome ==
  /\ \A i, j \in 1 .. 6 : i # j => Places[i] \cap Places[j] = {}
  /\ \A i \in 1 .. 6, t \in Timers : Places[i] \cap taken[t] = {}
  /\ \A s, t \in Timers : s # t => taken[s] \cap taken[t] = {}

\* A waiting batch always has a timer that will push it: _flush_timer never
\* names a timer that has run or was cancelled, and is None only if the batch
\* is empty, although a late timer may clear it for another.
NeverStranded ==
  /\ batch # {} => timer # NoTimer
  /\ timer # NoTimer => thread[timer] \in {"sleeping", "fired"}

\* Outside the critical sections the batch is shorter than _BATCH_SIZE.
BatchBelowLimit == Cardinality(batch) < BatchSize

\* The shipper does what EntryDelivery promises: whatever timers run late, a
\* batch is taken by one thread, leaves in one push of at most _BATCH_SIZE
\* entries, and never comes back.
Pushable == {b \in SUBSET Entries : b # {} /\ Cardinality(b) <= BatchSize}

Delivery == INSTANCE EntryDelivery WITH held <- InMemory, Batches <- Pushable

ImplementsDelivery == Delivery!Spec

\* An entry that was shipped does not stay in memory: it is delivered, or
\* given up by a push that failed or by the end of the process.
EntriesLeave ==
  \A e \in Entries : e \in InMemory ~> e \in delivered \cup dropped \cup lost

=============================================================================
