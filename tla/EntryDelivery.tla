--------------------------- MODULE EntryDelivery ---------------------------
(***************************************************************************)
(* What the Loki shipper promises about audit entries: the abstract        *)
(* specification that LokiShipper refines.  It has no timers, threads or   *)
(* locks.  An entry is accepted once; accepted entries leave by a push of  *)
(* a batch, which Loki takes or which fails; what is still held when the   *)
(* process ends is lost.  An entry that has left never comes back, so that *)
(* no entry is pushed a second time.                                       *)
(***************************************************************************)
CONSTANTS
  Entries,
  Batches  \* the sets of entries that may be pushed together

VARIABLES
  unsent,     \* entries not logged yet
  held,       \* entries accepted, and kept in memory only
  delivered,  \* entries Loki has accepted
  dropped,    \* entries of pushes that failed
  lost        \* entries held when the process ended

Init ==
  /\ unsent = Entries
  /\ held = {} /\ delivered = {} /\ dropped = {} /\ lost = {}

Accept(e) ==
  /\ e \in unsent
  /\ unsent' = unsent \ {e}
  /\ held' = held \cup {e}
  /\ UNCHANGED <<delivered, dropped, lost>>

Leave(push) ==
  /\ push \subseteq held
  /\ held' = held \ push
  /\ UNCHANGED unsent

Deliver(push) ==
  /\ Leave(push)
  /\ delivered' = delivered \cup push
  /\ UNCHANGED <<dropped, lost>>

Drop(push) ==
  /\ Leave(push)
  /\ dropped' = dropped \cup push
  /\ UNCHANGED <<delivered, lost>>

Lose ==
  /\ Leave(held)
  /\ lost' = lost \cup held
  /\ UNCHANGED <<delivered, dropped>>

Next ==
  \/ \E e \in Entries : Accept(e)
  \/ \E push \in Batches : Deliver(push) \/ Drop(push)
  \/ Lose

Spec == Init /\ [][Next]_<<unsent, held, delivered, dropped, lost>>

=============================================================================
