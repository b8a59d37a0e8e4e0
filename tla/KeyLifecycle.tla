---------------------------- MODULE KeyLifecycle ----------------------------
(***************************************************************************)
(* What the accounts promise about API keys: the abstract specification    *)
(* that Accounts refines.  A user has at most one working key, a key works *)
(* for at most one user, and a key that has been replaced or withdrawn     *)
(* never works again.  The one exception is the key the operator           *)
(* configures for the first administrator: a new user may be given it.     *)
(***************************************************************************)
CONSTANTS Users, Keys, NoKey, Configured

VARIABLES
  works,  \* works[u]: the key that authenticates u
  spent   \* keys that have been replaced or withdrawn

Init == works = [u \in Users |-> NoKey] /\ spent = {}

Unused(k) == \A v \in Users : works[v] # k

Issue(u, k) ==
  /\ works[u] = NoKey
  /\ Unused(k) /\ (k \notin spent \/ k = Configured)
  /\ works' = [works EXCEPT ![u] = k]
  /\ UNCHANGED spent

Replace(u, k) ==
  /\ works[u] # NoKey
  /\ Unused(k) /\ k \notin spent
  /\ works' = [works EXCEPT ![u] = k]
  /\ spent' = spent \cup {works[u]}

Withdraw(u) ==
  /\ works[u] # NoKey
  /\ works' = [works EXCEPT ![u] = NoKey]
  /\ spent' = spent \cup {works[u]}

Next ==
  \E u \in Users : Withdraw(u) \/ \E k \in Keys : Issue(u, k) \/ Replace(u, k)

Spec == Init /\ [][Next]_<<works, spent>>

=============================================================================
