------------------------- MODULE RegistryInvariant -------------------------
(***************************************************************************)
(* The inductive invariant behind the safety properties of DeviceRegistry. *)
(*                                                                         *)
(* Ownership says which requests may touch which device: the device of the *)
(* one create that holds the write lock is nobody else's, because every    *)
(* other request past its ownership check works on a device whose row was  *)
(* committed before.  It holds whatever the broker does.                   *)
(*                                                                         *)
(* Honest says that a chain of commands knows what it has done at the      *)
(* broker.  It needs Trustworthy: a request that reads "ok" can conclude   *)
(* that its own command was executed only if replies are not shared, or if *)
(* the broker never turns an acceptable command down.                      *)
(***************************************************************************)
EXTENDS DeviceRegistry

Trustworthy == ~(SharedReplies /\ MayReject)

\* A device that was committed at some time: not, or no longer, a create's.
Settled(d) == d \in drawn /\ ~Pending(d)

PastCheck == {"d_load", "d_prov", "d_commit"}

Ownership ==
  /\ roles \cup clients \cup Registered \subseteq drawn
  /\ ForeignKeys
  /\ \A r \in Requests :
       /\ target[r] \in drawn \cup {NoDevice}
       /\ pc[r] = "c_prov" =>
            /\ target[r] \notin Registered
            /\ subject[r] \in users
            /\ command[r] \in {"createRole", "createClient"} \cup Outcomes
       /\ pc[r] = "d_prov" =>
            command[r] \in {"deleteClient", "deleteRole"} \cup Outcomes
       /\ pc[r] \in PastCheck => Settled(target[r])
       /\ pc[r] \in {"u_entities", "u_commit"} =>
            \A d \in doomedDevs[r] : Settled(d) /\ owner[d] \in {subject[r], NoUser}

\* What holds at the broker before command c for device d is published ...
Before(c, d) ==
  /\ c = "createRole" => d \notin roles \cup clients
  /\ c = "createClient" => d \in roles \ clients
  /\ c = "deleteRole" => d \notin clients

\* ... and after it was executed.
After(c, d) ==
  /\ c = "createRole" => d \in roles \ clients
  /\ c = "createClient" => d \in roles \cap clients
  /\ c \in {"deleteClient", "deleteRole"} => d \notin clients

Honest(r) ==
  /\ link[r] # "waiting" \/ command[r] = "deleteRole" => Before(command[r], target[r])
  /\ link[r] = "waiting" /\ heard[r] = "ok" => After(command[r], target[r])
  /\ link[r] = "waiting" /\ heard[r] = "nothing" => MayReject
  /\ link[r] = "subscribed" /\ heard[r] # "nothing" => SharedReplies
  /\ pc[r] = "c_prov" /\ command[r] = "returned" => target[r] \in roles \cap clients
  /\ pc[r] = "d_prov" /\ command[r] = "returned" => target[r] \notin clients
  /\ pc[r] = "d_commit" => target[r] \notin clients
  /\ pc[r] \in PastCheck /\ owner[target[r]] # caller[r] =>
       /\ target[r] \notin Registered
       /\ target[r] \notin clients \/ caller[r] \notin users

\* A device is exempt from the limit exactly if an admin's create made it.
Exemption ==
  \A r \in Requests :
    pc[r] = "c_prov" => (target[r] \in exempt <=> caller[r] \in Admins)

Inv == TypeOK /\ Ownership /\ Exemption /\ \A r \in Requests : Honest(r)

-----------------------------------------------------------------------------
(***************************************************************************)
(* The measure behind RequestsTerminate: how many steps a request has left *)
(* before it is answered, at most.                                         *)
(***************************************************************************)
ChainLeft(c, l) ==
  IF c \notin Commands THEN 0
  ELSE (IF c \in {"createRole", "deleteClient"} THEN 3 ELSE 0)
       + (CASE l = "down" -> 3 [] l = "subscribed" -> 2 [] OTHER -> 1)

HandlerLeft(step) ==
  CASE step = "c_user" -> 11
    [] step \in {"c_count", "d_get"} -> 10
    [] step \in {"c_flush", "d_load"} -> 9
    [] step = "u_get" -> 5
    [] step = "u_load" -> 4
    [] step = "u_cascade" -> 3
    [] step \in {"c_prov", "d_prov", "u_entities"} -> 2
    [] step \in {"c_refresh", "d_commit", "u_commit"} -> 1
    [] OTHER -> 0

StepsLeft(r) == HandlerLeft(pc[r]) + ChainLeft(command[r], link[r])

\* Nothing that others do takes a request back, and each step of its own brings
\* it nearer to its answer.
Converges ==
  \A r \in Requests : pc[r] \in Busy =>
    /\ StepsLeft(r)' <= StepsLeft(r)
    /\ Step(r) => StepsLeft(r)' < StepsLeft(r)

\* No request goes on for ever: the handlers have no loop and no retry, and
\* delete_device_account does not start again after a failing deleteRole.
NoWayBack == [][Converges]_vars

=============================================================================
