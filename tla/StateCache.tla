----------------------------- MODULE StateCache -----------------------------
(***************************************************************************)
(* What the ingestor promises: the entity rows and online flags of the     *)
(* database, as the handlers of requests find them (db/models.py 53-78).   *)
(*                                                                         *)
(* The registry underneath is represented by DeviceLifecycle, the          *)
(* specification that DeviceRegistry implements.  Each change of a row is  *)
(* one step here; Ingestor shows which messages lead to it, and that its   *)
(* steps are these.                                                        *)
(***************************************************************************)
EXTENDS Naturals

CONSTANTS
  Users, Devices, NoUser,  \* as in DeviceLifecycle
  Objects,                 \* object_ids
  NoEntity,                \* no row for this device and object
  MaxValue                 \* bound: states are numbered 1 .. MaxValue

ASSUME UserAssumption == NoUser \notin Users
ASSUME ValueAssumption == MaxValue \in Nat
ASSUME EntityAssumption == NoEntity \notin [command : {"none", "command"}, value : Nat]

Entities == Devices \X Objects

VARIABLES
  users, owner, life,  \* the registry, as in DeviceLifecycle
  cached,  \* cached[e]: the row of entity e
  online,  \* online[d]: that column of the row of device d
  state    \* state[e]: the last state that e's device has published

devices   == <<users, owner, life>>
cache     == <<cached, online>>
cacheVars == <<devices, cache, state>>

Lifecycle == INSTANCE DeviceLifecycle

Row(d)     == owner[d] # NoUser
Account(d) == life[d] \in {"live", "orphan"}
Known(e)   == cached[e] # NoEntity

\* A create holds the database's write lock.
Locked == \E d \in Devices : life[d] = "pending"

CacheInit ==
  /\ Lifecycle!Init
  /\ cached = [e \in Entities |-> NoEntity]
  /\ online = [d \in Devices |-> FALSE]
  /\ state = [e \in Entities |-> 0]

\* A row that goes takes its entities with it.
Registry ==
  /\ Lifecycle!Next
  /\ cached' = [e \in Entities |-> IF owner'[e[1]] = NoUser THEN NoEntity ELSE cached[e]]
  /\ online' = [d \in Devices |-> online[d] /\ owner'[d] # NoUser]
  /\ UNCHANGED state

\* A device reports a new state or, at the bound, its last one again.
NewState(e) ==
  /\ Account(e[1])
  /\ state' = [state EXCEPT ![e] = IF @ < MaxValue THEN @ + 1 ELSE @]

\* A device describes an entity, with a command topic in its own scope.
Discover(e, c) ==
  /\ Row(e[1])
  /\ ~Locked
  /\ cached' = [cached EXCEPT ![e] =
                  [command |-> c, value |-> IF Known(e) THEN cached[e].value ELSE 0]]
  /\ UNCHANGED <<devices, online, state>>

\* A published state replaces one that is not newer.
Refresh(e, v) ==
  /\ Known(e)
  /\ ~Locked
  /\ v \in cached[e].value .. state[e]
  /\ cached' = [cached EXCEPT ![e].value = v]
  /\ UNCHANGED <<devices, online, state>>

Switch(d, b) ==
  /\ Row(d)
  /\ ~Locked
  /\ online' = [online EXCEPT ![d] = b]
  /\ UNCHANGED <<devices, cached, state>>

CacheNext ==
  \/ Registry
  \/ \E e \in Entities : NewState(e) /\ UNCHANGED <<devices, cache>>
  \/ \E e \in Entities, c \in {"none", "command"} : Discover(e, c)
  \/ \E e \in Entities, v \in 0 .. MaxValue : Refresh(e, v)
  \/ \E d \in Devices, b \in BOOLEAN : Switch(d, b)

CacheSpec == CacheInit /\ [][CacheNext]_cacheVars

\* Types of the registry, the rows and the devices.
CacheTypeOK ==
  /\ life \in [Devices -> Lifecycle!Lives]
  /\ users \subseteq Users
  /\ owner \in [Devices -> Users \cup {NoUser}]
  /\ cached \in [Entities ->
       [command : {"none", "command"}, value : 0 .. MaxValue] \cup {NoEntity}]
  /\ online \in [Devices -> BOOLEAN]
  /\ state \in [Entities -> 0 .. MaxValue]

=============================================================================
