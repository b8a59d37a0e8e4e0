--------------------------- MODULE CommandsProofs ---------------------------
(***************************************************************************)
(* Proofs of the safety properties of Commands, for any users, devices and *)
(* objects.                                                                *)
(*                                                                         *)
(* The properties are about what a request read several steps ago, so the  *)
(* invariant carries each thing read along: the device that GetDevice      *)
(* accepted has been registered, and as an identity is never registered    *)
(* twice its owner can only have become nobody since.                      *)
(***************************************************************************)
EXTENDS Commands, StateCacheProofs

USE UserAssumption, ValueAssumption, EntityAssumption DEF Registered

Accepted == Steps \ {"idle", "get_device"}

Held ==
  /\ Registered
  /\ step \in Accepted =>
       /\ life[asked] \notin {"fresh", "pending"}
       /\ owner[asked] \in {caller, NoUser}
  /\ step \in {"send", "publish"} \/ (step = "answer" /\ route = "show_entity") =>
       chosen[1] = asked
  /\ step = "publish" => topic = "command"
  /\ step = "send" => route = "command"
  /\ step \in {"list", "load", "commit", "refresh"} => route # "show_entity"

\* What a request has read stays true of the device it read it from.
LEMMA NextHeld == TypeOK /\ Held /\ [Next]_vars => TypeOK' /\ Held'
<1> SUFFICES ASSUME TypeOK, Held, [Next]_vars PROVE TypeOK' /\ Held'
  OBVIOUS
<1> USE DEF TypeOK, Held, Accepted, Steps, Routes
<1>1. CASE CacheNext /\ UNCHANGED <<renamed, request>>
  <2>1. CacheTypeOK'
    BY <1>1, CacheStep
  <2>2. CASE Registry
    <3>1. /\ \A d \in Devices : owner'[d] # NoUser => life'[d] \in {"live", "disabled"}
          /\ \A d \in Devices : life[d] \notin {"fresh", "pending"} =>
               life'[d] \notin {"fresh", "pending"} /\ owner'[d] \in {owner[d], NoUser}
      BY <2>2, RegistryStep DEF Registry
    <3>2. QED
      BY <1>1, <2>1, <3>1 DEF request
  <2>3. CASE UNCHANGED devices
    BY <1>1, <2>1, <2>3 DEF request, devices
  <2>4. QED
    BY <1>1, <2>2, <2>3 DEF CacheNext, NewState, Discover, Refresh, Switch, devices
<1>2. CASE UNCHANGED cacheVars /\ \E q \in Routes, u \in Users, d \in Devices, e \in Entities : Start(q, u, d, e)
  BY <1>2 DEF Start, cacheVars, devices, cache, CacheTypeOK
<1>3. CASE UNCHANGED cacheVars /\ Handle
  <2> USE DEF cacheVars, devices, cache, CacheTypeOK, Finish, Goto
  <2>1. CASE GetDevice
    <3>1. route \in Routes
      BY <2>1 DEF GetDevice
    <3>2. /\ Second[route] \in {"answer", "list", "get_entity", "load"}
          /\ Second[route] = "answer" => route = "show_device"
          /\ Second[route] \in {"list", "load"} => route # "show_entity"
      BY <3>1 DEF Second
    <3>3. QED
      BY <1>3, <2>1, <3>2 DEF GetDevice, Owns
  <2>2. CASE GetEntity
    <3>1. Belongs(chosen, asked) => cached[chosen].command \in {"none", "command"}
      BY DEF Belongs, Known
    <3>2. QED
      BY <1>3, <2>2, <3>1 DEF GetEntity, Belongs
  <2>3. CASE Reject \/ Publish \/ Show \/ BusyTimeout
    BY <1>3, <2>3 DEF Reject, Publish, Show, BusyTimeout
  <2>4. CASE Accept
    BY <1>3, <2>4 DEF Accept
  <2>5. CASE ListEntities \/ KeepName
    BY <1>3, <2>5 DEF ListEntities, KeepName
  <2>6. CASE LoadDevice \/ Refreshed
    BY <1>3, <2>6 DEF LoadDevice, Refreshed
  <2>7. CASE CommitName
    BY <1>3, <2>7 DEF CommitName
  <2>8. QED
    BY <1>3, <2>1, <2>2, <2>3, <2>4, <2>5, <2>6, <2>7 DEF Handle
<1>4. CASE UNCHANGED cacheVars /\ Restart
  BY <1>4 DEF Restart, Finish, cacheVars, devices, cache, CacheTypeOK
<1>5. CASE UNCHANGED vars
  BY <1>5 DEF vars, cacheVars, request, devices, cache, CacheTypeOK
<1>6. QED
  BY <1>1, <1>2, <1>3, <1>4, <1>5 DEF Next

\* Before the first request nothing has been read, and no device has an owner.
LEMMA InitHeld == Init => TypeOK /\ Held
<1> SUFFICES ASSUME Init PROVE TypeOK /\ Held
  OBVIOUS
<1> USE DEF Init, CacheInit, Lifecycle!Init
<1>1. life \in [Devices -> Lifecycle!Lives] /\ owner \in [Devices -> Users \cup {NoUser}]
  BY DEF Lifecycle!Lives
<1>2. /\ cached \in [Entities ->
            [command : {"none", "command"}, value : 0 .. MaxValue] \cup {NoEntity}]
      /\ online \in [Devices -> BOOLEAN]
      /\ state \in [Entities -> 0 .. MaxValue]
  OBVIOUS
<1>3. CacheTypeOK
  BY <1>1, <1>2 DEF CacheTypeOK
<1>4. TypeOK
  BY <1>3 DEF TypeOK, Steps, Routes
<1>5. Held
  BY DEF Held, Accepted
<1>6. QED
  BY <1>4, <1>5

\* Every state is well typed, and what a request has read is kept exactly as
\* long as the handler uses it.
THEOREM TypeCorrect == Spec => []TypeOK
<1>1. QED
  BY InitHeld, NextHeld, PTL DEF Spec

\* No command is published and no row shown outside the caller's own device,
\* whatever deletes, registrations and discovery messages come between the
\* handler's reads.
THEOREM OwnDevicesOnlyHolds == Spec => []OwnDevicesOnly
<1>1. TypeOK /\ Held => OwnDevicesOnly
  BY DEF TypeOK, Steps, Held, Accepted, OwnDevicesOnly
<1>2. QED
  BY InitHeld, NextHeld, <1>1, PTL DEF Spec

\* A device is renamed only while it belongs to the caller.
THEOREM OnlyOwnersRenameHolds == Spec => OnlyOwnersRename
<1>1. ASSUME TypeOK, Held, [Next]_vars
      PROVE [\A d \in Devices : d \in renamed' /\ d \notin renamed => owner[d] = caller]_vars
  <2>1. CASE CommitName
    BY <1>1, <2>1 DEF CommitName, TypeOK, Held, Accepted, Steps, Row
  <2>2. CASE UNCHANGED renamed
    BY <2>2
  <2>3. QED
    BY <1>1, <2>1, <2>2 DEF Next, Start, Handle, GetDevice, GetEntity, ListEntities, Show,
      LoadDevice, KeepName, BusyTimeout, Refreshed, Reject, Accept, Publish, Restart, vars
<1>2. QED
  BY InitHeld, NextHeld, <1>1, PTL DEF Spec, OnlyOwnersRename

=============================================================================
