-------------------------- MODULE StateCacheProofs --------------------------
(***************************************************************************)
(* Lemmas about the registry and the cache that Ingestor and Commands      *)
(* build on.                                                               *)
(***************************************************************************)
EXTENDS StateCache, TLAPS

USE UserAssumption, ValueAssumption, EntityAssumption

\* A device that has an owner has been registered.
Registered == \A d \in Devices : owner[d] # NoUser => life[d] \in {"live", "disabled"}

\* A step of the registry keeps every type, and a device that has been
\* registered is not drawn or registered again.
LEMMA RegistryStep ==
  ASSUME CacheTypeOK, Registered,
         Lifecycle!Next
  PROVE /\ users' \subseteq Users
        /\ owner' \in [Devices -> Users \cup {NoUser}]
        /\ life' \in [Devices -> Lifecycle!Lives]
        /\ Registered'
        /\ \A d \in Devices : life[d] \notin {"fresh", "pending"} =>
             life'[d] \notin {"fresh", "pending"} /\ owner'[d] \in {owner[d], NoUser}
<1> USE DEF Registered, CacheTypeOK, Lifecycle!Lives, Lifecycle!Becomes
<1>1. CASE \E d \in Devices : Lifecycle!Reserve(d)
  BY <1>1 DEF Lifecycle!Reserve
<1>2. CASE \E d \in Devices : Lifecycle!Abandon(d)
  BY <1>2 DEF Lifecycle!Abandon
<1>3. CASE \E d \in Devices : Lifecycle!Disable(d)
  BY <1>3 DEF Lifecycle!Disable
<1>4. CASE \E d \in Devices : Lifecycle!Retire(d)
  BY <1>4 DEF Lifecycle!Retire
<1>5. CASE \E d \in Devices : Lifecycle!Purge(d)
  BY <1>5 DEF Lifecycle!Purge
<1>6. CASE \E d \in Devices, u \in Users : Lifecycle!Enable(d, u)
  BY <1>6 DEF Lifecycle!Enable
<1>7. CASE \E u \in Users : Lifecycle!RemoveUser(u)
  BY <1>7 DEF Lifecycle!RemoveUser
<1>8. QED
  BY <1>1, <1>2, <1>3, <1>4, <1>5, <1>6, <1>7 DEF Lifecycle!Next

\* A row of the cache keeps its type whatever the ingestor commits.
LEMMA CacheStep ==
  ASSUME CacheTypeOK, Registered,
         CacheNext
  PROVE CacheTypeOK'
<1> USE DEF CacheTypeOK, Entities
<1>1. CASE Registry
  BY <1>1, RegistryStep DEF Registry
<1>2. CASE \E e \in Entities : NewState(e) /\ UNCHANGED <<devices, cache>>
  BY <1>2 DEF NewState, devices, cache
<1>3. CASE \E e \in Entities, c \in {"none", "command"} : Discover(e, c)
  BY <1>3 DEF Discover, devices, Known
<1>4. CASE \E e \in Entities, v \in 0 .. MaxValue : Refresh(e, v)
  BY <1>4 DEF Refresh, devices, Known
<1>5. CASE \E d \in Devices, b \in BOOLEAN : Switch(d, b)
  BY <1>5 DEF Switch, devices
<1>6. QED
  BY <1>1, <1>2, <1>3, <1>4, <1>5 DEF CacheNext

=============================================================================
