--------------------------- MODULE DeviceRegistry ---------------------------
(***************************************************************************)
(* The device registry: the HTTP handlers that create and delete devices   *)
(* and users (api/v1/user.py, api/v1/admin.py), the services they call     *)
(* (services/device_service.py, services/user_service.py), the SQLite      *)
(* database behind them, and the broker accounts of Provisioning.          *)
(*                                                                         *)
(* Several requests are in flight on one event loop and are interleaved at *)
(* every await.  A session reads the latest committed rows until it first  *)
(* writes; from that write to its commit or its end it holds the           *)
(* database's only write lock (writer), and any other session that wants   *)
(* to write waits for it, five seconds at most.  create_device holds the   *)
(* lock across its conversation with the broker.                           *)
(***************************************************************************)
EXTENDS Provisioning

CONSTANTS
  Users,       \* user identities
  Admins,      \* those whose is_admin is set (no code changes it)
  NoUser,      \* the owner of a device that has no committed row
  NoRequest,   \* the writer when nobody holds the write lock
  Objects,     \* object_ids of the entities devices announce
  MaxDevices   \* settings.MAX_DEVICES_PER_USER

ASSUME UserAssumption == Admins \subseteq Users /\ NoUser \notin Users
ASSUME RequestAssumption == NoRequest \notin Requests
ASSUME FiniteAssumption ==
  /\ Requests # {}
  /\ IsFiniteSet(Requests)
  /\ IsFiniteSet(Devices)
ASSUME LimitAssumption == MaxDevices \in Nat

VARIABLES
  users,      \* committed rows of table users
  owner,      \* owner[d]: user_id of the committed row of device d
  entities,   \* committed rows of table entities, <<device, object_id>>
  drawn,      \* device identities a create has drawn and flushed
  exempt,     \* those of them created with bypass_limit
  writer,     \* the request whose session holds the write lock
  pc,         \* pc[r]: where the handler of request r is, or its answer
  caller,     \* caller[r]: current_user of request r
  subject,    \* subject[r]: the user request r creates for, or deletes
  doomedDevs, \* doomedDevs[r]: devices r's unit of work will delete
  doomed      \* doomed[r]: entities r's unit of work will delete

tables   == <<users, owner, entities>>
history  == <<drawn, exempt>>
handler  == <<caller, subject, doomedDevs, doomed>>
registry == <<tables, history, writer, pc, handler>>
vars     == <<broker, target, chain, registry>>

CreateSteps == {"c_user", "c_count", "c_flush", "c_prov", "c_refresh"}
DeleteSteps == {"d_get", "d_load", "d_prov", "d_commit"}
UserSteps   == {"u_get", "u_load", "u_cascade", "u_entities", "u_commit"}
Answers     == {"idle", "201", "204", "404", "409", "500"}
Busy        == CreateSteps \cup DeleteSteps \cup UserSteps
Provisions  == {"c_prov", "d_prov"}
Writes      == {"c_flush", "d_commit", "u_commit"}

Registered     == {d \in Devices : owner[d] # NoUser}
DevicesOf(u)   == {d \in Devices : owner[d] = u}
EntitiesOf(ds) == {e \in entities : e[1] \in ds}

Init ==
  /\ ProvisioningInit
  /\ users = Users
  /\ owner = [d \in Devices |-> NoUser]
  /\ entities = {}
  /\ drawn = {}
  /\ exempt = {}
  /\ writer = NoRequest
  /\ pc = [r \in Requests |-> "idle"]
  /\ caller = [r \in Requests |-> NoUser]
  /\ subject = [r \in Requests |-> NoUser]
  /\ doomedDevs = [r \in Requests |-> {}]
  /\ doomed = [r \in Requests |-> {}]

-----------------------------------------------------------------------------
(***************************************************************************)
(* Shared pieces of the handlers.                                          *)
(***************************************************************************)
Goto(r, step) == pc' = [pc EXCEPT ![r] = step]

\* The response is sent and the session closed: whatever it had not
\* committed is rolled back, and the lock it held is free.
Answer(r, status) ==
  /\ Goto(r, status)
  /\ writer' = IF writer = r THEN NoRequest ELSE writer
  /\ caller' = [caller EXCEPT ![r] = NoUser]
  /\ subject' = [subject EXCEPT ![r] = NoUser]
  /\ target' = [target EXCEPT ![r] = NoDevice]
  /\ doomedDevs' = [doomedDevs EXCEPT ![r] = {}]
  /\ doomed' = [doomed EXCEPT ![r] = {}]
  /\ command' = [command EXCEPT ![r] = "none"]
  /\ UNCHANGED <<broker, link, heard>>

\* The audit entry of an outcome is written before the answer; when the
\* writing raises, the answer is another one and the outcome remains.
Reported(r, status) == \E s \in {status, "500"} : Answer(r, s)

StartChain(r, c) ==
  /\ command' = [command EXCEPT ![r] = c]
  /\ UNCHANGED <<broker, link, heard>>

\* get_current_user has resolved the key, require_ownership_or_admin has
\* compared the caller with the user in the path.
Authorised(u, p) == u \in users /\ (u \in Admins \/ u = p)

-----------------------------------------------------------------------------
(***************************************************************************)
(* POST /user/{p}/devices                                                  *)
(***************************************************************************)
\* The bound: no more creates are started than identities are left.
IdentitiesLeft ==
  Cardinality(Devices \ drawn) >
    Cardinality({q \in Requests : pc[q] \in {"c_user", "c_count", "c_flush"}})

StartCreate(r, u, p) ==
  /\ pc[r] \in Answers
  /\ Authorised(u, p)
  /\ IdentitiesLeft
  /\ Goto(r, "c_user")
  /\ caller' = [caller EXCEPT ![r] = u]
  /\ subject' = [subject EXCEPT ![r] = p]
  /\ UNCHANGED <<broker, target, chain, tables, history, writer, doomedDevs, doomed>>

\* select(User): an absent user is a ValueError; an admin is not counted.
SelectUser(r) ==
  /\ pc[r] = "c_user"
  /\ IF subject[r] \in users
       THEN /\ Goto(r, IF caller[r] \in Admins THEN "c_flush" ELSE "c_count")
            /\ UNCHANGED <<broker, target, chain, writer, handler>>
       ELSE Reported(r, "404")
  /\ UNCHANGED <<tables, history>>

\* Mutant: off by one.
OverLimitByOne(u) == Cardinality(DevicesOf(u)) > MaxDevices

OverLimit(u) == Cardinality(DevicesOf(u)) >= MaxDevices

\* select(count): rows of other sessions count only once committed.
CountDevices(r) ==
  /\ pc[r] = "c_count"
  /\ IF OverLimit(subject[r])
       THEN Reported(r, "409")
       ELSE /\ Goto(r, "c_flush")
            /\ UNCHANGED <<broker, target, chain, writer, handler>>
  /\ UNCHANGED <<tables, history>>

\* session.flush(): the INSERT takes the write lock; a user deleted since
\* select(User) violates the foreign key.
Flush(r) ==
  /\ pc[r] = "c_flush"
  /\ writer = NoRequest
  /\ IF subject[r] \in users
       THEN \E d \in Devices \ drawn :
              /\ drawn' = drawn \cup {d}
              /\ exempt' = IF caller[r] \in Admins THEN exempt \cup {d} ELSE exempt
              /\ target' = [target EXCEPT ![r] = d]
              /\ writer' = r
              /\ StartChain(r, "createRole")
              /\ Goto(r, "c_prov")
              /\ UNCHANGED handler
       ELSE Answer(r, "500") /\ UNCHANGED history
  /\ UNCHANGED tables

\* create_device_account returned; the row becomes visible with its owner.
Commit(r) ==
  /\ pc[r] = "c_prov"
  /\ command[r] = "returned"
  /\ owner' = [owner EXCEPT ![target[r]] = subject[r]]
  /\ writer' = NoRequest
  /\ StartChain(r, "none")
  /\ Goto(r, "c_refresh")
  /\ UNCHANGED <<target, users, entities, history, handler>>

\* session.refresh(device) raises when the row is already gone again.
Refresh(r) ==
  /\ pc[r] = "c_refresh"
  /\ IF target[r] \in Registered THEN Reported(r, "201") ELSE Answer(r, "500")
  /\ UNCHANGED <<tables, history>>

-----------------------------------------------------------------------------
(***************************************************************************)
(* DELETE /user/{p}/devices/{d}                                            *)
(***************************************************************************)
StartDelete(r, u, d) ==
  /\ pc[r] \in Answers
  /\ u \in users
  /\ d \in drawn
  /\ Goto(r, "d_get")
  /\ caller' = [caller EXCEPT ![r] = u]
  /\ target' = [target EXCEPT ![r] = d]
  /\ UNCHANGED <<broker, chain, tables, history, writer, subject, doomedDevs, doomed>>

\* The handler shows a device to its owner only, whoever the caller is.
GetDevice(r) ==
  /\ pc[r] = "d_get"
  /\ IF owner[target[r]] = caller[r]
       THEN /\ Goto(r, "d_load")
            /\ UNCHANGED <<broker, target, chain, writer, handler>>
       ELSE Answer(r, "404")
  /\ UNCHANGED <<tables, history>>

\* delete_device selects the row again and returns silently without one.
LoadDevice(r) ==
  /\ pc[r] = "d_load"
  /\ IF target[r] \in Registered
       THEN /\ Goto(r, "d_prov")
            /\ StartChain(r, "deleteClient")
            /\ UNCHANGED <<target, writer, handler>>
       ELSE Reported(r, "204")
  /\ UNCHANGED <<tables, history>>

\* Mutant: delete_device_account is started but not awaited.
CascadeUnawaited(r) ==
  /\ pc[r] = "d_prov"
  /\ doomed' = [doomed EXCEPT ![r] = EntitiesOf({target[r]})]
  /\ StartChain(r, "none")
  /\ Goto(r, "d_commit")
  /\ UNCHANGED <<target, tables, history, writer, caller, subject, doomedDevs>>

\* session.delete(device) loads the entities it will delete with it.
Cascade(r) ==
  /\ pc[r] = "d_prov"
  /\ command[r] = "returned"
  /\ doomed' = [doomed EXCEPT ![r] = EntitiesOf({target[r]})]
  /\ StartChain(r, "none")
  /\ Goto(r, "d_commit")
  /\ UNCHANGED <<target, tables, history, writer, caller, subject, doomedDevs>>

\* Mutant: the tables have no foreign keys.
UnknownIgnored(r, ds) == {}

\* Entity rows the unit of work does not know keep their device's row.
Unknown(r, ds) == EntitiesOf(ds) \ doomed[r]

CommitDelete(r) ==
  /\ pc[r] = "d_commit"
  /\ writer = NoRequest
  /\ IF Unknown(r, {target[r]}) = {}
       THEN /\ owner' = [owner EXCEPT ![target[r]] = NoUser]
            /\ entities' = entities \ doomed[r]
            /\ Reported(r, "204")
       ELSE Answer(r, "500") /\ UNCHANGED <<owner, entities>>
  /\ UNCHANGED <<users, history>>

-----------------------------------------------------------------------------
(***************************************************************************)
(* DELETE /admin/users/{p}                                                 *)
(***************************************************************************)
StartDeleteUser(r, u, p) ==
  /\ pc[r] \in Answers
  /\ u \in users \cap Admins
  /\ Goto(r, "u_get")
  /\ caller' = [caller EXCEPT ![r] = u]
  /\ subject' = [subject EXCEPT ![r] = p]
  /\ UNCHANGED <<broker, target, chain, tables, history, writer, doomedDevs, doomed>>

GetUser(r) ==
  /\ pc[r] = "u_get"
  /\ IF subject[r] \in users
       THEN /\ Goto(r, "u_load")
            /\ UNCHANGED <<broker, target, chain, writer, handler>>
       ELSE Answer(r, "404")
  /\ UNCHANGED <<tables, history>>

\* delete_user selects the row again and returns silently without one.
LoadUser(r) ==
  /\ pc[r] = "u_load"
  /\ IF subject[r] \in users
       THEN /\ Goto(r, "u_cascade")
            /\ UNCHANGED <<broker, target, chain, writer, handler>>
       ELSE Reported(r, "204")
  /\ UNCHANGED <<tables, history>>

\* session.delete(user) loads the user's devices ...
CascadeUser(r) ==
  /\ pc[r] = "u_cascade"
  /\ doomedDevs' = [doomedDevs EXCEPT ![r] = DevicesOf(subject[r])]
  /\ Goto(r, "u_entities")
  /\ UNCHANGED <<broker, target, chain, tables, history, writer, caller, subject, doomed>>

\* ... and then their entities, with one SELECT per device.  One step stands
\* for them all: the commit asks only whether an entity arrived after the
\* SELECT of its device, and a commit that finds one is the commit after a
\* step at the first SELECT, a commit that finds none after one at the last.
CascadeEntities(r) ==
  /\ pc[r] = "u_entities"
  /\ doomed' = [doomed EXCEPT ![r] = EntitiesOf(doomedDevs[r])]
  /\ Goto(r, "u_commit")
  /\ UNCHANGED <<broker, target, chain, tables, history, writer, caller, subject, doomedDevs>>

\* A device or entity row that arrived after the cascade was loaded keeps
\* the user: the foreign keys refuse the delete.  No account is revoked.
CommitDeleteUser(r) ==
  /\ pc[r] = "u_commit"
  /\ writer = NoRequest
  /\ IF DevicesOf(subject[r]) \subseteq doomedDevs[r] /\ Unknown(r, doomedDevs[r]) = {}
       THEN /\ users' = users \ {subject[r]}
            /\ owner' = [d \in Devices |->
                           IF d \in doomedDevs[r] THEN NoUser ELSE owner[d]]
            /\ entities' = entities \ doomed[r]
            /\ Reported(r, "204")
       ELSE Answer(r, "500") /\ UNCHANGED tables
  /\ UNCHANGED history

-----------------------------------------------------------------------------
\* create_device_account or delete_device_account raised.
Abort(r) ==
  /\ pc[r] \in Provisions
  /\ command[r] = "raised"
  /\ Answer(r, "500")
  /\ UNCHANGED <<tables, history>>

\* "database is locked": the write lock was not free within five seconds.
BusyTimeout(r) ==
  /\ pc[r] \in Writes
  /\ writer # NoRequest
  /\ Answer(r, "500")
  /\ UNCHANGED <<tables, history>>

Handle(r) ==
  \/ SelectUser(r) \/ CountDevices(r) \/ Flush(r) \/ Commit(r) \/ Refresh(r)
  \/ GetDevice(r) \/ LoadDevice(r) \/ Cascade(r) \/ CommitDelete(r)
  \/ GetUser(r) \/ LoadUser(r) \/ CascadeUser(r) \/ CascadeEntities(r)
  \/ CommitDeleteUser(r) \/ Abort(r) \/ BusyTimeout(r)

Arrive(r) ==
  \/ \E u, p \in Users : StartCreate(r, u, p) \/ StartDeleteUser(r, u, p)
  \/ \E u \in Users, d \in Devices : StartDelete(r, u, d)

\* The state ingestor commits an entity a registered device announces.
DiscoverEntity(d, o) ==
  /\ writer = NoRequest
  /\ d \in Registered
  /\ entities' = entities \cup {<<d, o>>}
  /\ UNCHANGED <<broker, target, chain, users, owner, history, writer, pc, handler>>

\* The gateway process dies and is restarted.  Committed rows and broker
\* accounts survive; every request and its transaction is lost.
Crash ==
  /\ writer' = NoRequest
  /\ pc' = [r \in Requests |-> "idle"]
  /\ caller' = [r \in Requests |-> NoUser]
  /\ subject' = [r \in Requests |-> NoUser]
  /\ target' = [r \in Requests |-> NoDevice]
  /\ doomedDevs' = [r \in Requests |-> {}]
  /\ doomed' = [r \in Requests |-> {}]
  /\ command' = [r \in Requests |-> "none"]
  /\ link' = [r \in Requests |-> "down"]
  /\ heard' = [r \in Requests |-> "nothing"]
  /\ UNCHANGED <<broker, tables, history>>

Step(r) ==
  \/ Handle(r)
  \/ ProvisionStep(r) /\ UNCHANGED registry

Next ==
  \/ \E r \in Requests : Arrive(r) \/ Step(r)
  \/ \E r \in Requests : ProvisionFault(r) /\ UNCHANGED registry
  \/ \E d \in Devices, o \in Objects : DiscoverEntity(d, o)
  \/ Crash

Spec == Init /\ [][Next]_vars

\* The event loop runs every ready handler, and the three timeouts (reply,
\* connection, database lock) make every waiting one ready.
FairSpec == Spec /\ \A r \in Requests : WF_vars(Step(r))

-----------------------------------------------------------------------------
(***************************************************************************)
(* Properties.                                                             *)
(***************************************************************************)

TablesTypeOK ==
  /\ users \subseteq Users
  /\ owner \in [Devices -> Users \cup {NoUser}]
  /\ entities \subseteq Devices \X Objects
  /\ drawn \subseteq Devices
  /\ exempt \subseteq drawn

HandlersTypeOK ==
  /\ writer \in Requests \cup {NoRequest}
  /\ pc \in [Requests -> Answers \cup Busy]
  /\ caller \in [Requests -> Users \cup {NoUser}]
  /\ subject \in [Requests -> Users \cup {NoUser}]
  /\ doomedDevs \in [Requests -> SUBSET Devices]
  /\ doomed \in [Requests -> SUBSET (Devices \X Objects)]

\* Which parts of a request's state belong together: a chain of commands
\* runs only in c_prov and d_prov, an answered request keeps nothing, and
\* only a create holds the write lock from one step to the next.
Coherent(r) ==
  /\ pc[r] \in Provisions <=> command[r] # "none"
  /\ pc[r] \in Busy <=> caller[r] # NoUser
  /\ pc[r] \in CreateSteps \cup UserSteps <=> subject[r] # NoUser
  /\ pc[r] \in DeleteSteps \cup {"c_prov", "c_refresh"} <=> target[r] # NoDevice
  /\ pc[r] = "c_prov" <=> writer = r

\* Types, and the coherence of every request slot.
TypeOK ==
  /\ ProvisioningTypeOK
  /\ TablesTypeOK
  /\ HandlersTypeOK
  /\ \A r \in Requests : Coherent(r)

\* The tables' foreign keys (db/models.py 44 and 65, enforced by the pragma
\* of db/base.py 29): no device outlives its user, no entity its device,
\* whatever the unit of work of a delete had loaded when it started.
ForeignKeys ==
  /\ \A d \in Devices : owner[d] \in users \cup {NoUser}
  /\ \A e \in entities : e[1] \in Registered

\* create_device counts (line 35) and inserts (line 54) in two statements
\* with awaits between, so the limit on a user's devices can be passed, but
\* only by the requests that counted before the others committed: devices
\* that exist and devices that requests are already allowed to create are
\* never more than MaxDevices plus all request slots but one.
Admitted(u) ==
  {r \in Requests : /\ pc[r] \in {"c_flush", "c_prov"}
                    /\ subject[r] = u
                    /\ caller[r] \notin Admins}

OvershootBounded ==
  \A u \in Users :
    Cardinality(DevicesOf(u) \ exempt) + Cardinality(Admitted(u))
      <= MaxDevices + Cardinality(Requests) - 1

\* create_device commits a device (line 59) only with its role and its
\* account in place: credentials handed to a user work.
CommitOnlyProvisioned ==
  \A r \in Requests :
    pc[r] = "c_prov" /\ command[r] = "returned" => target[r] \in roles \cap clients

\* delete_device removes a row (line 100) only after the account is revoked
\* (line 98), unless the user goes with it: no deleted device can still log
\* in at the broker while its owner uses the gateway.
RemovesRevoked ==
  \A d \in Devices :
    owner[d] # NoUser /\ owner'[d] = NoUser =>
      d \notin clients \/ owner[d] \notin users'

RevokedBeforeRemoved == [][RemovesRevoked]_vars

\* A device delete answered 204 (api/v1/user.py 201) has removed the row and
\* the account, or the caller's whole user was removed meanwhile.
ConfirmsGone ==
  \A r \in Requests :
    pc[r] \in DeleteSteps /\ pc'[r] = "204" =>
      /\ target[r] \notin Registered'
      /\ target[r] \notin clients' \/ caller[r] \notin users'

DeletedMeansGone == [][ConfirmsGone]_vars

\* Every request is answered: the three timeouts of the code end every wait
\* for the broker, for a reply and for the database's write lock.
RequestsTerminate ==
  \A r \in Requests : pc[r] \in Busy ~> pc[r] \notin Busy

\* The registry and the broker, taken together, implement the life of each
\* device in DeviceLifecycle.
Pending(d) == \E r \in Requests : pc[r] = "c_prov" /\ target[r] = d

life ==
  [d \in Devices |->
     IF d \notin drawn THEN "fresh"
     ELSE IF d \in Registered THEN IF d \in clients THEN "live" ELSE "disabled"
     ELSE IF Pending(d) THEN "pending"
     ELSE IF d \in clients THEN "orphan" ELSE "gone"]

Lifecycle == INSTANCE DeviceLifecycle WITH life <- life

ImplementsLifecycle == Lifecycle!Spec

=============================================================================
