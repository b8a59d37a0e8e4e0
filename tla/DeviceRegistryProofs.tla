------------------------ MODULE DeviceRegistryProofs ------------------------
(***************************************************************************)
(* Proofs of the safety properties of DeviceRegistry, for any finite sets  *)
(* of requests and devices and any users, objects and limit.               *)
(*                                                                         *)
(* Types and Ownership are invariants whatever the broker does, and with   *)
(* them the foreign keys and the bound on the device limit's overshoot.    *)
(* What is said of broker accounts also needs Honest, and that needs       *)
(* Trustworthy: either every request hears only its own reply, or the      *)
(* broker carries out every command that it could.                         *)
(***************************************************************************)
EXTENDS RegistryInvariant, FiniteSetTheorems, TLAPS

USE NoDeviceAssumption, UserAssumption, RequestAssumption

\* The empty gateway is well typed.
LEMMA InitType == Init => TypeOK
BY DEF Init, ProvisioningInit, TypeOK, ProvisioningTypeOK, TablesTypeOK,
  HandlersTypeOK, Coherent, Commands, Outcomes, Replies, Answers, Busy,
  CreateSteps, DeleteSteps, UserSteps, Provisions

\* Sending a response leaves a well-typed slot, whichever handler sends it.
LEMMA AnswerType ==
  ASSUME TypeOK, TablesTypeOK', NEW r \in Requests, link[r] = "down",
         NEW status \in Answers, Answer(r, status)
  PROVE TypeOK'
BY DEF Answer, Goto, broker, TypeOK, ProvisioningTypeOK, HandlersTypeOK,
  Coherent, Commands, Outcomes, Replies, Answers, Busy, CreateSteps,
  DeleteSteps, UserSteps, Provisions

\* Types and the coherence of the slots are inductive on their own.
LEMMA NextType == TypeOK /\ [Next]_vars => TypeOK'
<1> SUFFICES ASSUME TypeOK, [Next]_vars PROVE TypeOK'
  OBVIOUS
<1> USE DEF TypeOK, ProvisioningTypeOK, TablesTypeOK, HandlersTypeOK, Coherent,
  Commands, Outcomes, Replies, Answers, Busy, CreateSteps, DeleteSteps,
  UserSteps, Provisions, Writes, broker, chain, tables, history, handler, registry
<1>1. ASSUME NEW r \in Requests, Arrive(r) PROVE TypeOK'
  <2>1. CASE \E u, p \in Users : StartCreate(r, u, p)
    BY <2>1 DEF StartCreate, Authorised, Goto
  <2>2. CASE \E u, p \in Users : StartDeleteUser(r, u, p)
    BY <2>2 DEF StartDeleteUser, Goto
  <2>3. CASE \E u \in Users, d \in Devices : StartDelete(r, u, d)
    BY <2>3 DEF StartDelete, Goto
  <2>4. QED
    BY <1>1, <2>1, <2>2, <2>3 DEF Arrive
<1>2. ASSUME NEW r \in Requests, Handle(r) PROVE TypeOK'
  <2>1. CASE SelectUser(r)
    <3>0. link[r] = "down" /\ TablesTypeOK'
      BY <2>1 DEF SelectUser
    <3>1. CASE subject[r] \in users
      BY <2>1, <3>1 DEF SelectUser, Goto, StartChain
    <3>2. CASE ~(subject[r] \in users)
      BY <2>1, <3>0, <3>2, AnswerType DEF SelectUser, Reported
    <3>3. QED
      BY <3>1, <3>2
  <2>2. CASE CountDevices(r)
    <3>0. link[r] = "down" /\ TablesTypeOK'
      BY <2>2 DEF CountDevices
    <3>1. CASE ~OverLimit(subject[r])
      BY <2>2, <3>1 DEF CountDevices, Goto, StartChain
    <3>2. CASE ~(~OverLimit(subject[r]))
      BY <2>2, <3>0, <3>2, AnswerType DEF CountDevices, Reported
    <3>3. QED
      BY <3>1, <3>2
  <2>3. CASE Flush(r)
    <3>0. link[r] = "down" /\ TablesTypeOK'
      BY <2>3 DEF Flush
    <3>1. CASE subject[r] \in users
      BY <2>3, <3>1 DEF Flush, Goto, StartChain
    <3>2. CASE subject[r] \notin users
      BY <2>3, <3>0, <3>2, AnswerType DEF Flush
    <3>3. QED
      BY <3>1, <3>2
  <2>4. CASE Commit(r)
    BY <2>4 DEF Commit, Goto, StartChain
  <2>5. CASE Refresh(r)
    <3>1. link[r] = "down" /\ TablesTypeOK'
      BY <2>5 DEF Refresh
    <3>2. \E status \in Answers : Answer(r, status)
      BY <2>5 DEF Refresh, Reported
    <3>3. QED
      BY <3>1, <3>2, AnswerType
  <2>6. CASE GetDevice(r)
    <3>0. link[r] = "down" /\ TablesTypeOK'
      BY <2>6 DEF GetDevice
    <3>1. CASE owner[target[r]] = caller[r]
      BY <2>6, <3>1 DEF GetDevice, Goto, StartChain
    <3>2. CASE ~(owner[target[r]] = caller[r])
      BY <2>6, <3>0, <3>2, AnswerType DEF GetDevice
    <3>3. QED
      BY <3>1, <3>2
  <2>7. CASE LoadDevice(r)
    <3>0. link[r] = "down" /\ TablesTypeOK'
      BY <2>7 DEF LoadDevice
    <3>1. CASE target[r] \in Registered
      BY <2>7, <3>1 DEF LoadDevice, Goto, StartChain
    <3>2. CASE ~(target[r] \in Registered)
      BY <2>7, <3>0, <3>2, AnswerType DEF LoadDevice, Reported
    <3>3. QED
      BY <3>1, <3>2
  <2>8. CASE Cascade(r)
    BY <2>8 DEF Cascade, Goto, StartChain, EntitiesOf
  <2>9. CASE CommitDelete(r)
    <3>1. link[r] = "down" /\ TablesTypeOK'
      BY <2>9 DEF CommitDelete
    <3>2. \E status \in Answers : Answer(r, status)
      BY <2>9 DEF CommitDelete, Reported
    <3>3. QED
      BY <3>1, <3>2, AnswerType
  <2>10. CASE GetUser(r)
    <3>0. link[r] = "down" /\ TablesTypeOK'
      BY <2>10 DEF GetUser
    <3>1. CASE subject[r] \in users
      BY <2>10, <3>1 DEF GetUser, Goto, StartChain
    <3>2. CASE ~(subject[r] \in users)
      BY <2>10, <3>0, <3>2, AnswerType DEF GetUser
    <3>3. QED
      BY <3>1, <3>2
  <2>11. CASE LoadUser(r)
    <3>0. link[r] = "down" /\ TablesTypeOK'
      BY <2>11 DEF LoadUser
    <3>1. CASE subject[r] \in users
      BY <2>11, <3>1 DEF LoadUser, Goto, StartChain
    <3>2. CASE ~(subject[r] \in users)
      BY <2>11, <3>0, <3>2, AnswerType DEF LoadUser, Reported
    <3>3. QED
      BY <3>1, <3>2
  <2>12. CASE CascadeUser(r)
    BY <2>12 DEF CascadeUser, Goto, DevicesOf
  <2>13. CASE CascadeEntities(r)
    BY <2>13 DEF CascadeEntities, Goto, EntitiesOf
  <2>14. CASE CommitDeleteUser(r)
    <3>1. link[r] = "down" /\ TablesTypeOK'
      BY <2>14 DEF CommitDeleteUser
    <3>2. \E status \in Answers : Answer(r, status)
      BY <2>14 DEF CommitDeleteUser, Reported
    <3>3. QED
      BY <3>1, <3>2, AnswerType
  <2>15. CASE Abort(r)
    <3>1. link[r] = "down" /\ TablesTypeOK'
      BY <2>15 DEF Abort
    <3>2. \E status \in Answers : Answer(r, status)
      BY <2>15 DEF Abort
    <3>3. QED
      BY <3>1, <3>2, AnswerType
  <2>16. CASE BusyTimeout(r)
    <3>1. link[r] = "down" /\ TablesTypeOK'
      BY <2>16 DEF BusyTimeout
    <3>2. \E status \in Answers : Answer(r, status)
      BY <2>16 DEF BusyTimeout
    <3>3. QED
      BY <3>1, <3>2, AnswerType
  <2>17. QED
    BY <1>2, <2>1, <2>2, <2>3, <2>4, <2>5, <2>6, <2>7, <2>8, <2>9, <2>10,
      <2>11, <2>12, <2>13, <2>14, <2>15, <2>16 DEF Handle
<1>3. ASSUME NEW r \in Requests, ProvisionStep(r), UNCHANGED registry PROVE TypeOK'
  <2>1. CASE Connect(r)
    BY <1>3, <2>1 DEF Connect
  <2>2. CASE Publish(r)
    BY <1>3, <2>2 DEF Publish, Reply, Hears, Execute
  <2>3. CASE ReadReply(r)
    BY <1>3, <2>3 DEF ReadReply, Close, AfterReply
  <2>4. CASE TimeoutReply(r)
    BY <1>3, <2>4 DEF TimeoutReply, Close
  <2>5. QED
    BY <1>3, <2>1, <2>2, <2>3, <2>4 DEF ProvisionStep
<1>4. ASSUME NEW r \in Requests, ProvisionFault(r), UNCHANGED registry PROVE TypeOK'
  <2>1. CASE Refuse(r)
    BY <1>4, <2>1 DEF Refuse, Reply, Hears
  <2>2. CASE Ignore(r)
    BY <1>4, <2>2 DEF Ignore
  <2>3. CASE LinkFails(r)
    BY <1>4, <2>3 DEF LinkFails, Close
  <2>4. CASE LogFails(r)
    BY <1>4, <2>4 DEF LogFails
  <2>5. QED
    BY <1>4, <2>1, <2>2, <2>3, <2>4 DEF ProvisionFault
<1>5. ASSUME NEW d \in Devices, NEW o \in Objects, DiscoverEntity(d, o) PROVE TypeOK'
  BY <1>5 DEF DiscoverEntity
<1>6. CASE Crash
  BY <1>6 DEF Crash
<1>7. CASE UNCHANGED vars
  BY <1>7 DEF vars
<1>8. QED
  BY <1>1, <1>2, <1>3, <1>4, <1>5, <1>6, <1>7 DEF Next, Step

\* Every state is well typed, and every request slot is coherent: a chain of
\* broker commands runs only while its handler awaits it, and the write lock
\* is held exactly by the create that has flushed and not yet committed.
THEOREM TypeCorrect == Spec => []TypeOK
<1>1. QED
  BY InitType, NextType, PTL DEF Spec

\* No device is drawn, registered or known to the broker yet.
LEMMA InitOwnership == Init => Ownership
BY DEF Init, ProvisioningInit, Ownership, ForeignKeys, Registered, PastCheck

\* The device of a running create is fresh, so no step of a delete, which only
\* touches a settled device, disturbs it; and the other way round.
LEMMA NextOwnership == TypeOK /\ Ownership /\ [Next]_vars => Ownership'
<1> SUFFICES ASSUME TypeOK, Ownership, [Next]_vars PROVE Ownership'
  OBVIOUS
<1>0. TypeOK'
  BY NextType
<1> USE <1>0 DEF TypeOK, ProvisioningTypeOK, TablesTypeOK, HandlersTypeOK, Coherent,
  Commands, Outcomes, Replies, Answers, Busy, CreateSteps, DeleteSteps, PastCheck,
  UserSteps, Provisions, Writes, broker, chain, tables, history, handler, registry,
  Ownership, ForeignKeys, Registered, Settled, Pending
<1>1. ASSUME NEW r \in Requests, Arrive(r) PROVE Ownership'
  <2>1. CASE \E u, p \in Users : StartCreate(r, u, p)
    BY <2>1 DEF StartCreate, Authorised, Goto
  <2>2. CASE \E u, p \in Users : StartDeleteUser(r, u, p)
    BY <2>2 DEF StartDeleteUser, Goto
  <2>3. CASE \E u \in Users, d \in Devices : StartDelete(r, u, d)
    BY <2>3 DEF StartDelete, Goto
  <2>4. QED
    BY <1>1, <2>1, <2>2, <2>3 DEF Arrive
<1>2. ASSUME NEW r \in Requests, Handle(r) PROVE Ownership'
  <2>1. CASE SelectUser(r)
    BY <2>1 DEF SelectUser, Reported, Answer, Goto, StartChain, EntitiesOf, DevicesOf, Unknown
  <2>2. CASE CountDevices(r)
    BY <2>2 DEF CountDevices, Reported, Answer, Goto, StartChain, EntitiesOf, DevicesOf, Unknown
  <2>3. CASE Flush(r)
    BY <2>3 DEF Flush, Answer, Goto, StartChain, EntitiesOf, DevicesOf, Unknown
  <2>4. CASE Commit(r)
    BY <2>4 DEF Commit, Answer, Goto, StartChain, EntitiesOf, DevicesOf, Unknown
  <2>5. CASE Refresh(r)
    BY <2>5 DEF Refresh, Reported, Answer, Goto, StartChain, EntitiesOf, DevicesOf, Unknown
  <2>6. CASE GetDevice(r)
    BY <2>6 DEF GetDevice, Answer, Goto, StartChain, EntitiesOf, DevicesOf, Unknown
  <2>7. CASE LoadDevice(r)
    BY <2>7 DEF LoadDevice, Reported, Answer, Goto, StartChain, EntitiesOf, DevicesOf, Unknown
  <2>8. CASE Cascade(r)
    BY <2>8 DEF Cascade, Answer, Goto, StartChain, EntitiesOf, DevicesOf, Unknown
  <2>9. CASE CommitDelete(r)
    <3>1. CASE Unknown(r, {target[r]}) = {}
      <4>1. /\ owner' = [owner EXCEPT ![target[r]] = NoUser]
            /\ entities' = entities \ doomed[r]
            /\ users' = users /\ drawn' = drawn
        BY <2>9, <3>1 DEF CommitDelete
      <4>2. pc[r] = "d_commit" /\ \E s \in {"204", "500"} : Answer(r, s)
        BY <2>9, <3>1 DEF CommitDelete, Reported
      <4>3. ForeignKeys'
        BY <3>1, <4>1, <4>2 DEF Unknown, EntitiesOf
      <4>4. Registered' \subseteq Registered
        BY <4>1
      <4>5. QED
        BY <4>1, <4>2, <4>3, <4>4 DEF Answer, Goto
    <3>2. CASE Unknown(r, {target[r]}) # {}
      <4>1. UNCHANGED <<tables, history>> /\ Answer(r, "500")
        BY <2>9, <3>2 DEF CommitDelete
      <4>2. QED
        BY <4>1 DEF Answer, Goto
    <3>3. QED
      BY <3>1, <3>2
  <2>10. CASE GetUser(r)
    BY <2>10 DEF GetUser, Answer, Goto, StartChain, EntitiesOf, DevicesOf, Unknown
  <2>11. CASE LoadUser(r)
    BY <2>11 DEF LoadUser, Reported, Answer, Goto, StartChain, EntitiesOf, DevicesOf, Unknown
  <2>12. CASE CascadeUser(r)
    BY <2>12 DEF CascadeUser, Answer, Goto, StartChain, EntitiesOf, DevicesOf, Unknown
  <2>13. CASE CascadeEntities(r)
    BY <2>13 DEF CascadeEntities, Answer, Goto, StartChain, EntitiesOf, DevicesOf, Unknown
  <2>14. CASE CommitDeleteUser(r)
    <3>0. /\ pc[r] = "u_commit" /\ \E s \in {"204", "500"} : Answer(r, s)
          /\ UNCHANGED history
      BY <2>14 DEF CommitDeleteUser, Reported
    <3>1. CASE UNCHANGED tables
      BY <3>0, <3>1 DEF Answer, Goto
    <3>2. CASE ~UNCHANGED tables
      <4>1. /\ DevicesOf(subject[r]) \subseteq doomedDevs[r] /\ Unknown(r, doomedDevs[r]) = {}
            /\ users' = users \ {subject[r]}
            /\ owner' = [d \in Devices |-> IF d \in doomedDevs[r] THEN NoUser ELSE owner[d]]
            /\ entities' = entities \ doomed[r]
        BY <2>14, <3>2 DEF CommitDeleteUser
      <4>2. ForeignKeys'
        BY <4>1 DEF Unknown, EntitiesOf, DevicesOf
      <4>3. Registered' \subseteq Registered
        BY <4>1
      <4>4. \A q \in Requests : pc[q] # "c_prov" /\ pc'[q] # "c_prov"
        BY <2>14, <3>0 DEF CommitDeleteUser, Answer, Goto
      <4>5. \A q \in Requests :
              /\ target'[q] \in {target[q], NoDevice}
              /\ pc'[q] # pc[q] => q = r /\ pc'[q] \notin Busy
              /\ pc'[q] \in DeleteSteps => target'[q] = target[q] /\ command'[q] = command[q]
              /\ pc'[q] \in UserSteps =>
                   doomedDevs'[q] = doomedDevs[q] /\ subject'[q] = subject[q]
        BY <3>0 DEF Answer, Goto
      <4>6. \A d \in Devices : ~Pending(d) /\ ~Pending(d)' /\ owner'[d] \in {owner[d], NoUser}
        BY <4>1, <4>4
      <4>7. UNCHANGED <<roles, clients, drawn>>
        BY <3>0 DEF Answer
      <4>8. QED
        BY <4>2, <4>3, <4>4, <4>5, <4>6, <4>7
    <3>3. QED
      BY <3>1, <3>2
  <2>15. CASE Abort(r)
    BY <2>15 DEF Abort, Answer, Goto, StartChain, EntitiesOf, DevicesOf, Unknown
  <2>16. CASE BusyTimeout(r)
    BY <2>16 DEF BusyTimeout, Answer, Goto, StartChain, EntitiesOf, DevicesOf, Unknown
  <2>17. QED
    BY <1>2, <2>1, <2>2, <2>3, <2>4, <2>5, <2>6, <2>7, <2>8, <2>9, <2>10,
      <2>11, <2>12, <2>13, <2>14, <2>15, <2>16 DEF Handle
<1>3. ASSUME NEW r \in Requests, ProvisionStep(r), UNCHANGED registry PROVE Ownership'
  <2>1. CASE Connect(r)
    BY <1>3, <2>1 DEF Connect
  <2>2. CASE Publish(r)
    BY <1>3, <2>2 DEF Publish, Reply, Hears, Execute
  <2>3. CASE ReadReply(r)
    BY <1>3, <2>3 DEF ReadReply, Close, AfterReply
  <2>4. CASE TimeoutReply(r)
    BY <1>3, <2>4 DEF TimeoutReply, Close
  <2>5. QED
    BY <1>3, <2>1, <2>2, <2>3, <2>4 DEF ProvisionStep
<1>4. ASSUME NEW r \in Requests, ProvisionFault(r), UNCHANGED registry PROVE Ownership'
  <2>1. CASE Refuse(r)
    BY <1>4, <2>1 DEF Refuse, Reply, Hears
  <2>2. CASE Ignore(r)
    BY <1>4, <2>2 DEF Ignore
  <2>3. CASE LinkFails(r)
    BY <1>4, <2>3 DEF LinkFails, Close
  <2>4. CASE LogFails(r)
    BY <1>4, <2>4 DEF LogFails
  <2>5. QED
    BY <1>4, <2>1, <2>2, <2>3, <2>4 DEF ProvisionFault
<1>5. ASSUME NEW d \in Devices, NEW o \in Objects, DiscoverEntity(d, o) PROVE Ownership'
  BY <1>5 DEF DiscoverEntity
<1>6. CASE Crash
  BY <1>6 DEF Crash
<1>7. CASE UNCHANGED vars
  BY <1>7 DEF vars
<1>8. QED
  BY <1>1, <1>2, <1>3, <1>4, <1>5, <1>6, <1>7 DEF Next, Step

\* Only Flush exempts a device, and it draws a device nobody else holds.
LEMMA NextExemption == TypeOK /\ Exemption /\ [Next]_vars => Exemption'
<1> SUFFICES ASSUME TypeOK, Exemption, [Next]_vars PROVE Exemption'
  OBVIOUS
<1> USE DEF TypeOK, ProvisioningTypeOK, TablesTypeOK, HandlersTypeOK, Coherent,
  Answers, Busy, CreateSteps, DeleteSteps, UserSteps, Provisions, Writes,
  broker, chain, tables, history, handler, registry, Exemption
<1>1. ASSUME NEW r \in Requests, Arrive(r) PROVE Exemption'
  BY <1>1 DEF Arrive, StartCreate, StartDelete, StartDeleteUser, Goto
<1>2. ASSUME NEW r \in Requests, Flush(r) PROVE Exemption'
  BY <1>2 DEF Flush, Answer, StartChain, Goto
<1>3. ASSUME NEW r \in Requests, Handle(r), ~Flush(r) PROVE Exemption'
  BY <1>3 DEF Handle, SelectUser, CountDevices, Commit, Refresh, GetDevice,
    LoadDevice, Cascade, CommitDelete, GetUser, LoadUser, CascadeUser, CascadeEntities,
    CommitDeleteUser, Abort, BusyTimeout, Reported, Answer, StartChain, Goto
<1>4. ASSUME NEW r \in Requests, ProvisionStep(r) \/ ProvisionFault(r), UNCHANGED registry
      PROVE Exemption'
  BY <1>4 DEF ProvisionStep, ProvisionFault, Connect, Publish, ReadReply,
    TimeoutReply, Refuse, Ignore, LinkFails, LogFails
<1>5. CASE (\E d \in Devices, o \in Objects : DiscoverEntity(d, o)) \/ UNCHANGED vars
  BY <1>5 DEF DiscoverEntity, vars
<1>6. CASE Crash
  BY <1>6 DEF Crash
<1>7. QED
  BY <1>1, <1>2, <1>3, <1>4, <1>5, <1>6 DEF Next, Step

\* No chain runs yet.
LEMMA InitHonest == Init => \A r \in Requests : Honest(r)
BY DEF Init, ProvisioningInit, Honest, Before, After, PastCheck

\* A chain's knowledge of the broker survives every step: its own, because an
\* "ok" it reads is true of its own command, and other requests', because
\* two chains that run at the same time work on different devices or both
\* revoke the same one.
LEMMA NextHonest ==
  ASSUME Trustworthy, TypeOK, Ownership, \A q \in Requests : Honest(q), [Next]_vars
  PROVE \A q \in Requests : Honest(q)'
<1>0. TypeOK' /\ Ownership'
  BY NextType, NextOwnership
<1> USE <1>0, SwitchAssumption DEF TypeOK, ProvisioningTypeOK, TablesTypeOK, HandlersTypeOK, Coherent,
  Commands, Outcomes, Replies, Answers, Busy, CreateSteps, DeleteSteps, PastCheck,
  UserSteps, Provisions, Writes, broker, chain, tables, history, handler, registry,
  Ownership, Registered, Settled, Pending, Honest, Before, After
<1>1. ASSUME NEW r \in Requests, Arrive(r) PROVE \A q \in Requests : Honest(q)'
  <2>1. CASE \E u, p \in Users : StartCreate(r, u, p)
    BY <2>1 DEF StartCreate, Authorised, Goto
  <2>2. CASE \E u, p \in Users : StartDeleteUser(r, u, p)
    BY <2>2 DEF StartDeleteUser, Goto
  <2>3. CASE \E u \in Users, d \in Devices : StartDelete(r, u, d)
    BY <2>3 DEF StartDelete, Goto
  <2>4. QED
    BY <1>1, <2>1, <2>2, <2>3 DEF Arrive
<1>2. ASSUME NEW r \in Requests, Handle(r) PROVE \A q \in Requests : Honest(q)'
  <2>1. CASE SelectUser(r)
    BY <2>1 DEF SelectUser, Reported, Answer, Goto, StartChain, EntitiesOf, DevicesOf
  <2>2. CASE CountDevices(r)
    BY <2>2 DEF CountDevices, Reported, Answer, Goto, StartChain, EntitiesOf, DevicesOf
  <2>3. CASE Flush(r)
    BY <2>3 DEF Flush, Answer, Goto, StartChain, EntitiesOf, DevicesOf
  <2>4. CASE Commit(r)
    BY <2>4 DEF Commit, Answer, Goto, StartChain, EntitiesOf, DevicesOf
  <2>5. CASE Refresh(r)
    BY <2>5 DEF Refresh, Reported, Answer, Goto, StartChain, EntitiesOf, DevicesOf
  <2>6. CASE GetDevice(r)
    BY <2>6 DEF GetDevice, Answer, Goto, StartChain, EntitiesOf, DevicesOf
  <2>7. CASE LoadDevice(r)
    BY <2>7 DEF LoadDevice, Reported, Answer, Goto, StartChain, EntitiesOf, DevicesOf
  <2>8. CASE Cascade(r)
    BY <2>8 DEF Cascade, Answer, Goto, StartChain, EntitiesOf, DevicesOf
  <2>9. CASE CommitDelete(r)
    BY <2>9 DEF CommitDelete, Reported, Answer, Goto, StartChain, EntitiesOf, DevicesOf
  <2>10. CASE GetUser(r)
    BY <2>10 DEF GetUser, Answer, Goto, StartChain, EntitiesOf, DevicesOf
  <2>11. CASE LoadUser(r)
    BY <2>11 DEF LoadUser, Reported, Answer, Goto, StartChain, EntitiesOf, DevicesOf
  <2>12. CASE CascadeUser(r)
    BY <2>12 DEF CascadeUser, Answer, Goto, StartChain, EntitiesOf, DevicesOf
  <2>13. CASE CascadeEntities(r)
    BY <2>13 DEF CascadeEntities, Answer, Goto, StartChain, EntitiesOf, DevicesOf
  <2>14. CASE CommitDeleteUser(r)
    BY <2>14 DEF CommitDeleteUser, Reported, Answer, Goto, StartChain, EntitiesOf, DevicesOf
  <2>15. CASE Abort(r)
    BY <2>15 DEF Abort, Answer, Goto, StartChain, EntitiesOf, DevicesOf
  <2>16. CASE BusyTimeout(r)
    BY <2>16 DEF BusyTimeout, Answer, Goto, StartChain, EntitiesOf, DevicesOf
  <2>17. QED
    BY <1>2, <2>1, <2>2, <2>3, <2>4, <2>5, <2>6, <2>7, <2>8, <2>9, <2>10,
      <2>11, <2>12, <2>13, <2>14, <2>15, <2>16 DEF Handle
<1>3. ASSUME NEW r \in Requests, ProvisionStep(r), UNCHANGED registry
      PROVE \A q \in Requests : Honest(q)'
  <2>1. CASE Connect(r)
    BY <1>3, <2>1 DEF Connect
  <2>2. CASE Publish(r)
    BY <1>3, <2>2 DEF Publish, Reply, Hears, Execute, Accepts, Trustworthy
  <2>3. CASE ReadReply(r)
    BY <1>3, <2>3 DEF ReadReply, Close, AfterReply
  <2>4. CASE TimeoutReply(r)
    BY <1>3, <2>4 DEF TimeoutReply, Close
  <2>5. QED
    BY <1>3, <2>1, <2>2, <2>3, <2>4 DEF ProvisionStep
<1>4. ASSUME NEW r \in Requests, ProvisionFault(r), UNCHANGED registry
      PROVE \A q \in Requests : Honest(q)'
  <2>1. CASE Refuse(r)
    BY <1>4, <2>1 DEF Refuse, Reply, Hears, Trustworthy
  <2>2. CASE Ignore(r)
    BY <1>4, <2>2 DEF Ignore, Trustworthy
  <2>3. CASE LinkFails(r)
    BY <1>4, <2>3 DEF LinkFails, Close
  <2>4. CASE LogFails(r)
    BY <1>4, <2>4 DEF LogFails
  <2>5. QED
    BY <1>4, <2>1, <2>2, <2>3, <2>4 DEF ProvisionFault
<1>5. ASSUME NEW d \in Devices, NEW o \in Objects, DiscoverEntity(d, o)
      PROVE \A q \in Requests : Honest(q)'
  BY <1>5 DEF DiscoverEntity
<1>6. CASE Crash
  BY <1>6 DEF Crash
<1>7. CASE UNCHANGED vars
  BY <1>7 DEF vars
<1>8. QED
  BY <1>1, <1>2, <1>3, <1>4, <1>5, <1>6, <1>7, SMTT(20) DEF Next, Step

\* No two requests hold each other's device: the device of a create that has
\* not committed is nobody else's (device_service.py 45-59).
THEOREM OwnershipHolds == Spec => []Ownership
<1>1. TypeOK /\ Ownership /\ [Next]_vars => (TypeOK /\ Ownership)'
  BY NextType, NextOwnership
<1>2. QED
  BY InitType, InitOwnership, <1>1, PTL DEF Spec

\* No device row outlives its user and no entity row its device, although the
\* unit of work of a delete loads what it will delete before other sessions
\* commit more (device_service.py 100-101, user_service.py 50-51).
THEOREM ForeignKeysHold == Spec => []ForeignKeys
<1>1. Ownership => ForeignKeys
  BY DEF Ownership
<1>2. QED
  BY OwnershipHolds, <1>1, PTL

\* The whole invariant, when an "ok" can be trusted.
THEOREM InvHolds == ASSUME Trustworthy PROVE Spec => []Inv
<1>1. Init => Inv
  BY InitType, InitOwnership, InitHonest DEF Inv, Exemption, Init
<1>2. Inv /\ [Next]_vars => Inv'
  BY NextType, NextOwnership, NextExemption, NextHonest DEF Inv
<1>3. QED
  BY <1>1, <1>2, PTL DEF Spec

\* A create that goes on to commit its row (device_service.py 59) has its role
\* and its account at the broker.
THEOREM CommitOnlyProvisionedHolds ==
  ASSUME Trustworthy PROVE Spec => []CommitOnlyProvisioned
<1>1. Inv => CommitOnlyProvisioned
  BY DEF Inv, Honest, CommitOnlyProvisioned
<1>2. QED
  BY InvHolds, <1>1, PTL

-----------------------------------------------------------------------------
\* Only three steps change who owns a device, and only two answer a delete
\* with 204.
LEMMA OwnerChanges ==
  ASSUME [Next]_vars, owner' # owner
  PROVE \E r \in Requests : Commit(r) \/ CommitDelete(r) \/ CommitDeleteUser(r)
<1> USE DEF tables, history, handler, registry
<1>1. ASSUME NEW r \in Requests, Arrive(r) PROVE FALSE
  BY <1>1 DEF Arrive, StartCreate, StartDelete, StartDeleteUser
<1>2. ASSUME NEW r \in Requests, Handle(r)
      PROVE Commit(r) \/ CommitDelete(r) \/ CommitDeleteUser(r)
  BY <1>2 DEF Handle, SelectUser, CountDevices, Flush, Refresh, GetDevice,
    LoadDevice, Cascade, GetUser, LoadUser, CascadeUser, CascadeEntities, Abort, BusyTimeout
<1>3. CASE Crash
  BY <1>3 DEF Crash
<1>4. CASE \E d \in Devices, o \in Objects : DiscoverEntity(d, o)
  BY <1>4 DEF DiscoverEntity
<1>5. QED
  BY <1>1, <1>2, <1>3, <1>4 DEF Next, Step, vars

\* A row that disappears has lost its broker account before
\* (device_service.py 98-100), or its user disappears in the same step.
THEOREM RevokedBeforeRemovedHolds ==
  ASSUME Trustworthy PROVE Spec => RevokedBeforeRemoved
<1>1. Inv /\ [Next]_vars => [RemovesRevoked]_vars
  <2> SUFFICES ASSUME Inv, [Next]_vars, NEW d \in Devices,
                      owner[d] # NoUser, owner'[d] = NoUser
               PROVE d \notin clients \/ owner[d] \notin users'
    BY DEF RemovesRevoked
  <2>1. PICK r \in Requests : Commit(r) \/ CommitDelete(r) \/ CommitDeleteUser(r)
    BY OwnerChanges
  <2> USE DEF Inv, TypeOK, TablesTypeOK, HandlersTypeOK, ProvisioningTypeOK, Coherent
  <2>2. CASE Commit(r)
    BY <2>2 DEF Commit, Ownership, Registered, UserSteps, CreateSteps, Provisions
  <2>3. CASE CommitDelete(r)
    <3>1. d = target[r] /\ pc[r] = "d_commit"
      BY <2>3 DEF CommitDelete
    <3>2. QED
      BY <3>1 DEF Honest
  <2>4. CASE CommitDeleteUser(r)
    <3>1. pc[r] = "u_commit" /\ d \in doomedDevs[r] /\ users' = users \ {subject[r]}
      BY <2>4 DEF CommitDeleteUser, tables
    <3>2. QED
      BY <3>1 DEF Ownership
  <2>5. QED
    BY <2>1, <2>2, <2>3, <2>4
<1>2. QED
  BY InvHolds, <1>1, PTL DEF Spec, RevokedBeforeRemoved

\* What a handler of a device delete knows when it answers 204.
LEMMA DeleteConfirmed ==
  ASSUME TypeOK, [Next]_vars, NEW r \in Requests, pc[r] \in DeleteSteps, pc'[r] = "204"
  PROVE LoadDevice(r) \/ CommitDelete(r)
<1> USE DEF TypeOK, HandlersTypeOK, ProvisioningTypeOK, Coherent, Goto, Reported, Answer,
  DeleteSteps, tables, history, handler, registry, broker, chain
<1>1. ASSUME NEW q \in Requests, Arrive(q) PROVE FALSE
  BY <1>1 DEF Arrive, StartCreate, StartDelete, StartDeleteUser, Answers
<1>2. ASSUME NEW q \in Requests, Handle(q) PROVE LoadDevice(r) \/ CommitDelete(r)
  <2>1. q = r
    <3>1. CASE \/ SelectUser(q) \/ CountDevices(q) \/ GetDevice(q)
               \/ LoadDevice(q) \/ GetUser(q) \/ LoadUser(q)
      BY <3>1 DEF SelectUser, CountDevices, GetDevice, LoadDevice, GetUser, LoadUser
    <3>2. CASE Flush(q) \/ CommitDelete(q) \/ CommitDeleteUser(q)
      BY <3>2 DEF Flush, CommitDelete, CommitDeleteUser
    <3>3. CASE \/ Commit(q) \/ Refresh(q) \/ Cascade(q) \/ CascadeUser(q)
               \/ CascadeEntities(q) \/ Abort(q) \/ BusyTimeout(q)
      BY <3>3 DEF Commit, Refresh, Cascade, CascadeUser, CascadeEntities, Abort, BusyTimeout
    <3>4. QED
      BY <1>2, <3>1, <3>2, <3>3 DEF Handle
  <2>2. ~(GetDevice(r) \/ Cascade(r) \/ Abort(r) \/ BusyTimeout(r))
    BY DEF GetDevice, Cascade, Abort, BusyTimeout
  <2>3. QED
    BY <1>2, <2>1, <2>2 DEF Handle, SelectUser, CountDevices, Flush, Commit,
      Refresh, GetUser, LoadUser, CascadeUser, CascadeEntities, CommitDeleteUser
<1>3. CASE Crash
  BY <1>3 DEF Crash
<1>4. CASE \E d \in Devices, o \in Objects : DiscoverEntity(d, o)
  BY <1>4 DEF DiscoverEntity
<1>5. QED
  BY <1>1, <1>2, <1>3, <1>4 DEF Next, Step, vars

\* A delete that is answered 204 (api/v1/user.py 201) has left neither a row nor
\* an account, or the caller himself was removed meanwhile.
THEOREM DeletedMeansGoneHolds ==
  ASSUME Trustworthy PROVE Spec => DeletedMeansGone
<1>1. Inv /\ [Next]_vars => [ConfirmsGone]_vars
  <2> SUFFICES ASSUME Inv, [Next]_vars, NEW r \in Requests,
                      pc[r] \in DeleteSteps, pc'[r] = "204"
               PROVE /\ target[r] \notin Registered'
                     /\ target[r] \notin clients' \/ caller[r] \notin users'
    BY DEF ConfirmsGone
  <2> USE DEF Inv, TypeOK, TablesTypeOK, HandlersTypeOK, ProvisioningTypeOK, Coherent,
    PastCheck, Reported, Answer, Goto, Registered
  <2>1. CASE LoadDevice(r)
    <3>1. target[r] \notin Registered /\ pc[r] = "d_load"
      BY <2>1 DEF LoadDevice
    <3>2. UNCHANGED <<owner, clients, users>>
      BY <2>1, <3>1 DEF LoadDevice, tables, broker
    <3>3. owner[target[r]] # caller[r]
      BY <3>1 DEF Busy, DeleteSteps
    <3>4. QED
      BY <3>1, <3>2, <3>3 DEF Honest
  <2>2. CASE CommitDelete(r)
    <3>1. pc[r] = "d_commit" /\ owner' = [owner EXCEPT ![target[r]] = NoUser] /\ UNCHANGED clients
      BY <2>2 DEF CommitDelete, broker
    <3>2. QED
      BY <3>1 DEF Honest
  <2>3. QED
    BY <2>1, <2>2, DeleteConfirmed
<1>2. QED
  BY InvHolds, <1>1, PTL DEF Spec, DeletedMeansGone

-----------------------------------------------------------------------------
\* The devices that count against the limit of their user.
Counted(u) == DevicesOf(u) \ exempt

\* The sets that OvershootBounded counts are finite.
LEMMA CountedAdmittedFinite ==
  ASSUME NEW u \in Users
  PROVE /\ IsFiniteSet(DevicesOf(u)) /\ IsFiniteSet(Counted(u)) /\ IsFiniteSet(Admitted(u))
        /\ Cardinality(DevicesOf(u)) \in Nat
        /\ Cardinality(Counted(u)) \in Nat
        /\ Cardinality(Counted(u)) <= Cardinality(DevicesOf(u))
        /\ Cardinality(Admitted(u)) \in Nat
        /\ Cardinality(Admitted(u)) <= Cardinality(Requests)
        /\ Cardinality(Requests) \in Nat
<1>1. DevicesOf(u) \subseteq Devices /\ Counted(u) \subseteq DevicesOf(u)
      /\ Admitted(u) \subseteq Requests
  BY DEF DevicesOf, Counted, Admitted
<1>2. IsFiniteSet(DevicesOf(u)) /\ IsFiniteSet(Admitted(u))
      /\ Cardinality(Admitted(u)) <= Cardinality(Requests)
  BY <1>1, FiniteAssumption, FS_Subset
<1>3. IsFiniteSet(Counted(u)) /\ Cardinality(Counted(u)) <= Cardinality(DevicesOf(u))
  BY <1>1, <1>2, FS_Subset
<1>4. QED
  BY <1>2, <1>3, FiniteAssumption, FS_CardinalityType

\* Only a count or a commit for the user makes either set larger.
LEMMA CountedOrAdmitted ==
  ASSUME TypeOK, Exemption, [Next]_vars, NEW u \in Users,
         \A r \in Requests : ~(subject[r] = u /\ (CountDevices(r) \/ Commit(r)))
  PROVE Counted(u)' \subseteq Counted(u) /\ Admitted(u)' \subseteq Admitted(u)
<1> USE DEF TypeOK, ProvisioningTypeOK, TablesTypeOK, HandlersTypeOK, Coherent,
  Answers, Busy, CreateSteps, DeleteSteps, UserSteps, Provisions, Writes,
  broker, chain, tables, history, handler, registry, Counted, Admitted, DevicesOf
<1>1. ASSUME NEW r \in Requests, Arrive(r)
      PROVE Counted(u)' \subseteq Counted(u) /\ Admitted(u)' \subseteq Admitted(u)
  BY <1>1 DEF Arrive, StartCreate, StartDelete, StartDeleteUser, Goto
<1>2. ASSUME NEW r \in Requests, Flush(r)
      PROVE Counted(u)' \subseteq Counted(u) /\ Admitted(u)' \subseteq Admitted(u)
  BY <1>2 DEF Flush, Answer, StartChain, Goto
<1>3. ASSUME NEW r \in Requests, Handle(r), ~Flush(r)
      PROVE Counted(u)' \subseteq Counted(u) /\ Admitted(u)' \subseteq Admitted(u)
  <2>1. CASE SelectUser(r) \/ CountDevices(r) \/ GetDevice(r) \/ LoadDevice(r)
             \/ GetUser(r) \/ LoadUser(r)
    BY <2>1 DEF SelectUser, CountDevices, GetDevice, LoadDevice, GetUser, LoadUser,
      Reported, Answer, StartChain, Goto
  <2>2. CASE Commit(r) \/ Refresh(r) \/ Cascade(r) \/ CascadeUser(r)
             \/ CascadeEntities(r) \/ Abort(r) \/ BusyTimeout(r)
    BY <2>2 DEF Commit, Refresh, Cascade, CascadeUser, CascadeEntities, Abort, BusyTimeout, Reported, Answer,
      StartChain, Goto
  <2>3. CASE CommitDelete(r)
    BY <2>3 DEF CommitDelete, Reported, Answer, Goto
  <2>4. CASE CommitDeleteUser(r)
    BY <2>4 DEF CommitDeleteUser, Reported, Answer, Goto
  <2>5. QED
    BY <1>3, <2>1, <2>2, <2>3, <2>4 DEF Handle
<1>4. ASSUME NEW r \in Requests, ProvisionStep(r) \/ ProvisionFault(r), UNCHANGED registry
      PROVE Counted(u)' \subseteq Counted(u) /\ Admitted(u)' \subseteq Admitted(u)
  BY <1>4 DEF ProvisionStep, ProvisionFault, Connect, Publish, ReadReply,
    TimeoutReply, Refuse, Ignore, LinkFails, LogFails
<1>5. CASE (\E d \in Devices, o \in Objects : DiscoverEntity(d, o)) \/ UNCHANGED vars
  BY <1>5 DEF DiscoverEntity, vars
<1>6. CASE Crash
  BY <1>6 DEF Crash
<1>7. QED
  BY <1>1, <1>2, <1>3, <1>4, <1>5, <1>6 DEF Next, Step

\* CountDevices admits a request below the limit, so that request adds one to
\* at most MaxDevices - 1 devices and Cardinality(Requests) - 1 others; Commit
\* turns an admitted request into a device; nothing else raises the sum.
LEMMA NextOvershoot ==
  ASSUME TypeOK, Exemption, OvershootBounded, [Next]_vars
  PROVE OvershootBounded'
<1> DEFINE Bound == MaxDevices + Cardinality(Requests) - 1
<1> SUFFICES ASSUME NEW u \in Users
             PROVE Cardinality(Counted(u)') + Cardinality(Admitted(u)') <= Bound
  BY DEF OvershootBounded, Counted
<1>0. Cardinality(Counted(u)) + Cardinality(Admitted(u)) <= Bound
  BY DEF OvershootBounded, Counted
<1>1. CASE \A r \in Requests : ~(subject[r] = u /\ (CountDevices(r) \/ Commit(r)))
  <2>1. /\ Cardinality(Counted(u)') <= Cardinality(Counted(u))
        /\ Cardinality(Admitted(u)') <= Cardinality(Admitted(u))
        /\ Cardinality(Counted(u)') \in Nat
        /\ Cardinality(Admitted(u)') \in Nat
    BY <1>1, CountedOrAdmitted, CountedAdmittedFinite, FS_Subset, FS_CardinalityType
  <2>2. QED
    BY <1>0, <2>1, CountedAdmittedFinite, LimitAssumption
<1>2. ASSUME NEW r \in Requests, subject[r] = u, CountDevices(r)
      PROVE Cardinality(Counted(u)') + Cardinality(Admitted(u)') <= Bound
  <2>1. Counted(u)' = Counted(u)
    BY <1>2 DEF CountDevices, tables, history, Counted, DevicesOf
  <2>2. CASE OverLimit(u)
    <3>1. Admitted(u)' \subseteq Admitted(u)
      BY <1>2, <2>2 DEF CountDevices, Reported, Answer, Goto, Admitted, TypeOK, HandlersTypeOK
    <3>2. Cardinality(Admitted(u)') <= Cardinality(Admitted(u)) /\ Cardinality(Admitted(u)') \in Nat
      BY <3>1, CountedAdmittedFinite, FS_Subset, FS_CardinalityType
    <3>3. QED
      BY <1>0, <2>1, <3>2, CountedAdmittedFinite, LimitAssumption
  <2>3. CASE ~OverLimit(u)
    <3>1. Cardinality(Counted(u)) < MaxDevices
      BY <2>3, CountedAdmittedFinite, LimitAssumption DEF OverLimit
    <3>2. Admitted(u)' \subseteq Requests
      BY DEF Admitted
    <3>3. Cardinality(Admitted(u)') <= Cardinality(Requests) /\ Cardinality(Admitted(u)') \in Nat
      BY <3>2, FiniteAssumption, FS_Subset, FS_CardinalityType
    <3>4. QED
      BY <2>1, <3>1, <3>3, CountedAdmittedFinite, LimitAssumption
  <2>4. QED
    BY <2>2, <2>3
<1>3. ASSUME NEW r \in Requests, subject[r] = u, Commit(r)
      PROVE Cardinality(Counted(u)') + Cardinality(Admitted(u)') <= Bound
  <2>1. /\ target[r] \in Devices
        /\ owner' = [owner EXCEPT ![target[r]] = u]
        /\ pc' = [pc EXCEPT ![r] = "c_refresh"] /\ pc[r] = "c_prov"
        /\ UNCHANGED <<exempt, caller, subject>>
        /\ target[r] \in exempt <=> caller[r] \in Admins
    BY <1>3 DEF Commit, Goto, history, handler, TypeOK, HandlersTypeOK, Coherent,
      ProvisioningTypeOK, Exemption
  <2>2. CASE caller[r] \in Admins
    <3>1. Counted(u)' \subseteq Counted(u) /\ Admitted(u)' \subseteq Admitted(u)
      BY <2>1, <2>2 DEF Counted, DevicesOf, Admitted, TypeOK, TablesTypeOK, HandlersTypeOK
    <3>2. /\ Cardinality(Counted(u)') <= Cardinality(Counted(u))
          /\ Cardinality(Admitted(u)') <= Cardinality(Admitted(u))
          /\ Cardinality(Counted(u)') \in Nat
          /\ Cardinality(Admitted(u)') \in Nat
      BY <3>1, CountedAdmittedFinite, FS_Subset, FS_CardinalityType
    <3>3. QED
      BY <1>0, <3>2, CountedAdmittedFinite, LimitAssumption
  <2>3. CASE caller[r] \notin Admins
    <3>1. /\ Counted(u)' \subseteq Counted(u) \cup {target[r]}
          /\ Admitted(u)' = Admitted(u) \ {r}
          /\ r \in Admitted(u)
      BY <1>3, <2>1, <2>3 DEF Counted, DevicesOf, Admitted, TypeOK, TablesTypeOK, HandlersTypeOK
    <3>2. Cardinality(Admitted(u)') = Cardinality(Admitted(u)) - 1
      BY <3>1, CountedAdmittedFinite, FS_RemoveElement
    <3>3. /\ IsFiniteSet(Counted(u) \cup {target[r]})
          /\ Cardinality(Counted(u) \cup {target[r]}) <= Cardinality(Counted(u)) + 1
      <4> DEFINE S == Counted(u)
      <4>1. IsFiniteSet(S) /\ Cardinality(S) \in Nat
        BY CountedAdmittedFinite
      <4> HIDE DEF S
      <4>2. IsFiniteSet(S \cup {target[r]}) /\ Cardinality(S \cup {target[r]}) <= Cardinality(S) + 1
        <5>1. /\ IsFiniteSet(S \cup {target[r]})
              /\ \/ Cardinality(S \cup {target[r]}) = Cardinality(S)
                 \/ Cardinality(S \cup {target[r]}) = Cardinality(S) + 1
          BY <4>1, FS_AddElement, Zenon
        <5>2. QED
          BY <4>1, <5>1
      <4>3. QED
        BY <4>2 DEF S
    <3>4. Cardinality(Counted(u)') <= Cardinality(Counted(u)) + 1
          /\ Cardinality(Counted(u)') \in Nat
      BY <3>1, <3>3, CountedAdmittedFinite, FS_Subset, FS_CardinalityType
    <3>5. QED
      BY <1>0, <3>2, <3>4, CountedAdmittedFinite, LimitAssumption
  <2>4. QED
    BY <2>2, <2>3
<1>4. QED
  BY <1>1, <1>2, <1>3

\* The check-then-insert of create_device (device_service.py 35-54) lets a user
\* pass MAX_DEVICES_PER_USER by at most the other requests in flight.
THEOREM OvershootBoundedHolds == Spec => []OvershootBounded
<1>1. Init => OvershootBounded
  <2> SUFFICES ASSUME Init, NEW u \in Users
               PROVE Cardinality(Counted(u)) + Cardinality(Admitted(u))
                       <= MaxDevices + Cardinality(Requests) - 1
    BY DEF OvershootBounded, Counted
  <2>1. Counted(u) = {} /\ Admitted(u) = {}
    BY DEF Init, Counted, DevicesOf, Admitted
  <2>2. Cardinality(Requests) \in Nat /\ Cardinality(Requests) # 0
    BY FiniteAssumption, FS_CardinalityType, FS_EmptySet
  <2>3. QED
    BY <2>1, <2>2, FS_EmptySet, LimitAssumption
<1>2. Init => Exemption
  BY DEF Init, Exemption
<1>3. TypeOK /\ Exemption /\ OvershootBounded /\ [Next]_vars =>
        (TypeOK /\ Exemption /\ OvershootBounded)'
  BY NextType, NextExemption, NextOvershoot
<1>4. QED
  BY InitType, <1>1, <1>2, <1>3, PTL DEF Spec

-----------------------------------------------------------------------------
\* The lives of all devices are unchanged if what they are defined from is.
LEMMA StutterLife ==
  ASSUME UNCHANGED <<users, owner, drawn, clients>>,
         \A q \in Requests : pc[q] = "c_prov" <=> pc'[q] = "c_prov",
         \A q \in Requests : pc[q] = "c_prov" => target'[q] = target[q]
  PROVE UNCHANGED Lifecycle!vars
<1>1. \A d \in Devices : Pending(d)' <=> Pending(d)
  BY DEF Pending
<1>2. life' = life
  BY <1>1 DEF life, Registered
<1>3. QED
  BY <1>2 DEF Lifecycle!vars

\* A step that moves one device only is a Becomes of the abstract module.
LEMMA LifeChangesAt ==
  ASSUME NEW d \in Devices, NEW l,
         \A e \in Devices : life'[e] = IF e = d THEN l ELSE life[e]
  PROVE Lifecycle!Becomes(d, l)
BY DEF life, Lifecycle!Becomes

\* Each step of the registry or of the broker is one step of one device's
\* life, the removal of a user, or a stutter.
LEMMA NextLife ==
  ASSUME Trustworthy, Inv, [Next]_vars
  PROVE [Lifecycle!Next]_(Lifecycle!vars)
<1>0. Inv'
  BY NextType, NextOwnership, NextExemption, NextHonest DEF Inv
<1> USE <1>0 DEF Inv, TypeOK, ProvisioningTypeOK, TablesTypeOK, HandlersTypeOK,
  Coherent, Commands, Outcomes, Answers, Busy, CreateSteps, DeleteSteps, PastCheck,
  UserSteps, Provisions, Writes, broker, chain, tables, history, handler, registry
<1>1. ASSUME NEW r \in Requests, Arrive(r) PROVE UNCHANGED Lifecycle!vars
  <2>1. CASE \E u, p \in Users : StartCreate(r, u, p)
    BY <2>1, StutterLife DEF StartCreate, Goto
  <2>2. CASE \E u, p \in Users : StartDeleteUser(r, u, p)
    BY <2>2, StutterLife DEF StartDeleteUser, Goto
  <2>3. CASE \E u \in Users, d \in Devices : StartDelete(r, u, d)
    BY <2>3, StutterLife DEF StartDelete, Goto
  <2>4. QED
    BY <1>1, <2>1, <2>2, <2>3 DEF Arrive
<1>2. ASSUME NEW r \in Requests,
             \/ SelectUser(r) \/ CountDevices(r) \/ Refresh(r) \/ GetDevice(r)
             \/ LoadDevice(r) \/ Cascade(r) \/ GetUser(r) \/ LoadUser(r)
             \/ CascadeUser(r) \/ CascadeEntities(r) \/ BusyTimeout(r)
      PROVE UNCHANGED Lifecycle!vars
  BY <1>2, StutterLife DEF SelectUser, CountDevices, Refresh, GetDevice, LoadDevice,
    Cascade, GetUser, LoadUser, CascadeUser, CascadeEntities, BusyTimeout, Reported, Answer,
    Goto, StartChain
<1>3. ASSUME NEW r \in Requests, Flush(r) PROVE [Lifecycle!Next]_(Lifecycle!vars)
  <2>1. CASE subject[r] \notin users
    BY <1>3, <2>1, StutterLife DEF Flush, Answer, Goto
  <2>2. CASE subject[r] \in users
    <3>1. PICK d \in Devices \ drawn :
            /\ drawn' = drawn \cup {d}
            /\ target' = [target EXCEPT ![r] = d]
            /\ pc' = [pc EXCEPT ![r] = "c_prov"]
            /\ UNCHANGED <<users, owner, clients>>
      BY <1>3, <2>2 DEF Flush, StartChain, Goto
    <3>2. \A e \in Devices : ~Pending(e)
      BY <1>3 DEF Flush, Pending
    <3>3. \A e \in Devices : Pending(e)' <=> e = d
      BY <3>1, <3>2 DEF Pending
    <3>4. d \notin Registered
      BY <3>1 DEF Ownership
    <3>5. \A e \in Devices : life'[e] = IF e = d THEN "pending" ELSE life[e]
      BY <3>1, <3>2, <3>3, <3>4 DEF life, Registered
    <3>6. life[d] = "fresh" /\ \A e \in Devices : life[e] # "pending"
      BY <3>1, <3>2 DEF life
    <3>7. Lifecycle!Becomes(d, "pending")
      BY <3>1, <3>5, LifeChangesAt
    <3>8. Lifecycle!Reserve(d)
      BY <3>1, <3>6, <3>7 DEF Lifecycle!Reserve
    <3>9. QED
      BY <3>1, <3>8 DEF Lifecycle!Next
  <2>3. QED
    BY <2>1, <2>2
<1>4. ASSUME NEW r \in Requests, Commit(r) PROVE Lifecycle!Next
  <2> DEFINE d == target[r]
  <2>1. /\ d \in Devices \ Registered /\ d \in drawn
        /\ subject[r] \in users
        /\ d \in clients
    BY <1>4 DEF Commit, Ownership, Honest
  <2>2. /\ owner' = [owner EXCEPT ![d] = subject[r]]
        /\ pc' = [pc EXCEPT ![r] = "c_refresh"]
        /\ pc[r] = "c_prov"
        /\ UNCHANGED <<users, drawn, clients, target>>
    BY <1>4 DEF Commit, StartChain, Goto
  <2>3. \A e \in Devices : Pending(e) <=> e = d
    BY <2>2 DEF Pending
  <2>4. \A e \in Devices : ~Pending(e)'
    BY <2>2 DEF Pending
  <2>5. \A e \in Devices : life'[e] = IF e = d THEN "live" ELSE life[e]
    BY <2>1, <2>2, <2>3, <2>4 DEF life, Registered
  <2>6. life[d] = "pending"
    BY <2>1, <2>3 DEF life
  <2>7. Lifecycle!Becomes(d, "live")
    BY <2>1, <2>5, LifeChangesAt
  <2>8. Lifecycle!Enable(d, subject[r])
    BY <2>1, <2>2, <2>6, <2>7 DEF Lifecycle!Enable
  <2>9. QED
    BY <2>1, <2>8 DEF Lifecycle!Next
<1>5. ASSUME NEW r \in Requests, CommitDelete(r) PROVE [Lifecycle!Next]_(Lifecycle!vars)
  <2> DEFINE d == target[r]
  <2>1. CASE d \notin Registered \/ Unknown(r, {d}) # {}
    <3>0. UNCHANGED owner \/ (d \notin Registered /\ owner' = [owner EXCEPT ![d] = NoUser])
      BY <1>5, <2>1 DEF CommitDelete
    <3>1. UNCHANGED <<users, owner, drawn, clients>>
      BY <1>5, <3>0 DEF CommitDelete, Reported, Answer, Registered
    <3>2. QED
      BY <1>5, <3>1, StutterLife DEF CommitDelete, Reported, Answer, Goto
  <2>2. CASE d \in Registered /\ Unknown(r, {d}) = {}
    <3>1. /\ owner' = [owner EXCEPT ![d] = NoUser]
          /\ \E s \in {"204", "500"} : pc' = [pc EXCEPT ![r] = s]
          /\ pc[r] = "d_commit"
          /\ target' = [target EXCEPT ![r] = NoDevice]
          /\ UNCHANGED <<users, drawn, clients>>
      BY <1>5, <2>2 DEF CommitDelete, Reported, Answer, Goto
    <3>2. d \in drawn /\ d \in Devices /\ d \notin clients /\ ~Pending(d)
      BY <3>1 DEF Ownership, Honest, Settled
    <3>3. \A e \in Devices : Pending(e)' <=> Pending(e)
      BY <3>1 DEF Pending
    <3>4. \A e \in Devices : life'[e] = IF e = d THEN "gone" ELSE life[e]
      BY <2>2, <3>1, <3>2, <3>3 DEF life, Registered
    <3>5. life[d] = "disabled"
      BY <2>2, <3>2 DEF life
    <3>6. Lifecycle!Becomes(d, "gone")
      BY <3>2, <3>4, LifeChangesAt
    <3>7. Lifecycle!Retire(d)
      BY <3>1, <3>5, <3>6 DEF Lifecycle!Retire
    <3>8. QED
      BY <3>2, <3>7 DEF Lifecycle!Next
  <2>3. QED
    BY <2>1, <2>2
<1>6. ASSUME NEW r \in Requests, CommitDeleteUser(r)
      PROVE [Lifecycle!Next]_(Lifecycle!vars)
  <2> DEFINE u == subject[r]
  <2>0. /\ u \in Users
        /\ \A d \in doomedDevs[r] : d \in Devices /\ ~Pending(d) /\ owner[d] \in {u, NoUser}
        /\ \A d \in Devices : owner[d] \in users \cup {NoUser}
        /\ \A d \in Registered : d \in drawn /\ ~Pending(d)
    BY <1>6 DEF CommitDeleteUser, Ownership, Settled, ForeignKeys, Pending
  <2>1. CASE UNCHANGED <<users, owner>>
    BY <1>6, <2>1, StutterLife DEF CommitDeleteUser, Reported, Answer, Goto
  <2>2. CASE ~UNCHANGED <<users, owner>>
    <3>1. /\ DevicesOf(u) \subseteq doomedDevs[r]
          /\ users' = users \ {u}
          /\ owner' = [d \in Devices |-> IF d \in doomedDevs[r] THEN NoUser ELSE owner[d]]
          /\ \E s \in {"204", "500"} : pc' = [pc EXCEPT ![r] = s]
          /\ pc[r] = "u_commit"
          /\ target' = [target EXCEPT ![r] = NoDevice]
          /\ UNCHANGED <<drawn, clients>>
      BY <1>6, <2>2 DEF CommitDeleteUser, Reported, Answer, Goto
    <3>2. owner' = [d \in Devices |-> IF owner[d] = u THEN NoUser ELSE owner[d]]
      BY <2>0, <3>1 DEF DevicesOf
    <3>3. u \in users
      BY <2>0, <2>2, <3>1, <3>2
    <3>4. \A d \in Devices : Pending(d)' <=> Pending(d)
      BY <3>1 DEF Pending
    <3>5. life' = [d \in Devices |->
                     IF owner[d] # u THEN life[d]
                     ELSE IF life[d] = "live" THEN "orphan" ELSE "gone"]
      BY <2>0, <3>1, <3>2, <3>4 DEF life, Registered
    <3>6. Lifecycle!RemoveUser(u)
      BY <3>1, <3>2, <3>3, <3>5 DEF Lifecycle!RemoveUser
    <3>7. QED
      BY <2>0, <3>6 DEF Lifecycle!Next
  <2>3. QED
    BY <2>1, <2>2
<1>7. ASSUME NEW r \in Requests, pc[r] = "c_prov",
             \A q \in Requests : pc'[q] # "c_prov",
             UNCHANGED <<users, owner, drawn, clients>>
      PROVE Lifecycle!Next
  <2> DEFINE d == target[r]
  <2>1. d \in Devices /\ d \in drawn /\ d \notin Registered
    BY <1>7 DEF Ownership
  <2>2. \A e \in Devices : (Pending(e) <=> e = d) /\ ~Pending(e)'
    BY <1>7 DEF Pending
  <2> DEFINE l == IF d \in clients THEN "orphan" ELSE "gone"
  <2>3. \A e \in Devices : life'[e] = IF e = d THEN l ELSE life[e]
    BY <1>7, <2>1, <2>2 DEF life, Registered
  <2>4. life[d] = "pending"
    BY <2>1, <2>2 DEF life
  <2>5. Lifecycle!Becomes(d, l)
    BY <2>1, <2>3, LifeChangesAt
  <2>6. Lifecycle!Abandon(d)
    BY <1>7, <2>4, <2>5 DEF Lifecycle!Abandon
  <2>7. QED
    BY <2>1, <2>6 DEF Lifecycle!Next
<1>8. ASSUME NEW r \in Requests, Abort(r) PROVE [Lifecycle!Next]_(Lifecycle!vars)
  <2>1. CASE pc[r] = "c_prov"
    BY <1>7, <1>8, <2>1 DEF Abort, Answer, Goto
  <2>2. CASE pc[r] = "d_prov"
    BY <1>8, <2>2, StutterLife DEF Abort, Answer, Goto
  <2>3. QED
    BY <1>8, <2>1, <2>2 DEF Abort
<1>9. CASE Crash
  <2>1. UNCHANGED <<users, owner, drawn, clients>> /\ \A q \in Requests : pc'[q] # "c_prov"
    BY <1>9 DEF Crash
  <2>2. CASE \E r \in Requests : pc[r] = "c_prov"
    BY <1>7, <2>1, <2>2
  <2>3. CASE \A r \in Requests : pc[r] # "c_prov"
    BY <2>1, <2>3, StutterLife
  <2>4. QED
    BY <2>2, <2>3
<1>10. ASSUME NEW r \in Requests, Publish(r), UNCHANGED registry
       PROVE [Lifecycle!Next]_(Lifecycle!vars)
  <2> DEFINE d == target[r]
  <2>0. d \in Devices /\ UNCHANGED <<users, owner, drawn, pc, target>>
    BY <1>10 DEF Publish
  <2>1. CASE clients' = clients
    BY <2>0, <2>1, StutterLife
  <2>2. CASE command[r] = "createClient"
    <3>1. clients' \subseteq clients \cup {d} /\ clients \subseteq clients'
      BY <1>10, <2>2 DEF Publish, Execute
    <3>2. Pending(d) /\ d \notin Registered /\ d \in drawn
      BY <1>10, <2>2 DEF Publish, Ownership, Pending
    <3>3. \A e \in Devices : Pending(e)' <=> Pending(e)
      BY <2>0 DEF Pending
    <3>4. life' = life
      BY <2>0, <3>1, <3>2, <3>3 DEF life, Registered
    <3>5. QED
      BY <2>0, <3>4 DEF Lifecycle!vars
  <2>3. CASE command[r] = "deleteClient" /\ clients' # clients
    <3>1. clients' = clients \ {d} /\ d \in clients
      BY <1>10, <2>3 DEF Publish, Execute, Accepts
    <3>2. ~Pending(d) /\ d \in drawn
      BY <1>10, <2>3 DEF Publish, Ownership, Settled
    <3>3. \A e \in Devices : Pending(e)' <=> Pending(e)
      BY <2>0 DEF Pending
    <3> DEFINE l == IF d \in Registered THEN "disabled" ELSE "gone"
    <3>4. \A e \in Devices : life'[e] = IF e = d THEN l ELSE life[e]
      BY <2>0, <3>1, <3>2, <3>3 DEF life, Registered
    <3>5. life[d] = IF d \in Registered THEN "live" ELSE "orphan"
      BY <2>0, <3>1, <3>2 DEF life
    <3>6. Lifecycle!Becomes(d, l)
      BY <2>0, <3>4, LifeChangesAt
    <3>7. Lifecycle!Disable(d) \/ Lifecycle!Purge(d)
      BY <2>0, <3>5, <3>6 DEF Lifecycle!Disable, Lifecycle!Purge
    <3>8. QED
      BY <2>0, <3>7 DEF Lifecycle!Next
  <2>4. CASE command[r] \notin {"createClient", "deleteClient"}
    BY <1>10, <2>1, <2>4 DEF Publish, Execute
  <2>5. QED
    BY <2>1, <2>2, <2>3, <2>4
<1>11. ASSUME NEW r \in Requests, UNCHANGED registry,
              ProvisionFault(r) \/ Connect(r) \/ ReadReply(r) \/ TimeoutReply(r)
       PROVE UNCHANGED Lifecycle!vars
  BY <1>11, StutterLife DEF ProvisionFault, Connect, ReadReply,
    TimeoutReply, Refuse, Ignore, LinkFails, LogFails
<1>12. ASSUME NEW d \in Devices, NEW o \in Objects, DiscoverEntity(d, o)
       PROVE UNCHANGED Lifecycle!vars
  BY <1>12, StutterLife DEF DiscoverEntity
<1>13. CASE UNCHANGED vars
  BY <1>13, StutterLife DEF vars
<1>14. QED
  BY <1>1, <1>2, <1>3, <1>4, <1>5, <1>6, <1>8, <1>9, <1>10, <1>11, <1>12, <1>13
    DEF Next, Step, Handle, ProvisionStep

\* The registry and the broker implement DeviceLifecycle: a device becomes
\* usable only with row and account, and loses its row only after its account
\* or together with its owner.
THEOREM Implements == ASSUME Trustworthy PROVE Spec => ImplementsLifecycle
<1>1. Init => Lifecycle!Init
  BY DEF Init, ProvisioningInit, Lifecycle!Init, life
<1>2. Inv /\ [Next]_vars => [Lifecycle!Next]_(Lifecycle!vars)
  BY NextLife
<1>3. QED
  BY InvHolds, <1>1, <1>2, PTL DEF Spec, ImplementsLifecycle, Lifecycle!Spec

-----------------------------------------------------------------------------
(***************************************************************************)
(* Towards RequestsTerminate: StepsLeft is a natural number that no step   *)
(* raises and every step of the request lowers.                            *)
(***************************************************************************)
\* An answered request has no step left, and no request has more than eleven.
StepsCounted ==
  \A r \in Requests :
    /\ StepsLeft(r) \in 0 .. 11
    /\ pc[r] \in Busy <=> StepsLeft(r) # 0

LEMMA CountType == TypeOK => StepsCounted
BY DEF TypeOK, ProvisioningTypeOK, HandlersTypeOK, Coherent, Commands, Outcomes,
  Answers, Busy, CreateSteps, DeleteSteps, UserSteps, Provisions, StepsCounted,
  StepsLeft, HandlerLeft, ChainLeft

\* An answer leaves nothing to do.
LEMMA AnswerEnds ==
  ASSUME TypeOK, NEW r \in Requests, NEW status \in Answers, Answer(r, status),
         pc[r] \in Busy
  PROVE  StepsLeft(r)' < StepsLeft(r)
<1>1. pc'[r] = status /\ command'[r] = "none"
  BY DEF Answer, Goto, TypeOK, HandlersTypeOK, ProvisioningTypeOK
<1>2. StepsLeft(r)' = 0
  BY <1>1 DEF StepsLeft, HandlerLeft, ChainLeft, Answers, Commands
<1>3. StepsLeft(r) \in 0 .. 11 /\ StepsLeft(r) # 0
  BY CountType DEF StepsCounted
<1>4. QED
  BY <1>2, <1>3

\* A handler goes on to a later step, and starts each chain of commands once.
LEMMA HandlerConverges ==
  ASSUME TypeOK, NEW r \in Requests, Handle(r)
  PROVE  StepsLeft(r)' < StepsLeft(r)
<1> DEFINE Ends == pc[r] \in Busy /\ \E s \in Answers : Answer(r, s)
<1>0. Ends => StepsLeft(r)' < StepsLeft(r)
  BY AnswerEnds
<1>1. /\ pc[r] \in Busy \ Provisions => command[r] = "none" /\ link[r] = "down"
      /\ pc[r] \in Provisions => command[r] # "none"
      /\ command[r] \in Outcomes \cup {"none"} => link[r] = "down"
      /\ r \in DOMAIN pc /\ r \in DOMAIN command
  BY DEF TypeOK, ProvisioningTypeOK, HandlersTypeOK, Coherent, Commands, Outcomes
<1> HIDE DEF Ends
<1> USE DEF Busy, CreateSteps, DeleteSteps, UserSteps, Provisions, Outcomes
<1>2. CASE SelectUser(r)
  <2>1. CASE subject[r] \in users
    BY <1>1, <1>2, <2>1
    DEF SelectUser, Goto, StartChain, StepsLeft, HandlerLeft, ChainLeft, Commands, chain
  <2>2. CASE ~(subject[r] \in users)
    BY <1>0, <1>2, <2>2 DEF SelectUser, Reported, Answers, Ends
  <2>3. QED
    BY <2>1, <2>2
<1>3. CASE CountDevices(r)
  <2>1. CASE ~OverLimit(subject[r])
    BY <1>1, <1>3, <2>1
    DEF CountDevices, Goto, StartChain, StepsLeft, HandlerLeft, ChainLeft, Commands, chain
  <2>2. CASE ~(~OverLimit(subject[r]))
    BY <1>0, <1>3, <2>2 DEF CountDevices, Reported, Answers, Ends
  <2>3. QED
    BY <2>1, <2>2
<1>4. CASE Flush(r)
  <2>1. CASE subject[r] \in users
    BY <1>1, <1>4, <2>1
    DEF Flush, Goto, StartChain, StepsLeft, HandlerLeft, ChainLeft, Commands, chain
  <2>2. CASE ~(subject[r] \in users)
    BY <1>0, <1>4, <2>2 DEF Flush, Reported, Answers, Ends
  <2>3. QED
    BY <2>1, <2>2
<1>5. CASE Commit(r)
  BY <1>1, <1>5
  DEF Commit, Goto, StartChain, StepsLeft, HandlerLeft, ChainLeft, Commands, chain
<1>6. CASE Refresh(r)
  BY <1>0, <1>6 DEF Refresh, Reported, Answers, Writes, Ends
<1>7. CASE GetDevice(r)
  <2>1. CASE owner[target[r]] = caller[r]
    BY <1>1, <1>7, <2>1
    DEF GetDevice, Goto, StartChain, StepsLeft, HandlerLeft, ChainLeft, Commands, chain
  <2>2. CASE ~(owner[target[r]] = caller[r])
    BY <1>0, <1>7, <2>2 DEF GetDevice, Reported, Answers, Ends
  <2>3. QED
    BY <2>1, <2>2
<1>8. CASE LoadDevice(r)
  <2>1. CASE target[r] \in Registered
    BY <1>1, <1>8, <2>1
    DEF LoadDevice, Goto, StartChain, StepsLeft, HandlerLeft, ChainLeft, Commands, chain
  <2>2. CASE ~(target[r] \in Registered)
    BY <1>0, <1>8, <2>2 DEF LoadDevice, Reported, Answers, Ends
  <2>3. QED
    BY <2>1, <2>2
<1>9. CASE Cascade(r)
  BY <1>1, <1>9
  DEF Cascade, Goto, StartChain, StepsLeft, HandlerLeft, ChainLeft, Commands, chain
<1>10. CASE CommitDelete(r)
  BY <1>0, <1>10 DEF CommitDelete, Reported, Answers, Writes, Ends
<1>11. CASE GetUser(r)
  <2>1. CASE subject[r] \in users
    BY <1>1, <1>11, <2>1
    DEF GetUser, Goto, StartChain, StepsLeft, HandlerLeft, ChainLeft, Commands, chain
  <2>2. CASE ~(subject[r] \in users)
    BY <1>0, <1>11, <2>2 DEF GetUser, Reported, Answers, Ends
  <2>3. QED
    BY <2>1, <2>2
<1>12. CASE LoadUser(r)
  <2>1. CASE subject[r] \in users
    BY <1>1, <1>12, <2>1
    DEF LoadUser, Goto, StartChain, StepsLeft, HandlerLeft, ChainLeft, Commands, chain
  <2>2. CASE ~(subject[r] \in users)
    BY <1>0, <1>12, <2>2 DEF LoadUser, Reported, Answers, Ends
  <2>3. QED
    BY <2>1, <2>2
<1>13. CASE CascadeUser(r)
  BY <1>1, <1>13
  DEF CascadeUser, Goto, StartChain, StepsLeft, HandlerLeft, ChainLeft, Commands, chain
<1>14. CASE CascadeEntities(r)
  BY <1>1, <1>14
  DEF CascadeEntities, Goto, StartChain, StepsLeft, HandlerLeft, ChainLeft, Commands, chain
<1>15. CASE CommitDeleteUser(r)
  BY <1>0, <1>15 DEF CommitDeleteUser, Reported, Answers, Writes, Ends
<1>16. CASE Abort(r)
  BY <1>0, <1>16 DEF Abort, Reported, Answers, Writes, Ends
<1>17. CASE BusyTimeout(r)
  BY <1>0, <1>17 DEF BusyTimeout, Reported, Answers, Writes, Ends
<1>18. QED
  BY <1>2, <1>3, <1>4, <1>5, <1>6, <1>7, <1>8, <1>9, <1>10, <1>11, <1>12, <1>13,
    <1>14, <1>15, <1>16, <1>17 DEF Handle

\* Each command is sent at most once: connected, published, and then answered,
\* timed out or given up.
LEMMA ChainConverges ==
  ASSUME TypeOK, NEW r \in Requests, UNCHANGED registry,
         ProvisionStep(r) \/ Refuse(r) \/ Ignore(r) \/ LinkFails(r)
  PROVE  StepsLeft(r)' < StepsLeft(r)
<1>1. /\ command[r] \in Commands /\ pc' = pc
      /\ r \in DOMAIN link /\ r \in DOMAIN command
  BY DEF registry, ProvisionStep, Connect, Publish, Refuse, Ignore,
    ReadReply, TimeoutReply, LinkFails, TypeOK, ProvisioningTypeOK
<1>2. ChainLeft(command[r], link[r])' < ChainLeft(command[r], link[r])
  <2> USE <1>1 DEF ChainLeft, Commands, Outcomes
  <2>1. CASE Connect(r)
    BY <2>1 DEF Connect
  <2>2. CASE Publish(r) \/ Refuse(r) \/ Ignore(r)
    BY <2>2 DEF Publish, Refuse, Ignore
  <2>3. CASE ReadReply(r)
    BY <2>3 DEF ReadReply, Close, AfterReply
  <2>4. CASE TimeoutReply(r) \/ LinkFails(r)
    BY <2>4 DEF TimeoutReply, LinkFails, Close
  <2>5. QED
    BY <2>1, <2>2, <2>3, <2>4 DEF ProvisionStep
<1>3. /\ HandlerLeft(pc[r])' = HandlerLeft(pc[r]) /\ HandlerLeft(pc[r]) \in Nat
      /\ ChainLeft(command[r], link[r]) \in Nat /\ ChainLeft(command[r], link[r])' \in Nat
  BY <1>1 DEF HandlerLeft, ChainLeft
<1>4. QED
  BY <1>2, <1>3 DEF StepsLeft

\* A log that fails turns an outcome into another one.
LEMMA LogFailureKeeps ==
  ASSUME TypeOK, NEW r \in Requests, LogFails(r), UNCHANGED registry
  PROVE  StepsLeft(r)' = StepsLeft(r)
<1>1. /\ command[r] = "returned" /\ command'[r] = "raised"
      /\ pc' = pc /\ link' = link
  BY DEF LogFails, registry, TypeOK, ProvisioningTypeOK
<1>2. QED
  BY <1>1 DEF StepsLeft, ChainLeft, Commands

\* Who takes a step leaves the slots of all others as they are.
LEMMA OthersKeep ==
  ASSUME TypeOK, NEW q \in Requests, NEW r \in Requests, q # r,
         Arrive(q) \/ Step(q) \/ (ProvisionFault(q) /\ UNCHANGED registry)
  PROVE  StepsLeft(r)' = StepsLeft(r)
<1> SUFFICES pc'[r] = pc[r] /\ command'[r] = command[r] /\ link'[r] = link[r]
  BY DEF StepsLeft
<1> USE DEF TypeOK, HandlersTypeOK, ProvisioningTypeOK, Goto, StartChain, Answer,
  Reported, Close, chain, registry
<1>1. CASE Arrive(q)
  BY <1>1 DEF Arrive, StartCreate, StartDelete, StartDeleteUser
<1>2. CASE Handle(q)
  <2>1. CASE SelectUser(q) \/ CountDevices(q) \/ Flush(q) \/ Commit(q) \/ Refresh(q)
    BY <2>1 DEF SelectUser, CountDevices, Flush, Commit, Refresh
  <2>2. CASE GetDevice(q) \/ LoadDevice(q) \/ Cascade(q) \/ CommitDelete(q)
    BY <2>2 DEF GetDevice, LoadDevice, Cascade, CommitDelete
  <2>3. CASE GetUser(q) \/ LoadUser(q) \/ CascadeUser(q) \/ CascadeEntities(q) \/ CommitDeleteUser(q)
    BY <2>3 DEF GetUser, LoadUser, CascadeUser, CascadeEntities, CommitDeleteUser
  <2>4. CASE Abort(q) \/ BusyTimeout(q)
    BY <2>4 DEF Abort, BusyTimeout
  <2>5. QED
    BY <1>2, <2>1, <2>2, <2>3, <2>4 DEF Handle
<1>3. CASE ProvisionStep(q) /\ UNCHANGED registry
  BY <1>3 DEF ProvisionStep, Connect, Publish, ReadReply, TimeoutReply
<1>4. CASE ProvisionFault(q) /\ UNCHANGED registry
  BY <1>4 DEF ProvisionFault, Refuse, Ignore, LinkFails, LogFails
<1>5. QED
  BY <1>1, <1>2, <1>3, <1>4 DEF Step

LEMMA NextConverges == TypeOK /\ [Next]_vars => Converges
<1> SUFFICES ASSUME TypeOK, [Next]_vars, NEW r \in Requests, pc[r] \in Busy
             PROVE  /\ StepsLeft(r)' <= StepsLeft(r)
                    /\ Step(r) => StepsLeft(r)' < StepsLeft(r)
  BY DEF Converges
<1>1. StepsLeft(r) \in Nat /\ StepsLeft(r)' \in Nat
  <2>1. (TypeOK => StepsCounted)'
    BY CountType, PTL
  <2>2. QED
    BY <2>1, NextType, CountType DEF StepsCounted
<1>2. /\ Step(r) => StepsLeft(r)' < StepsLeft(r)
      /\ ProvisionFault(r) /\ UNCHANGED registry => StepsLeft(r)' <= StepsLeft(r)
  <2>1. Step(r) => StepsLeft(r)' < StepsLeft(r)
    BY HandlerConverges, ChainConverges DEF Step
  <2>2. ASSUME ProvisionFault(r), UNCHANGED registry
        PROVE  StepsLeft(r)' <= StepsLeft(r)
    <3>1. CASE Refuse(r) \/ Ignore(r) \/ LinkFails(r)
      BY <1>1, <2>2, <3>1, ChainConverges
    <3>2. CASE LogFails(r)
      BY <1>1, <2>2, <3>2, LogFailureKeeps
    <3>3. QED
      BY <2>2, <3>1, <3>2 DEF ProvisionFault
  <2>3. QED
    BY <2>1, <2>2
<1>3. ~Arrive(r)
  BY DEF Arrive, StartCreate, StartDelete, StartDeleteUser, Busy, Answers,
    CreateSteps, DeleteSteps, UserSteps
<1>4. ASSUME NEW q \in Requests,
             Arrive(q) \/ Step(q) \/ (ProvisionFault(q) /\ UNCHANGED registry)
      PROVE  StepsLeft(r)' <= StepsLeft(r)
  BY <1>1, <1>2, <1>3, <1>4, OthersKeep
<1>5. StepsLeft(r)' <= StepsLeft(r)
  <2>1. CASE \E d \in Devices, o \in Objects : DiscoverEntity(d, o)
    <3>1. StepsLeft(r)' = StepsLeft(r)
      BY <2>1 DEF DiscoverEntity, chain, StepsLeft
    <3>2. QED
      BY <1>1, <3>1
  <2>2. CASE Crash
    <3>1. pc'[r] = "idle" /\ command'[r] = "none"
      BY <2>2 DEF Crash
    <3>2. StepsLeft(r)' = 0
      BY <3>1 DEF StepsLeft, HandlerLeft, ChainLeft, Commands
    <3>3. QED
      BY <1>1, <3>2
  <2>3. CASE UNCHANGED vars
    <3>1. StepsLeft(r)' = StepsLeft(r)
      BY <2>3 DEF vars, chain, registry, StepsLeft
    <3>2. QED
      BY <1>1, <3>1
  <2>4. QED
    BY <1>4, <2>1, <2>2, <2>3 DEF Next
<1>6. QED
  BY <1>2, <1>5

\* The safety half of RequestsTerminate: a request is answered after at most
\* eleven steps of its own, whatever other requests, the broker, failing links
\* and the ingestor do between them; fairness only has to grant these steps.
THEOREM ElevenSteps == Spec => []StepsCounted /\ NoWayBack
<1>1. QED
  BY InitType, NextType, CountType, NextConverges, PTL DEF Spec, NoWayBack

=============================================================================
