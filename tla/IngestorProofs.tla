--------------------------- MODULE IngestorProofs ---------------------------
(***************************************************************************)
(* The safety properties of Ingestor, and that it implements StateCache,   *)
(* for any users, devices, objects, values, and any length of the inbox.   *)
(*                                                                         *)
(* The handlers use rows that they have read before an await.  What they   *)
(* rely on is Fresh: a device that was registered then still has its rows, *)
(* or never has any again.  That a state is never replaced by an older one *)
(* needs the order of what is on its way (Ordered): behind the row comes   *)
(* the message in hand, then the inbox, then the device.                   *)
(* Described says the same of descriptions the broker retains: the rows    *)
(* have them, or the present connection still brings them.                 *)
(***************************************************************************)
EXTENDS Ingestor, StateCacheProofs, SequenceTheorems, FiniteSetTheorems

USE UserAssumption, ValueAssumption, EntityAssumption, ConfigAssumption, BoundAssumption
    DEF Registered

Fresh ==
  pc = "store" =>
    /\ life[msg.entity[1]] \notin {"fresh", "pending"}
    /\ msg.kind = "state" /\ Row(msg.entity[1]) => Known(msg.entity)
    /\ msg.kind = "config" => msg.config \in {"plain", "command", "foreign"}

\* e and v are the entity and the value of a state message.
IsState(m, e, v) == m.kind = "state" /\ m.entity = e /\ m.value = v

Waiting(e, v) == \E i \in 1 .. Len(inbox) : IsState(inbox[i], e, v)

InHand(e, v) == msg # NoMessage /\ IsState(msg, e, v)

Coming(e, v) == Waiting(e, v) \/ InHand(e, v)

\* What is on its way is in order, and the device is ahead of it...
MessagesOrdered ==
  \A e \in Entities, v \in 0 .. MaxValue, w \in 0 .. MaxValue :
    /\ Coming(e, v) => v <= state[e]
    /\ InHand(e, v) /\ Waiting(e, w) => v <= w
    /\ \A i, j \in 1 .. Len(inbox) :
         i < j /\ IsState(inbox[i], e, v) /\ IsState(inbox[j], e, w) => v <= w

\* ... and the row is behind it.
RowsBehind ==
  \A e \in Entities :
    Known(e) => /\ cached[e].value <= state[e]
                /\ \A v \in 0 .. MaxValue : Coming(e, v) => cached[e].value <= v

Ordered == MessagesOrdered /\ RowsBehind

Unsubscribed == conn = "down" => subs = {}

\* m describes entity e, and the handler can use it.
Describes(m, e) == m.kind = "config" /\ m.entity = e /\ m.config \in Usable

OnItsWay(e) ==
  \/ \E i \in 1 .. Len(inbox) : Describes(inbox[i], e)
  \/ msg # NoMessage /\ Describes(msg, e)

\* What a registered device has described in a retained message is known, or
\* comes to the handler on the present connection.
Described ==
  /\ \A e \in Entities : retained[e] # "none" => life[e[1]] \notin {"fresh", "pending"}
  /\ conn = "up" =>
       \A e \in Entities : Row(e[1]) /\ retained[e] \in Usable => Known(e) \/ OnItsWay(e)

IInv == TypeOK /\ Registered /\ NoGhosts /\ Fresh /\ Unsubscribed /\ Ordered /\ Described

-----------------------------------------------------------------------------
(***************************************************************************)
(* TypeOK, NoGhosts and Fresh.                                             *)
(***************************************************************************)
Typed == TypeOK /\ Registered /\ NoGhosts /\ Fresh

\* The cache's own variables keep their types and no row appears behind a
\* registered device, if the step is one of the cache.
LEMMA CacheKept ==
  ASSUME Typed, CacheNext \/ UNCHANGED cacheVars
  PROVE  CacheTypeOK' /\ Registered' /\ NoGhosts'
<1>1. CacheTypeOK
  BY DEF Typed, TypeOK
<1>2. CASE UNCHANGED cacheVars
  BY <1>1, <1>2 DEF Typed, CacheTypeOK, NoGhosts, Known, Row, cacheVars, devices, cache
<1>3. CASE CacheNext
  <2>1. CacheTypeOK'
    BY <1>1, <1>3, CacheStep DEF Typed
  <2>2. CASE Registry
    <3>1. Registered'
      BY <1>1, <2>2, RegistryStep DEF Typed, Registry
    <3>2. NoGhosts'
      BY <1>1, <2>2 DEF Registry, NoGhosts, Known, Row, Entities, CacheTypeOK
    <3> QED BY <2>1, <3>1, <3>2
  <2>3. CASE UNCHANGED devices /\ ~Registry
    <3>1. Registered'
      BY <2>3 DEF Typed, devices
    <3>2. NoGhosts'
      <4> USE <1>1, <2>3 DEF Typed, NoGhosts, Known, Row, Entities, CacheTypeOK, devices
      <4>1. CASE \E e \in Entities : NewState(e) /\ UNCHANGED <<devices, cache>>
        BY <4>1 DEF cache
      <4>2. CASE \E e \in Entities, c \in {"none", "command"} : Discover(e, c)
        BY <4>2 DEF Discover
      <4>3. CASE \E e \in Entities, v \in 0 .. MaxValue : Refresh(e, v)
        BY <4>3 DEF Refresh
      <4>4. CASE \E d \in Devices, b \in BOOLEAN : Switch(d, b)
        BY <4>4 DEF Switch
      <4> QED BY <1>3, <4>1, <4>2, <4>3, <4>4 DEF CacheNext
    <3> QED BY <2>1, <3>1, <3>2
  <2> QED BY <1>3, <2>2, <2>3 DEF CacheNext, NewState, Discover, Refresh, Switch
<1> QED BY <1>2, <1>3

LEMMA Inbox ==
  ASSUME NEW S, NEW q \in Seq(S)
  PROVE  /\ Len(q) \in Nat
         /\ \A i \in 1 .. Len(q) : q[i] \in S
         /\ \A m \in S : /\ Append(q, m) \in Seq(S) /\ Len(Append(q, m)) = Len(q) + 1
                         /\ \A i \in 1 .. Len(q) : Append(q, m)[i] = q[i]
                         /\ Append(q, m)[Len(q) + 1] = m
         /\ q # <<>> => /\ Head(q) \in S /\ Tail(q) \in Seq(S)
                        /\ Len(Tail(q)) = Len(q) - 1 /\ Head(q) = q[1] /\ 1 <= Len(q)
                        /\ \A i \in 1 .. Len(Tail(q)) : Tail(q)[i] = q[i + 1]
<1>1. Len(q) \in Nat
  BY LenProperties
<1>2. \A i \in 1 .. Len(q) : q[i] \in S
  BY ElementOfSeq
<1>3. \A m \in S : /\ Append(q, m) \in Seq(S) /\ Len(Append(q, m)) = Len(q) + 1
                   /\ \A i \in 1 .. Len(q) : Append(q, m)[i] = q[i]
                   /\ Append(q, m)[Len(q) + 1] = m
  BY AppendProperties
<1>4. ASSUME q # <<>>
      PROVE  /\ Head(q) \in S /\ Tail(q) \in Seq(S)
             /\ Len(Tail(q)) = Len(q) - 1 /\ Head(q) = q[1] /\ 1 <= Len(q)
             /\ \A i \in 1 .. Len(Tail(q)) : Tail(q)[i] = q[i + 1]
  <2>1. /\ Head(q) \in S /\ Tail(q) \in Seq(S) /\ Len(Tail(q)) = Len(q) - 1
        /\ \A i \in 1 .. Len(Tail(q)) : Tail(q)[i] = q[i + 1]
    BY <1>4, HeadTailProperties
  <2>2. 1 <= Len(q)
    BY <1>1, <1>4, EmptySeq
  <2>3. Head(q) = q[1]
    OBVIOUS
  <2> QED BY <2>1, <2>2, <2>3
<1> QED BY <1>1, <1>2, <1>3, <1>4

-----------------------------------------------------------------------------
(***************************************************************************)
(* Every step is a step of StateCache.                                     *)
(***************************************************************************)
LEMMA CommitRefines ==
  ASSUME IInv, Commit
  PROVE  CacheNext
<1>1. /\ pc = "store" /\ ~Locked /\ Row(msg.entity[1])
      /\ UNCHANGED <<devices, state>>
      /\ msg \in Messages
  BY DEF Commit, Return, RowsRemain, IInv, TypeOK
<1>2. msg.entity \in Entities /\ msg.entity[1] \in Devices
  BY <1>1 DEF Messages, Entities
<1>3. CASE msg.kind = "availability"
  <2>1. msg.online \in BOOLEAN
    BY <1>1, <1>3 DEF Messages
  <2>2. Switch(msg.entity[1], msg.online)
    BY <1>1, <1>3 DEF Commit, Switch
  <2> QED BY <1>2, <2>1, <2>2 DEF CacheNext
<1>4. CASE msg.kind = "config"
  <2>1. Scoped(msg.config) \in {"none", "command"}
    BY DEF Scoped
  <2>2. Discover(msg.entity, Scoped(msg.config))
    BY <1>1, <1>4 DEF Commit, Stored, Discover
  <2> QED BY <1>2, <2>1, <2>2 DEF CacheNext
<1>5. CASE msg.kind = "state"
  <2>1. Known(msg.entity)
    BY <1>1, <1>5 DEF IInv, Fresh
  <2>2. msg.value \in 1 .. MaxValue /\ msg # NoMessage
    BY <1>1, <1>5 DEF Messages, IInv, TypeOK
  <2>3. cached[msg.entity].value <= msg.value /\ msg.value <= state[msg.entity]
    <3>1. InHand(msg.entity, msg.value)
      BY <1>5, <2>2 DEF InHand, IsState
    <3>2. msg.value \in 0 .. MaxValue
      BY <2>2
    <3> QED BY <1>2, <2>1, <3>1, <3>2 DEF IInv, Ordered, RowsBehind, MessagesOrdered, Coming
  <2>4. cached[msg.entity].value \in Nat /\ state[msg.entity] \in Nat
    BY <1>2, <2>1 DEF IInv, TypeOK, CacheTypeOK, Known
  <2>5. msg.value \in cached[msg.entity].value .. state[msg.entity]
    BY <2>2, <2>3, <2>4
  <2>6. cached' = [cached EXCEPT ![msg.entity].value = msg.value] /\ UNCHANGED online
    BY <1>1, <1>2, <1>5 DEF Commit, Stored
  <2>7. Refresh(msg.entity, msg.value)
    BY <1>1, <2>1, <2>5, <2>6 DEF Refresh
  <2> QED BY <1>2, <2>2, <2>7 DEF CacheNext
<1> QED BY <1>1, <1>3, <1>4, <1>5 DEF Messages

LEMMA Refines ==
  ASSUME IInv, [Next]_vars
  PROVE  [CacheNext]_cacheVars
<1>1. CASE Registry
  BY <1>1 DEF CacheNext
<1>2. ASSUME NEW e \in Entities, Report(e) PROVE CacheNext
  <2>1. NewState(e) /\ UNCHANGED <<devices, cache>>
    BY <1>2 DEF Report, devices, cache
  <2> QED BY <2>1 DEF CacheNext
<1>3. CASE Commit
  BY <1>3, CommitRefines
<1>4. CASE UNCHANGED cacheVars
  BY <1>4
<1>5. ASSUME DeviceStep, ~\E e \in Entities : Report(e) PROVE UNCHANGED cacheVars
  BY <1>5 DEF DeviceStep, Announce, ChangeAvailability
<1>6. ASSUME Task, ~Commit PROVE UNCHANGED cacheVars
  BY <1>6 DEF Task, WakeUp, LoadPrefixes, Connect, Listen, NoticeLoss, Subscribe, Receive,
              Ignore, HandlerRaises, ReadRows, CommitRaises, Raise, Return,
              cacheVars, cache, devices
<1>7. ASSUME Fault PROVE UNCHANGED cacheVars
  BY <1>7 DEF Fault, CallFails, LogFails, LoseLink, Restart, Raise
<1> QED BY <1>1, <1>2, <1>3, <1>4, <1>5, <1>6, <1>7 DEF Next, vars

-----------------------------------------------------------------------------
(***************************************************************************)
(* The types of the task, and what it knows of the rows it has read.       *)
(***************************************************************************)
TaskTypeOK ==
  /\ pc \in Places
  /\ delay \in 1 .. MaxDelay
  /\ conn \in {"down", "up", "lost"}
  /\ plan \subseteq Devices
  /\ subs \subseteq plan
  /\ inbox \in Seq(Messages)
  /\ msg \in Messages \cup {NoMessage}
  /\ msg # NoMessage <=> pc \in {"read", "store"}
  /\ conn = "down" <=> pc \in {"load", "connect", "backoff", "log_error"}
  /\ Unsubscribed

\* What the broker sends to a new subscriber is a queue of discovery messages,
\* of all that it retains.
LEMMA Queued ==
  ASSUME TypeOK, Connect
  PROVE  /\ inbox' \in Seq(Messages)
         /\ \A i \in 1 .. Len(inbox') : inbox'[i].kind = "config"
         /\ \A m \in Redelivered : \E i \in 1 .. Len(inbox') : inbox'[i] = m
<1>1. IsFiniteSet(Redelivered)
  <2>1. IsFiniteSet(Entities)
    BY FiniteAssumption, FS_Product DEF Entities
  <2>2. IsFiniteSet({f \in Entities : retained[f] # "none"})
    BY <2>1, FS_Subset
  <2> DEFINE R == {f \in Entities : retained[f] # "none"}
             kept == [e \in R |-> [kind |-> "config", entity |-> e, config |-> retained[e]]]
  <2>3. kept \in Surjection(R, Redelivered)
    BY DEF Redelivered, Surjection
  <2> QED BY <2>2, <2>3, FS_Surjection
<1>2. Cardinality(Redelivered) \in Nat
  BY <1>1, FS_CardinalityType
<1>3. Redelivered \subseteq {m \in Messages : m.kind = "config"}
  BY DEF Redelivered, Messages, TypeOK
<1>4. PICK queue \in [1 .. Cardinality(Redelivered) -> Redelivered] :
        /\ \A m \in Redelivered : \E i \in DOMAIN queue : queue[i] = m
        /\ inbox' = queue
  BY DEF Connect
<1>5. queue \in Seq(Redelivered) /\ Len(queue) = Cardinality(Redelivered)
  BY <1>2
<1>6. \A i \in 1 .. Len(queue) : queue[i] \in Redelivered
  BY <1>4, <1>5
<1>7. queue \in Seq(Messages)
  BY <1>2, <1>3, <1>4
<1> QED BY <1>3, <1>4, <1>5, <1>6, <1>7

LEMMA EmptyInbox == <<>> \in Seq(Messages) /\ Len(<<>>) = 0
OBVIOUS

\* An error or a restart drops the connection and what waits on it.
LEMMA TaskDown ==
  ASSUME TaskTypeOK, pc' \in {"load", "backoff"}, conn' = "down", subs' = {},
         inbox' = <<>>, msg' = NoMessage, plan' = plan, delay' \in 1 .. MaxDelay
  PROVE  TaskTypeOK'
<1>1. inbox' \in Seq(Messages)
  BY EmptyInbox
<1> QED BY <1>1 DEF TaskTypeOK, Unsubscribed, Places

LEMMA Delivered ==
  ASSUME TaskTypeOK, NEW b, NEW m \in Messages, Deliver(b, m),
         UNCHANGED <<pc, delay, conn, plan, subs, msg>>
  PROVE  TaskTypeOK'
<1>1. inbox' \in Seq(Messages)
  <2>1. inbox \in Seq(Messages)
    BY DEF TaskTypeOK, Unsubscribed
  <2>2. Append(inbox, m) \in Seq(Messages)
    BY <2>1, Inbox
  <2> QED BY <2>1, <2>2 DEF Deliver
<1> QED BY <1>1 DEF TaskTypeOK, Unsubscribed

LEMMA TaskTypes ==
  ASSUME IInv, [Next]_vars
  PROVE  TaskTypeOK'
<1>1. TaskTypeOK /\ CacheTypeOK
  BY DEF IInv, TypeOK, TaskTypeOK
<1>2. CASE UNCHANGED ingestor
  BY <1>1, <1>2 DEF TaskTypeOK, Unsubscribed, ingestor
<1>3. ASSUME DeviceStep PROVE TaskTypeOK'
  <2>1. ASSUME NEW e \in Entities, NEW c \in Configs, NEW kept \in BOOLEAN,
               Announce(e, c, kept)
        PROVE  TaskTypeOK'
    <3>1. [kind |-> "config", entity |-> e, config |-> c] \in Messages
      BY DEF Messages
    <3> QED BY <1>1, <2>1, <3>1, Delivered DEF Announce
  <2>2. ASSUME NEW e \in Entities, Report(e) PROVE TaskTypeOK'
    <3>1. state'[e] \in 1 .. MaxValue
      BY <1>1, <2>2 DEF Report, NewState, CacheTypeOK
    <3>2. [kind |-> "state", entity |-> e, value |-> state'[e]] \in Messages
      BY <3>1 DEF Messages
    <3> QED BY <1>1, <2>2, <3>2, Delivered DEF Report
  <2>3. ASSUME NEW e \in Entities, NEW b \in BOOLEAN, ChangeAvailability(e, b)
        PROVE  TaskTypeOK'
    <3>1. [kind |-> "availability", entity |-> e, online |-> b] \in Messages
      BY DEF Messages
    <3> QED BY <1>1, <2>3, <3>1, Delivered DEF ChangeAvailability
  <2> QED BY <1>3, <2>1, <2>2, <2>3 DEF DeviceStep
<1>4. ASSUME Fault PROVE TaskTypeOK'
  <2>1. ASSUME Raise PROVE TaskTypeOK'
    BY <1>1, <2>1, TaskDown DEF Raise, TaskTypeOK
  <2>2. CASE CallFails
    BY <2>1, <2>2 DEF CallFails
  <2>3. CASE LoseLink
    BY <1>1, <2>3 DEF LoseLink, TaskTypeOK, Unsubscribed
  <2>4. CASE Restart
    BY <1>1, <2>4, TaskDown DEF Restart
  <2>5. CASE LogFails
    BY <1>1, <2>5 DEF LogFails, TaskTypeOK, Unsubscribed, Places
  <2> QED BY <1>4, <2>2, <2>3, <2>4, <2>5 DEF Fault
<1>5. ASSUME Task PROVE TaskTypeOK'
  <2> USE <1>1 DEF TaskTypeOK, Unsubscribed, Places
  <2>1. CASE NoticeLoss \/ HandlerRaises \/ CommitRaises
    BY <2>1, TaskDown DEF NoticeLoss, HandlerRaises, CommitRaises, Raise
  <2>2. CASE WakeUp
    BY <2>2 DEF WakeUp, Longer
  <2>3. CASE LoadPrefixes
    BY <2>3 DEF LoadPrefixes
  <2>4. CASE Listen \/ ReadRows
    BY <2>4 DEF Listen, ReadRows
  <2>8. CASE Connect
    <3>1. inbox' \in Seq(Messages)
      BY <2>8, Queued DEF IInv
    <3> QED BY <2>8, <3>1 DEF Connect
  <2>5. CASE \E d \in Devices : Subscribe(d)
    BY <2>5 DEF Subscribe
  <2>6. CASE Receive
    <3>1. Head(inbox) \in Messages /\ Tail(inbox) \in Seq(Messages)
      BY <2>6, Inbox DEF Receive
    <3> QED BY <2>6, <3>1, MessageAssumption DEF Receive
  <2>7. CASE Ignore \/ Commit
    BY <2>7 DEF Ignore, Commit, Return
  <2> QED BY <1>5, <2>1, <2>2, <2>3, <2>4, <2>5, <2>6, <2>7, <2>8 DEF Task
<1> QED BY <1>2, <1>3, <1>4, <1>5 DEF Next, vars

LEMMA FreshStep ==
  ASSUME IInv, [Next]_vars
  PROVE  Fresh'
<1> SUFFICES ASSUME pc' = "store"
             PROVE  /\ life'[msg'.entity[1]] \notin {"fresh", "pending"}
                    /\ msg'.kind = "state" /\ owner'[msg'.entity[1]] # NoUser
                         => cached'[msg'.entity] # NoEntity
                    /\ msg'.kind = "config" => msg'.config \in {"plain", "command", "foreign"}
  BY DEF Fresh, Row, Known
<1>1. CacheTypeOK /\ Registered /\ TypeOK
  BY DEF IInv, TypeOK
<1>2. \/ ReadRows
      \/ pc = "store" /\ msg' = msg /\ Registry
      \/ pc = "store" /\ msg' = msg /\ UNCHANGED <<devices, cached>>
  BY DEF Next, DeviceStep, Announce, Report, ChangeAvailability, Task, WakeUp, LoadPrefixes,
         Connect, Listen, NoticeLoss, Subscribe, Receive, Ignore, HandlerRaises, Commit,
         CommitRaises, Fault, CallFails, LogFails, LoseLink, Restart, Raise, Return,
         cacheVars, cache, ingestor, vars
<1>3. CASE ReadRows
  <2>1. /\ msg \in Messages /\ Row(msg.entity[1]) /\ ~Ignored /\ ~Poisoned
        /\ UNCHANGED <<msg, devices, cached>>
    BY <1>1, <1>3 DEF ReadRows, Ignored, TypeOK, cacheVars, cache
  <2>2. msg.entity[1] \in Devices
    BY <2>1 DEF Messages, Entities
  <2>3. life[msg.entity[1]] \in {"live", "disabled"}
    BY <1>1, <2>1, <2>2 DEF Row
  <2>4. msg.kind = "state" => Known(msg.entity)
    BY <2>1 DEF Ignored
  <2>5. msg.kind = "config" => msg.config \in {"plain", "command", "foreign"}
    <3>1. msg.kind = "config" => msg.config \in ConfigKinds
      BY <2>1 DEF Messages
    <3> QED BY <2>1, <3>1 DEF Ignored, Poisoned, ConfigKinds
  <2> QED BY <2>1, <2>3, <2>4, <2>5 DEF devices, Known, Row
<1>4. ASSUME pc = "store", msg' = msg
      PROVE  /\ msg.entity \in Entities /\ msg.entity[1] \in Devices
             /\ life[msg.entity[1]] \notin {"fresh", "pending"}
             /\ msg.kind = "state" /\ Row(msg.entity[1]) => Known(msg.entity)
             /\ msg.kind = "config" => msg.config \in {"plain", "command", "foreign"}
  <2>1. msg \in Messages
    BY <1>1, <1>4 DEF TypeOK
  <2>2. msg.entity \in Entities /\ msg.entity[1] \in Devices
    BY <2>1 DEF Messages, Entities
  <2> QED BY <1>4, <2>2 DEF IInv, Fresh
<1>5. CASE pc = "store" /\ msg' = msg /\ Registry
  <2>1. /\ life'[msg.entity[1]] \notin {"fresh", "pending"}
        /\ owner'[msg.entity[1]] \in {owner[msg.entity[1]], NoUser}
    BY <1>1, <1>4, <1>5, RegistryStep DEF Registry
  <2>2. owner'[msg.entity[1]] # NoUser => cached'[msg.entity] = cached[msg.entity]
    BY <1>1, <1>4, <1>5 DEF Registry
  <2>3. owner'[msg.entity[1]] # NoUser => owner[msg.entity[1]] # NoUser
    BY <2>1
  <2> QED BY <1>4, <1>5, <2>1, <2>2, <2>3 DEF Row, Known
<1>6. CASE pc = "store" /\ msg' = msg /\ UNCHANGED <<devices, cached>>
  BY <1>4, <1>6 DEF devices, Row, Known
<1> QED BY <1>2, <1>3, <1>5, <1>6

-----------------------------------------------------------------------------
(***************************************************************************)
(* The order of what is on its way.                                        *)
(***************************************************************************)
\* Nothing comes that did not come before, except what the device reports now.
NothingOlder ==
  \A e \in Entities, v \in 0 .. MaxValue : Coming(e, v)' => Coming(e, v) \/ v = state'[e]

StatesGrow == \A e \in Entities : state[e] <= state'[e]

LEMMA MessagesKept ==
  ASSUME IInv, CacheTypeOK', StatesGrow, inbox' = inbox, msg' = msg \/ msg' = NoMessage
  PROVE  MessagesOrdered' /\ NothingOlder
<1>1. \A e \in Entities, v \in 0 .. MaxValue :
        /\ Waiting(e, v)' <=> Waiting(e, v)
        /\ InHand(e, v)' => InHand(e, v)
  BY DEF Waiting, InHand, IsState
<1>2. \A e \in Entities : state[e] \in Nat /\ state'[e] \in Nat
  BY DEF IInv, TypeOK, CacheTypeOK
<1>3. \A e \in Entities, v \in 0 .. MaxValue : Coming(e, v)' => Coming(e, v)
  BY <1>1 DEF Coming
<1>4. MessagesOrdered
  BY DEF IInv, Ordered
<1>5. ASSUME NEW e \in Entities, NEW v \in 0 .. MaxValue, NEW w \in 0 .. MaxValue
      PROVE  /\ Coming(e, v)' => v <= state'[e]
             /\ InHand(e, v)' /\ Waiting(e, w)' => v <= w
             /\ \A i, j \in 1 .. Len(inbox') :
                  i < j /\ IsState(inbox'[i], e, v) /\ IsState(inbox'[j], e, w) => v <= w
  <2>1. Coming(e, v)' => v <= state'[e]
    <3>1. Coming(e, v)' => v <= state[e]
      BY <1>3, <1>4 DEF MessagesOrdered
    <3>2. state[e] \in Nat /\ state'[e] \in Nat /\ state[e] <= state'[e] /\ v \in Nat
      BY <1>2 DEF StatesGrow
    <3> QED BY <3>1, <3>2
  <2>2. InHand(e, v)' /\ Waiting(e, w)' => v <= w
    BY <1>1, <1>4 DEF MessagesOrdered
  <2>3. \A i, j \in 1 .. Len(inbox') :
          i < j /\ IsState(inbox'[i], e, v) /\ IsState(inbox'[j], e, w) => v <= w
    BY <1>4 DEF MessagesOrdered, IsState
  <2> QED BY <2>1, <2>2, <2>3
<1> QED BY <1>3, <1>5 DEF MessagesOrdered, NothingOlder, IsState

LEMMA MessagesDropped ==
  ASSUME inbox' = <<>>, msg' = NoMessage
  PROVE  MessagesOrdered' /\ NothingOlder
<1>1. Len(inbox') = 0
  BY EmptyInbox
<1>2. \A e \in Entities, v \in 0 .. MaxValue : ~Waiting(e, v)' /\ ~InHand(e, v)'
  BY <1>1 DEF Waiting, InHand
<1> QED BY <1>1, <1>2 DEF MessagesOrdered, Coming, NothingOlder

\* A message that is delivered goes behind all others.
LEMMA MessagesAppended ==
  ASSUME IInv, CacheTypeOK', StatesGrow, NEW m \in Messages, inbox' = Append(inbox, m),
         msg' = msg, m.kind = "state" => m.value = state'[m.entity]
  PROVE  MessagesOrdered' /\ NothingOlder
<1> DEFINE n == Len(inbox)
<1>1. /\ n \in Nat /\ Len(inbox') = n + 1 /\ inbox'[n + 1] = m
      /\ \A i \in 1 .. n : inbox'[i] = inbox[i]
  BY Inbox DEF IInv, TypeOK
<1>2. \A e \in Entities : state[e] \in Nat /\ state'[e] \in Nat
  BY DEF IInv, TypeOK, CacheTypeOK
<1>3. \A e \in Entities, v \in 0 .. MaxValue : IsState(m, e, v) => v = state'[e]
  BY DEF IsState
<1>4. \A e \in Entities, v \in 0 .. MaxValue :
        /\ Waiting(e, v)' <=> Waiting(e, v) \/ IsState(m, e, v)
        /\ InHand(e, v)' <=> InHand(e, v)
  <2> TAKE e \in Entities, v \in 0 .. MaxValue
  <2>1. Waiting(e, v)' <=> \E i \in 1 .. n + 1 : IsState(inbox'[i], e, v)
    BY <1>1 DEF Waiting
  <2>2. \A i \in 1 .. n + 1 : IsState(inbox'[i], e, v)
                                <=> IF i = n + 1 THEN IsState(m, e, v) ELSE IsState(inbox[i], e, v)
    BY <1>1
  <2>3. Waiting(e, v) <=> \E i \in 1 .. n : IsState(inbox[i], e, v)
    BY DEF Waiting
  <2> HIDE DEF n
  <2> QED BY <1>1, <2>1, <2>2, <2>3 DEF InHand
<1>5. ASSUME NEW e \in Entities, NEW v \in 0 .. MaxValue, NEW w \in 0 .. MaxValue,
             NEW i \in 1 .. n + 1, NEW j \in 1 .. n + 1, i < j,
             IsState(inbox'[i], e, v), IsState(inbox'[j], e, w)
      PROVE  v <= w
  <2>1. i \in 1 .. n /\ IsState(inbox[i], e, v)
    BY <1>1, <1>5
  <2>2. CASE j = n + 1
    <3>1. w = state'[e]
      BY <1>1, <1>3, <1>5, <2>2
    <3>2. Waiting(e, v)
      BY <2>1 DEF Waiting
    <3>3. v <= state[e]
      BY <3>2 DEF IInv, Ordered, MessagesOrdered, Coming
    <3> QED BY <1>2, <3>1, <3>3 DEF StatesGrow
  <2>3. CASE j # n + 1
    <3>1. j \in 1 .. n /\ IsState(inbox[j], e, w)
      BY <1>1, <1>5, <2>3
    <3> QED BY <1>5, <2>1, <3>1 DEF IInv, Ordered, MessagesOrdered
  <2> QED BY <2>2, <2>3
<1>6. ASSUME NEW e \in Entities, NEW v \in 0 .. MaxValue, NEW w \in 0 .. MaxValue
      PROVE  /\ Coming(e, v)' => v <= state'[e]
             /\ InHand(e, v)' /\ Waiting(e, w)' => v <= w
  <2>1. /\ Coming(e, v) => v <= state[e]
        /\ InHand(e, v) /\ Waiting(e, w) => v <= w
    BY DEF IInv, Ordered, MessagesOrdered
  <2>2. state[e] <= state'[e]
    BY DEF StatesGrow
  <2> QED BY <1>2, <1>3, <1>4, <2>1, <2>2 DEF Coming
<1>7. MessagesOrdered'
  BY <1>1, <1>5, <1>6 DEF MessagesOrdered
<1>8. NothingOlder
  BY <1>3, <1>4 DEF NothingOlder, Coming
<1> QED BY <1>7, <1>8

\* The message taken in hand is the one that has waited longest.
LEMMA MessageReceived ==
  ASSUME IInv, Receive
  PROVE  MessagesOrdered' /\ NothingOlder
<1> DEFINE n == Len(inbox)  t == Len(inbox')
<1>1. /\ n \in Nat /\ 1 <= n /\ t = n - 1 /\ msg' = inbox[1] /\ state' = state
      /\ \A i \in 1 .. t : inbox'[i] = inbox[i + 1]
  BY Inbox DEF IInv, TypeOK, Receive, cacheVars
<1>2. \A e \in Entities, v \in 0 .. MaxValue : InHand(e, v)' => IsState(inbox[1], e, v)
  BY <1>1 DEF InHand
<1>3. \A e \in Entities, v \in 0 .. MaxValue :
        Waiting(e, v)' => \E i \in 2 .. n : IsState(inbox[i], e, v)
  <2> TAKE e \in Entities, v \in 0 .. MaxValue
  <2> HAVE Waiting(e, v)'
  <2>1. PICK i \in 1 .. t : IsState(inbox'[i], e, v)
    BY DEF Waiting
  <2>2. i + 1 \in 2 .. n /\ IsState(inbox[i + 1], e, v)
    BY <1>1, <2>1
  <2> QED BY <2>2
<1>4. 1 \in 1 .. n /\ \A i \in 2 .. n : i \in 1 .. n /\ 1 < i
  BY <1>1
<1>5. \A e \in Entities, v \in 0 .. MaxValue : Coming(e, v)' => Waiting(e, v)
  <2>1. \A e \in Entities, v \in 0 .. MaxValue :
          (\E i \in 1 .. n : IsState(inbox[i], e, v)) => Waiting(e, v)
    BY DEF Waiting
  <2> QED BY <1>2, <1>3, <1>4, <2>1 DEF Coming
<1>6. ASSUME NEW e \in Entities, NEW v \in 0 .. MaxValue, NEW w \in 0 .. MaxValue
      PROVE  /\ Coming(e, v)' => v <= state'[e]
             /\ InHand(e, v)' /\ Waiting(e, w)' => v <= w
             /\ \A i, j \in 1 .. t :
                  i < j /\ IsState(inbox'[i], e, v) /\ IsState(inbox'[j], e, w) => v <= w
  <2>1. /\ Waiting(e, v) => v <= state[e]
        /\ \A i, j \in 1 .. n :
             i < j /\ IsState(inbox[i], e, v) /\ IsState(inbox[j], e, w) => v <= w
    BY DEF IInv, Ordered, MessagesOrdered, Coming
  <2>2. InHand(e, v)' /\ Waiting(e, w)' => v <= w
    BY <1>2, <1>3, <1>4, <2>1
  <2>3. ASSUME NEW i \in 1 .. t, NEW j \in 1 .. t, i < j,
               IsState(inbox'[i], e, v), IsState(inbox'[j], e, w)
        PROVE  v <= w
    <3>1. i + 1 \in 1 .. n /\ j + 1 \in 1 .. n /\ i + 1 < j + 1
      BY <1>1, <2>3
    <3>2. IsState(inbox[i + 1], e, v) /\ IsState(inbox[j + 1], e, w)
      BY <1>1, <2>3
    <3> QED BY <2>1, <3>1, <3>2
  <2> QED BY <1>1, <1>5, <2>1, <2>2, <2>3
<1>7. MessagesOrdered'
  BY <1>6 DEF MessagesOrdered
<1> QED BY <1>5, <1>7 DEF NothingOlder, Coming

\* No state comes with the messages of a new connection.
LEMMA MessagesQueued ==
  ASSUME IInv, Connect
  PROVE  MessagesOrdered' /\ NothingOlder
<1>1. \A i \in 1 .. Len(inbox') : inbox'[i].kind = "config"
  BY Queued DEF IInv
<1>2. msg' = NoMessage
  BY DEF Connect, IInv, TypeOK
<1>3. \A i \in 1 .. Len(inbox'), e \in Entities, v \in 0 .. MaxValue : ~IsState(inbox'[i], e, v)
  BY <1>1 DEF IsState
<1>4. \A e \in Entities, v \in 0 .. MaxValue : ~Waiting(e, v)' /\ ~InHand(e, v)'
  BY <1>2, <1>3 DEF Waiting, InHand
<1> QED BY <1>3, <1>4 DEF MessagesOrdered, Coming, NothingOlder

LEMMA MessagesStep ==
  ASSUME IInv, CacheTypeOK', [Next]_vars
  PROVE  MessagesOrdered' /\ NothingOlder /\ StatesGrow
<1>1. StatesGrow
  <2>1. \A e \in Entities : state[e] \in 0 .. MaxValue
    BY DEF IInv, TypeOK, CacheTypeOK
  <2>2. CASE state' = state
    BY <2>1, <2>2 DEF StatesGrow
  <2>3. ASSUME NEW e \in Entities, Report(e) PROVE StatesGrow
    <3>1. \A f \in Entities : state'[f] = IF f = e /\ state[f] < MaxValue
                                            THEN state[f] + 1 ELSE state[f]
      BY <2>3 DEF Report, NewState, IInv, TypeOK, CacheTypeOK
    <3> QED BY <2>1, <3>1 DEF StatesGrow
  <2> QED BY <2>2, <2>3
          DEF Next, Registry, DeviceStep, Announce, ChangeAvailability, Task, WakeUp,
              LoadPrefixes, Connect, Listen, NoticeLoss, Subscribe, Receive, Ignore,
              HandlerRaises, ReadRows, Commit, CommitRaises, Fault, CallFails, LogFails, LoseLink,
              Restart, Raise, Return, cacheVars, vars
<1>2. ASSUME NEW e \in Entities, NEW c \in Configs, NEW kept \in BOOLEAN,
             Announce(e, c, kept)
      PROVE  MessagesOrdered' /\ NothingOlder
  <2> DEFINE m == [kind |-> "config", entity |-> e, config |-> c]
  <2>1. m \in Messages /\ m.kind = "config"
    BY DEF Messages
  <2>2. inbox' = inbox \/ inbox' = Append(inbox, m)
    BY <1>2 DEF Announce, Deliver
  <2>3. msg' = msg
    BY <1>2 DEF Announce
  <2> HIDE DEF m
  <2> QED BY <1>1, <2>1, <2>2, <2>3, MessagesKept, MessagesAppended
<1>3. ASSUME NEW e \in Entities, NEW b \in BOOLEAN, ChangeAvailability(e, b)
      PROVE  MessagesOrdered' /\ NothingOlder
  <2> DEFINE m == [kind |-> "availability", entity |-> e, online |-> b]
  <2>1. m \in Messages /\ m.kind = "availability"
    BY DEF Messages
  <2>2. inbox' = inbox \/ inbox' = Append(inbox, m)
    BY <1>3 DEF ChangeAvailability, Deliver
  <2>3. msg' = msg
    BY <1>3 DEF ChangeAvailability
  <2> HIDE DEF m
  <2> QED BY <1>1, <2>1, <2>2, <2>3, MessagesKept, MessagesAppended
<1>4. ASSUME NEW e \in Entities, Report(e)
      PROVE  MessagesOrdered' /\ NothingOlder
  <2> DEFINE m == [kind |-> "state", entity |-> e, value |-> state'[e]]
  <2>1. state'[e] \in 1 .. MaxValue
    BY <1>4 DEF Report, NewState, IInv, TypeOK, CacheTypeOK
  <2>2. m \in Messages /\ m.value = state'[m.entity]
    BY <2>1 DEF Messages
  <2>3. inbox' = inbox \/ inbox' = Append(inbox, m)
    BY <1>4 DEF Report, Deliver
  <2>4. msg' = msg
    BY <1>4 DEF Report
  <2> HIDE DEF m
  <2> QED BY <1>1, <2>2, <2>3, <2>4, MessagesKept, MessagesAppended
<1>5. CASE Receive
  BY <1>1, <1>5, MessageReceived
<1>8. CASE Connect
  BY <1>1, <1>8, MessagesQueued
<1>6. CASE Fault \/ (Task /\ ~Receive /\ ~Connect)
  <2>1. \/ inbox' = inbox /\ (msg' = msg \/ msg' = NoMessage)
        \/ inbox' = <<>> /\ msg' = NoMessage
    BY <1>6
       DEF Task, WakeUp, LoadPrefixes, Listen, NoticeLoss, Subscribe, Ignore,
           HandlerRaises, ReadRows, Commit, CommitRaises, Fault, CallFails, LogFails, LoseLink,
           Restart, Raise, Return
  <2> QED BY <1>1, <2>1, MessagesKept, MessagesDropped
<1>7. CASE UNCHANGED ingestor
  BY <1>1, <1>7, MessagesKept DEF ingestor
<1> QED BY <1>1, <1>2, <1>3, <1>4, <1>5, <1>6, <1>7, <1>8 DEF Next, DeviceStep, vars

LEMMA RowsStep ==
  ASSUME IInv, CacheTypeOK', [Next]_vars
  PROVE  /\ RowsBehind'
         /\ \A e \in Entities : Known(e) /\ Known(e)' =>
              cached'[e].value \in cached[e].value .. state'[e]
<1>1. NothingOlder /\ StatesGrow
  BY MessagesStep
<1>2. /\ \A e \in Entities : state[e] \in Nat /\ state'[e] \in Nat
      /\ \A e \in Entities : Known(e) => cached[e].value \in Nat
      /\ \A e \in Entities : Known(e)' => cached'[e].value \in Nat
  BY DEF IInv, TypeOK, CacheTypeOK, Known
<1>3. ASSUME NEW e \in Entities, Known(e)', Known(e), cached'[e].value = cached[e].value
      PROVE  /\ cached'[e].value \in cached[e].value .. state'[e]
             /\ \A v \in 0 .. MaxValue : Coming(e, v)' => cached'[e].value <= v
  <2>1. /\ cached[e].value <= state[e] /\ state[e] <= state'[e]
        /\ \A v \in 0 .. MaxValue : Coming(e, v) => cached[e].value <= v
    BY <1>1, <1>3 DEF IInv, Ordered, RowsBehind, StatesGrow
  <2>2. \A v \in 0 .. MaxValue : Coming(e, v)' => Coming(e, v) \/ v = state'[e]
    BY <1>1 DEF NothingOlder
  <2> QED BY <1>2, <1>3, <2>1, <2>2
<1>4. ASSUME NEW e \in Entities, Known(e)', ~(Known(e) /\ cached'[e].value = cached[e].value)
      PROVE  /\ ~Known(e) \/ cached[e].value <= cached'[e].value
             /\ cached'[e].value <= state'[e]
             /\ \A v \in 0 .. MaxValue : Coming(e, v)' => cached'[e].value <= v
  <2>1. Commit /\ e = msg.entity /\ msg.kind \in {"config", "state"}
    <3>1. Commit
      <4>1. CASE UNCHANGED cached
        BY <1>4, <4>1 DEF Known
      <4>2. CASE Registry
        BY <1>4, <4>2 DEF Registry, Known
      <4> QED BY <4>1, <4>2
              DEF Next, DeviceStep, Announce, Report, ChangeAvailability, Task, WakeUp,
                  LoadPrefixes, Connect, Listen, NoticeLoss, Subscribe, Receive, Ignore,
                  HandlerRaises, ReadRows, CommitRaises, Fault, CallFails, LogFails, LoseLink,
                  Restart, Raise, Return, cacheVars, cache, vars
    <3>2. msg \in Messages
      BY <3>1 DEF Commit, IInv, TypeOK
    <3>3. CASE msg.kind = "availability"
      BY <1>4, <3>1, <3>3 DEF Commit, Known
    <3>4. CASE msg.kind # "availability"
      <4>1. cached' = [cached EXCEPT ![msg.entity] = Stored(msg.entity)]
        BY <3>1, <3>4 DEF Commit
      <4>2. e = msg.entity
        BY <1>4, <4>1 DEF Known, IInv, TypeOK, CacheTypeOK
      <4> QED BY <3>1, <3>2, <3>4, <4>2 DEF Messages
    <3> QED BY <3>3, <3>4
  <2>2. /\ msg \in Messages /\ cached' = [cached EXCEPT ![e] = Stored(e)]
        /\ msg' = NoMessage /\ inbox' = inbox /\ state' = state /\ pc = "store"
        /\ Row(e[1]) /\ msg # NoMessage
    BY <2>1 DEF Commit, Return, RowsRemain, IInv, TypeOK
  <2>3. cached'[e] = Stored(e)
    BY <2>2 DEF IInv, TypeOK, CacheTypeOK
  <2>4. \A v \in 0 .. MaxValue : Coming(e, v)' => Waiting(e, v)
    BY <2>2 DEF Coming, Waiting, InHand
  <2>5. CASE msg.kind = "config"
    <3>1. cached'[e].value = IF Known(e) THEN cached[e].value ELSE 0
      BY <2>3, <2>5 DEF Stored
    <3>2. ~Known(e) /\ cached'[e].value = 0
      BY <1>4, <3>1
    <3> QED BY <1>2, <3>2
  <2>6. CASE msg.kind = "state"
    <3>1. Known(e)
      BY <2>1, <2>2, <2>6 DEF IInv, Fresh
    <3>2. cached'[e].value = msg.value
      BY <1>2, <2>3, <2>6, <3>1 DEF Stored, IInv, TypeOK, CacheTypeOK, Known
    <3>3. msg.value \in 0 .. MaxValue
      BY <2>2, <2>6 DEF Messages
    <3>4. InHand(e, msg.value)
      BY <2>1, <2>2, <2>6 DEF InHand, IsState
    <3>5. /\ msg.value <= state[e] /\ cached[e].value <= msg.value
          /\ \A w \in 0 .. MaxValue : Waiting(e, w) => msg.value <= w
      BY <3>1, <3>3, <3>4 DEF IInv, Ordered, MessagesOrdered, RowsBehind, Coming
    <3> QED BY <2>2, <2>4, <3>2, <3>5
  <2> QED BY <2>1, <2>5, <2>6
<1>5. RowsBehind'
  <2> SUFFICES ASSUME NEW e \in Entities, Known(e)'
               PROVE  /\ cached'[e].value <= state'[e]
                      /\ \A v \in 0 .. MaxValue : Coming(e, v)' => cached'[e].value <= v
    BY DEF RowsBehind
  <2> QED BY <1>2, <1>3, <1>4
<1>6. ASSUME NEW e \in Entities, Known(e), Known(e)'
      PROVE  cached'[e].value \in cached[e].value .. state'[e]
  BY <1>2, <1>3, <1>4, <1>6
<1> QED BY <1>5, <1>6

-----------------------------------------------------------------------------
(***************************************************************************)
(* What the broker retains is known or comes.                              *)
(***************************************************************************)
\* The discovery messages a device may have retained, and when.
LEMMA RetainedStep ==
  ASSUME IInv, [Next]_vars
  PROVE  /\ retained' \in [Entities -> Configs \cup {"none"}]
         /\ \A e \in Entities : retained'[e] # "none" => life'[e[1]] \notin {"fresh", "pending"}
<1>1. /\ retained \in [Entities -> Configs \cup {"none"}] /\ CacheTypeOK /\ Registered
      /\ \A e \in Entities : retained[e] # "none" => life[e[1]] \notin {"fresh", "pending"}
      /\ \A e \in Entities : e[1] \in Devices
  BY DEF IInv, TypeOK, Described, Entities
<1>2. CASE Registry /\ UNCHANGED retained
  BY <1>1, <1>2, RegistryStep DEF Registry
<1>3. ASSUME NEW e \in Entities, NEW c \in Configs, NEW kept \in BOOLEAN,
             Announce(e, c, kept)
      PROVE  /\ retained' \in [Entities -> Configs \cup {"none"}]
             /\ \A f \in Entities : retained'[f] # "none" => life'[f[1]] \notin {"fresh", "pending"}
  BY <1>1, <1>3 DEF Announce, Account, cacheVars, devices
<1>4. CASE UNCHANGED <<devices, retained>>
  BY <1>1, <1>4 DEF devices
<1> QED
  BY <1>2, <1>3, <1>4
     DEF Next, DeviceStep, Report, ChangeAvailability, Task, WakeUp, LoadPrefixes, Connect,
         Listen, NoticeLoss, Subscribe, Receive, Ignore, HandlerRaises, ReadRows, Commit,
         CommitRaises, Fault, CallFails, LogFails, LoseLink, Restart, Raise, Return, cacheVars,
         devices, vars

\* A description stays on its way while the inbox only grows.
LEMMA WayKept ==
  ASSUME IInv, NEW e \in Entities, OnItsWay(e), msg' = msg,
         \/ inbox' = inbox
         \/ \E m \in Messages : inbox' = Append(inbox, m)
  PROVE  OnItsWay(e)'
<1>1. inbox \in Seq(Messages)
  BY DEF IInv, TypeOK
<1>2. CASE inbox' = inbox
  BY <1>2 DEF OnItsWay
<1>3. ASSUME NEW m \in Messages, inbox' = Append(inbox, m)
      PROVE  OnItsWay(e)'
  <2>1. /\ Len(inbox) \in Nat /\ Len(inbox') = Len(inbox) + 1
        /\ \A i \in 1 .. Len(inbox) : inbox'[i] = inbox[i]
    BY <1>1, <1>3, Inbox
  <2>2. \A i \in 1 .. Len(inbox) : i \in 1 .. Len(inbox')
    BY <2>1
  <2> QED BY <2>1, <2>2 DEF OnItsWay
<1> QED BY <1>2, <1>3

LEMMA DescribedStep ==
  ASSUME IInv, [Next]_vars
  PROVE  Described'
<1> SUFFICES ASSUME conn' = "up", NEW e \in Entities, Row(e[1])', retained'[e] \in Usable
             PROVE  Known(e)' \/ OnItsWay(e)'
  BY RetainedStep DEF Described
<1>1. /\ TypeOK /\ CacheTypeOK /\ Registered /\ e[1] \in Devices
      /\ inbox \in Seq(Messages)
  BY DEF IInv, TypeOK, Entities
<1>2. conn = "up" /\ Row(e[1]) /\ retained[e] \in Usable => Known(e) \/ OnItsWay(e)
  BY DEF IInv, Described
<1>3. CASE UNCHANGED <<devices, cached, retained, conn>> /\ msg' = msg
           /\ (inbox' = inbox \/ \E m \in Messages : inbox' = Append(inbox, m))
  BY <1>2, <1>3, WayKept DEF devices, Row, Known
<1>4. CASE Registry /\ UNCHANGED <<retained, ingestor>>
  <2>1. life[e[1]] \notin {"fresh", "pending"}
    BY <1>4 DEF IInv, Described, Usable
  <2>2. owner'[e[1]] = owner[e[1]]
    BY <1>1, <1>4, <2>1, RegistryStep DEF Registry, Row
  <2>3. cached'[e] = cached[e]
    BY <1>4 DEF Registry, Row
  <2>4. OnItsWay(e) => OnItsWay(e)'
    BY <1>4, WayKept DEF ingestor
  <2> QED BY <1>2, <1>4, <2>2, <2>3, <2>4 DEF Row, Known, ingestor
<1>5. ASSUME NEW f \in Entities, NEW c \in Configs, NEW kept \in BOOLEAN,
             Announce(f, c, kept)
      PROVE  Known(e)' \/ OnItsWay(e)'
  <2> DEFINE m == [kind |-> "config", entity |-> f, config |-> c]
  <2>1. m \in Messages /\ conn = "up" /\ inbox' = Append(inbox, m) /\ msg' = msg
        /\ UNCHANGED <<devices, cached>>
    BY <1>5 DEF Announce, Deliver, Messages, cacheVars, cache
  <2>2. CASE e = f /\ kept
    <3>1. Describes(m, e)
      BY <1>1, <1>5, <2>2 DEF Announce, Describes, TypeOK
    <3>2. Len(inbox') \in 1 .. Len(inbox') /\ inbox'[Len(inbox')] = m
      BY <1>1, <2>1, Inbox
    <3> QED BY <3>1, <3>2 DEF OnItsWay
  <2>3. CASE ~(e = f /\ kept)
    <3>1. retained'[e] = retained[e]
      BY <1>1, <1>5, <2>3 DEF Announce, TypeOK
    <3> QED BY <1>2, <2>1, <3>1, WayKept DEF devices, Row, Known
  <2> QED BY <2>2, <2>3
<1>6. CASE Connect /\ UNCHANGED retained
  <2> DEFINE m == [kind |-> "config", entity |-> e, config |-> retained[e]]
  <2>1. m \in Redelivered /\ Describes(m, e)
    BY <1>6 DEF Redelivered, Usable, Describes
  <2> QED BY <1>1, <1>6, <2>1, Queued DEF OnItsWay
<1>7. CASE Receive /\ UNCHANGED retained
  <2>1. /\ Len(inbox) \in Nat /\ Len(inbox') = Len(inbox) - 1 /\ msg' = inbox[1]
        /\ msg = NoMessage /\ msg' # NoMessage
        /\ \A i \in 1 .. Len(inbox') : inbox'[i] = inbox[i + 1]
        /\ UNCHANGED <<devices, cached, conn>>
    BY <1>1, <1>7, Inbox, MessageAssumption DEF Receive, TypeOK, cacheVars, cache
  <2>2. ASSUME NEW i \in 1 .. Len(inbox), Describes(inbox[i], e) PROVE OnItsWay(e)'
    <3>1. CASE i = 1
      BY <2>1, <2>2, <3>1 DEF OnItsWay
    <3>2. CASE i # 1
      <4>1. i - 1 \in 1 .. Len(inbox') /\ inbox'[i - 1] = inbox[i]
        BY <2>1, <3>2
      <4> QED BY <2>2, <4>1 DEF OnItsWay
    <3> QED BY <3>1, <3>2
  <2> QED BY <1>2, <1>7, <2>1, <2>2 DEF OnItsWay, devices, Row, Known
<1>8. ASSUME Ignore \/ Commit, UNCHANGED retained PROVE Known(e)' \/ OnItsWay(e)'
  <2>1. /\ UNCHANGED <<devices, conn, inbox>> /\ msg \in Messages /\ msg' = NoMessage
        /\ Row(e[1])
    BY <1>1, <1>8 DEF Ignore, Commit, Return, TypeOK, Row, devices
  <2>2. CASE Known(e)
    <3>1. CASE UNCHANGED cached
      BY <2>2, <3>1 DEF Known
    <3>2. CASE Commit /\ cached' = [cached EXCEPT ![msg.entity] = Stored(msg.entity)]
      <4>1. /\ msg.kind \in {"config", "state"} => Stored(msg.entity) # NoEntity
        <5>1. msg.kind = "config" => Stored(msg.entity) \in [command : {"none", "command"}, value : Nat]
          BY <1>1, <2>1 DEF Stored, Scoped, Known, Messages, CacheTypeOK
        <5>2. msg.kind = "state" => Stored(msg.entity) \in [command : {"none", "command"}, value : Nat]
          <6>1. msg.kind = "state" => Known(msg.entity) /\ msg.entity \in Entities /\ msg.value \in Nat
            BY <2>1, <3>2 DEF Commit, RowsRemain, IInv, Fresh, Messages
          <6> QED BY <1>1, <2>1, <6>1 DEF Stored, Known, CacheTypeOK
        <5> QED BY <5>1, <5>2, EntityAssumption
      <4>2. CASE msg.kind = "availability"
        BY <2>2, <3>2, <4>2 DEF Commit, Known
      <4> QED BY <1>1, <2>1, <2>2, <3>2, <4>1, <4>2 DEF Known, Messages, CacheTypeOK
    <3> QED BY <1>8, <3>1, <3>2 DEF Ignore, Commit, cache
  <2>3. CASE \E i \in 1 .. Len(inbox) : Describes(inbox[i], e)
    BY <2>1, <2>3 DEF OnItsWay
  <2>4. CASE Describes(msg, e) /\ ~Known(e)
    <3>1. Commit
      BY <1>8, <2>1, <2>4 DEF Describes, Ignore, Ignored, Repeated, Usable, Row
    <3>2. cached'[e] = Stored(e) /\ e = msg.entity /\ msg.kind = "config"
      BY <1>1, <2>4, <3>1 DEF Commit, Describes, CacheTypeOK
    <3>3. cached'[e] \in [command : {"none", "command"}, value : Nat]
      BY <1>1, <3>2 DEF Stored, Scoped, Known, CacheTypeOK
    <3> QED BY <3>3, EntityAssumption DEF Known
  <2> QED BY <1>2, <1>8, <2>1, <2>2, <2>3, <2>4 DEF OnItsWay, Row
<1>9. ASSUME NEW f \in Entities, Report(f) PROVE Known(e)' \/ OnItsWay(e)'
  <2>1. [kind |-> "state", entity |-> f, value |-> state'[f]] \in Messages
    BY <1>1, <1>9 DEF Report, NewState, Messages, CacheTypeOK
  <2> QED BY <1>3, <1>9, <2>1 DEF Report, Deliver, cache
<1>10. ASSUME NEW f \in Entities, NEW b \in BOOLEAN, ChangeAvailability(f, b)
       PROVE  Known(e)' \/ OnItsWay(e)'
  <2>1. [kind |-> "availability", entity |-> f, online |-> b] \in Messages
    BY DEF Messages
  <2> QED BY <1>3, <1>10, <2>1 DEF ChangeAvailability, Deliver, cacheVars, cache
<1>11. ASSUME Task, ~Receive, ~Connect, ~Ignore, ~Commit PROVE Known(e)' \/ OnItsWay(e)'
  BY <1>3, <1>11 DEF Task, WakeUp, LoadPrefixes, Listen, NoticeLoss, Subscribe, HandlerRaises,
                     ReadRows, CommitRaises, Raise, cacheVars, cache
<1>12. ASSUME Fault PROVE Known(e)' \/ OnItsWay(e)'
  <2>1. CASE LogFails
    BY <1>1, <2>1 DEF LogFails, TypeOK
  <2> QED BY <1>12, <2>1 DEF Fault, CallFails, LoseLink, Restart, Raise
<1>13. CASE UNCHANGED vars
  BY <1>3, <1>13 DEF vars, ingestor, cacheVars, cache
<1> QED
  BY <1>4, <1>5, <1>6, <1>7, <1>8, <1>9, <1>10, <1>11, <1>12, <1>13 DEF Next, DeviceStep, Task

-----------------------------------------------------------------------------
LEMMA InitInv == Init => IInv
<1> SUFFICES ASSUME Init PROVE IInv
  OBVIOUS
<1> USE DEF Init, CacheInit, Lifecycle!Init
<1>1. CacheTypeOK
  <2>1. life \in [Devices -> Lifecycle!Lives] /\ owner \in [Devices -> Users \cup {NoUser}]
    BY DEF Lifecycle!Lives
  <2>2. /\ cached \in [Entities ->
              [command : {"none", "command"}, value : 0 .. MaxValue] \cup {NoEntity}]
        /\ online \in [Devices -> BOOLEAN]
        /\ state \in [Entities -> 0 .. MaxValue]
    OBVIOUS
  <2> QED BY <2>1, <2>2 DEF CacheTypeOK
<1>2. TypeOK
  BY <1>1, EmptyInbox DEF TypeOK, Places
<1>3. Registered /\ NoGhosts /\ Fresh /\ Unsubscribed
  BY DEF NoGhosts, Known, Row, Fresh, Unsubscribed, Entities
<1>4. RowsBehind
  BY DEF RowsBehind, Known
<1>5. MessagesOrdered
  <2>1. Len(inbox) = 0
    BY EmptyInbox
  <2>2. \A e \in Entities, v \in 0 .. MaxValue : ~Waiting(e, v) /\ ~InHand(e, v)
    BY <2>1 DEF Waiting, InHand
  <2> QED BY <2>1, <2>2 DEF MessagesOrdered, Coming
<1>6. Described
  BY DEF Described
<1> QED BY <1>2, <1>3, <1>4, <1>5, <1>6 DEF IInv, Ordered

LEMMA NextInv == IInv /\ [Next]_vars => IInv'
<1> SUFFICES ASSUME IInv, [Next]_vars PROVE IInv'
  OBVIOUS
<1>1. CacheTypeOK' /\ Registered' /\ NoGhosts'
  BY Refines, CacheKept DEF IInv, Typed
<1>2. TypeOK' /\ Unsubscribed'
  BY <1>1, TaskTypes, RetainedStep DEF TypeOK, TaskTypeOK
<1>3. Fresh'
  BY FreshStep
<1>4. Ordered'
  BY <1>1, MessagesStep, RowsStep DEF Ordered
<1> QED BY <1>1, <1>2, <1>3, <1>4, DescribedStep DEF IInv

\* TypeOK: the task holds a message and a connection exactly where it should,
\* whatever is raised, lost or restarted.
THEOREM TypeCorrect == Spec => []TypeOK
<1>1. IInv => TypeOK
  BY DEF IInv
<1> QED BY InitInv, NextInv, <1>1, PTL DEF Spec

\* NoGhosts: no row of an entity or online flag outlives its device, though the
\* device may be deleted between a handler's SELECT and its commit.
THEOREM NoGhostsEver == Spec => []NoGhosts
<1>1. IInv => NoGhosts
  BY DEF IInv
<1> QED BY InitInv, NextInv, <1>1, PTL DEF Spec

\* RetainedKnown: a description that the broker retains is not missed, whichever
\* handlers raised and however often the connection was lost.
THEOREM NoneMissed == Spec => []RetainedKnown
<1>1. IInv => RetainedKnown
  BY DEF IInv, TypeOK, Described, OnItsWay, RetainedKnown
<1> QED BY InitInv, NextInv, <1>1, PTL DEF Spec

\* CacheMovesForward: a cached state is never replaced by an older one.
THEOREM MovesForward == Spec => CacheMovesForward
<1>1. IInv /\ IInv' /\ [Next]_vars =>
        [\A e \in Entities : Known(e) /\ Known(e)' =>
           cached'[e].value \in cached[e].value .. state'[e]]_vars
  <2> SUFFICES ASSUME IInv, IInv', [Next]_vars
               PROVE  \A e \in Entities : Known(e) /\ Known(e)' =>
                        cached'[e].value \in cached[e].value .. state'[e]
    OBVIOUS
  <2> QED BY RowsStep DEF IInv, TypeOK
<1> QED BY InitInv, NextInv, <1>1, PTL DEF Spec, CacheMovesForward

\* ImplementsCache: every behaviour of the ingestor, with its awaits, lost links
\* and restarts, is one of StateCache.
THEOREM Implements == Spec => ImplementsCache
<1>1. Init => CacheInit
  BY DEF Init
<1>2. IInv /\ [Next]_vars => [CacheNext]_cacheVars
  BY Refines
<1> QED BY InitInv, NextInv, <1>1, <1>2, PTL DEF Spec, ImplementsCache, CacheSpec

=============================================================================
