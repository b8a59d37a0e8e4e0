------------------------------ MODULE Ingestor ------------------------------
(***************************************************************************)
(* The live cache of device state: mqtt/ingestor.py, started and stopped   *)
(* by mqtt/client.py.                                                      *)
(*                                                                         *)
(* One task holds one broker connection.  At every (re)connection it reads *)
(* which devices are registered, subscribes to the discovery topic and to  *)
(* the topics of those devices, and then handles one message at a time.  A *)
(* message is handled in two steps with awaits between them: rows are      *)
(* read, then changed rows are committed.  Meanwhile requests register and *)
(* delete devices; the registry is represented by DeviceLifecycle, the     *)
(* specification that DeviceRegistry implements.  Any error, of the broker *)
(* connection or of one message, ends the connection; the task logs it,    *)
(* sleeps and starts again.  When the log fails there, the task is over.   *)
(***************************************************************************)
EXTENDS StateCache, Sequences, FiniteSets

CONSTANTS
  NoMessage,  \* no message is being handled
  Configs,    \* discovery payloads that devices may send
  MaxInbox,   \* bound: messages waiting on the connection
  MaxDelay    \* the longest sleep (60 seconds in the code)

\* The discovery payloads the handler tells apart: without a command topic,
\* with one in the device's own scope, with one outside it, one that is ignored
\* (not JSON, or a state topic outside the scope), and JSON that raises (a list,
\* or a null name).
ConfigKinds == {"plain", "command", "foreign", "garbage", "poison"}

\* Those that are stored.
Usable == {"plain", "command", "foreign"}

ASSUME ConfigAssumption == Configs \subseteq ConfigKinds
ASSUME BoundAssumption ==
  /\ MaxValue # 0
  /\ MaxInbox \in Nat
  /\ MaxDelay \in Nat \ {0}
ASSUME FiniteAssumption == IsFiniteSet(Devices) /\ IsFiniteSet(Objects)

VARIABLES
  retained, \* retained[e]: the discovery message the broker keeps for entity e
  pc,      \* where run_ingestor is
  delay,   \* its delay
  conn,    \* its connection: "down", "up", or "lost" and not noticed
  plan,    \* registered devices at the last reading
  subs,    \* those whose topics are subscribed
  inbox,   \* messages waiting on the connection
  msg      \* the message being handled

ingestor == <<pc, delay, conn, plan, subs, inbox, msg>>
vars     == <<cacheVars, retained, ingestor>>

Messages ==
  [kind : {"config"}, entity : Entities, config : Configs]
    \cup [kind : {"state"}, entity : Entities, value : 1 .. MaxValue]
    \cup [kind : {"availability"}, entity : Entities, online : BOOLEAN]

ASSUME MessageAssumption == NoMessage \notin Messages

Init ==
  /\ CacheInit
  /\ retained = [e \in Entities |-> "none"]
  /\ pc = "load"
  /\ delay = 1
  /\ conn = "down"
  /\ plan = {}
  /\ subs = {}
  /\ inbox = <<>>
  /\ msg = NoMessage

-----------------------------------------------------------------------------
(***************************************************************************)
(* The devices and the broker.                                             *)
(***************************************************************************)
\* The broker passes a message on to a connection that has subscribed to its
\* topic, at most once (QoS 0).
Deliver(subscribed, m) ==
  IF conn = "up" /\ subscribed
    THEN Len(inbox) < MaxInbox /\ inbox' = Append(inbox, m)
    ELSE UNCHANGED inbox

\* A device asks the broker, or does not, to keep its description for those
\* who subscribe later.
Announce(e, c, kept) ==
  /\ Account(e[1])
  /\ retained' = IF kept THEN [retained EXCEPT ![e] = c] ELSE retained
  /\ Deliver(TRUE, [kind |-> "config", entity |-> e, config |-> c])
  /\ UNCHANGED <<cacheVars, pc, delay, conn, plan, subs, msg>>

Report(e) ==
  /\ NewState(e)
  /\ Deliver(e[1] \in subs, [kind |-> "state", entity |-> e, value |-> state'[e]])
  /\ UNCHANGED <<devices, cache, retained, pc, delay, conn, plan, subs, msg>>

ChangeAvailability(e, b) ==
  /\ Account(e[1])
  /\ Deliver(e[1] \in subs, [kind |-> "availability", entity |-> e, online |-> b])
  /\ UNCHANGED <<cacheVars, retained, pc, delay, conn, plan, subs, msg>>

-----------------------------------------------------------------------------
(***************************************************************************)
(* run_ingestor.                                                           *)
(***************************************************************************)
\* Mutant: only the connection's own errors are caught.
RaiseUncaught ==
  /\ pc' = IF conn = "up" THEN "uncaught" ELSE "backoff"
  /\ conn' = "down"
  /\ subs' = {}
  /\ inbox' = <<>>
  /\ msg' = NoMessage
  /\ UNCHANGED <<cacheVars, delay, plan>>

\* An exception closes the connection, with all that waits there, and is
\* caught; the task logs it and goes to sleep.
Raise ==
  /\ pc' = "backoff"
  /\ conn' = "down"
  /\ subs' = {}
  /\ inbox' = <<>>
  /\ msg' = NoMessage
  /\ UNCHANGED <<cacheVars, delay, plan>>

\* Mutant: no upper bound.
LongerUncapped == 2 * delay

Longer == IF 2 * delay > MaxDelay THEN MaxDelay ELSE 2 * delay

WakeUp ==
  /\ pc = "backoff"
  /\ pc' = "load"
  /\ delay' = Longer
  /\ UNCHANGED <<cacheVars, conn, plan, subs, inbox, msg>>

\* The root handler (JSONLHandler, logging_setup.py) raises when it can not write.
\* In an except clause nothing catches that: it leaves the loop, and nobody starts
\* the task again.
LogFails ==
  /\ pc = "backoff"
  /\ pc' = "log_error"
  /\ UNCHANGED <<cacheVars, delay, conn, plan, subs, inbox, msg>>

LoadPrefixes ==
  /\ pc = "load"
  /\ plan' = {d \in Devices : Row(d)}
  /\ pc' = "connect"
  /\ UNCHANGED <<cacheVars, delay, conn, subs, inbox, msg>>

Redelivered ==
  {[kind |-> "config", entity |-> e, config |-> retained[e]] :
     e \in {f \in Entities : retained[f] # "none"}}

\* The connection is made and the discovery topic subscribed: the broker sends
\* what it has retained there, in any order.
Connect ==
  /\ pc = "connect"
  /\ pc' = "subscribe"
  /\ conn' = "up"
  /\ \E queue \in [1 .. Cardinality(Redelivered) -> Redelivered] :
       /\ \A m \in Redelivered : \E i \in DOMAIN queue : queue[i] = m
       /\ inbox' = queue
  /\ UNCHANGED <<cacheVars, delay, plan, subs, msg>>

\* A call to the database, to the broker or to the log raises.
CallFails == pc \in {"load", "connect", "subscribe", "read", "store"} /\ Raise

\* The two topics of one more device; messages already arrive.
Subscribe(d) ==
  /\ pc = "subscribe"
  /\ conn = "up"
  /\ d \in plan \ subs
  /\ subs' = subs \cup {d}
  /\ UNCHANGED <<cacheVars, pc, delay, conn, plan, inbox, msg>>

\* Mutant: the queue of messages is opened when all subscriptions are made.
ListenAnew ==
  /\ pc = "subscribe"
  /\ plan \subseteq subs
  /\ pc' = "listen"
  /\ delay' = 1
  /\ inbox' = <<>>
  /\ UNCHANGED <<cacheVars, conn, plan, subs, msg>>

Listen ==
  /\ pc = "subscribe"
  /\ plan \subseteq subs
  /\ pc' = "listen"
  /\ delay' = 1
  /\ UNCHANGED <<cacheVars, conn, plan, subs, inbox, msg>>

\* The broker or the network ends the connection...
LoseLink ==
  /\ conn = "up"
  /\ conn' = "lost"
  /\ UNCHANGED <<cacheVars, pc, delay, plan, subs, inbox, msg>>

\* ... which the task learns from a later call on it.
NoticeLoss == pc \in {"subscribe", "listen"} /\ conn = "lost" /\ Raise

\* Mutant: a queue that is last in, first out.
ReceiveNewest ==
  /\ pc = "listen"
  /\ inbox # <<>>
  /\ msg' = inbox[Len(inbox)]
  /\ inbox' = SubSeq(inbox, 1, Len(inbox) - 1)
  /\ pc' = "read"
  /\ UNCHANGED <<cacheVars, delay, conn, plan, subs>>

Receive ==
  /\ pc = "listen"
  /\ inbox # <<>>
  /\ msg' = Head(inbox)
  /\ inbox' = Tail(inbox)
  /\ pc' = "read"
  /\ UNCHANGED <<cacheVars, delay, conn, plan, subs>>

-----------------------------------------------------------------------------
(***************************************************************************)
(* The three message handlers.                                             *)
(***************************************************************************)
\* Mutant: a command topic is stored as it is announced.
ScopedUnchecked(c) == IF c = "plain" THEN "none" ELSE c

\* _validate_scoped_topic turns a command topic of another scope into None.
Scoped(c) == IF c = "command" THEN "command" ELSE "none"

\* The rows read give the handler nothing to change.
Ignored ==
  \/ ~Row(msg.entity[1])
  \/ msg.kind = "state" /\ ~Known(msg.entity)
  \/ msg.kind = "config" /\ msg.config = "garbage"

\* A discovery message says what the row says already: nothing is written then,
\* unless columns that are not modelled differ.
Repeated ==
  /\ msg.kind = "config" /\ msg.config \in Usable
  /\ Known(msg.entity) /\ cached[msg.entity].command = Scoped(msg.config)

Poisoned ==
  Row(msg.entity[1]) /\ msg.kind = "config" /\ msg.config = "poison"

Return ==
  /\ pc' = "listen"
  /\ msg' = NoMessage
  /\ UNCHANGED <<devices, state, delay, conn, plan, subs, inbox>>

Ignore == pc = "read" /\ (Ignored \/ Repeated) /\ Return /\ UNCHANGED cache

HandlerRaises == pc = "read" /\ Poisoned /\ Raise

ReadRows ==
  /\ pc = "read"
  /\ ~Ignored /\ ~Poisoned
  /\ pc' = "store"
  /\ UNCHANGED <<cacheVars, delay, conn, plan, subs, inbox, msg>>

\* Mutant: no foreign keys, and updates of missing rows go unnoticed.
RowsRemainUnchecked == TRUE

\* A device's row and those of its entities go together: an INSERT then
\* violates the foreign key, and an UPDATE finds no row (StaleDataError).
RowsRemain == Row(msg.entity[1])

Stored(e) ==
  CASE msg.kind = "config" ->
         [command |-> Scoped(msg.config), value |-> IF Known(e) THEN cached[e].value ELSE 0]
    [] msg.kind = "state" -> [cached[e] EXCEPT !.value = msg.value]

Commit ==
  /\ pc = "store"
  /\ ~Locked
  /\ RowsRemain
  /\ IF msg.kind = "availability"
       THEN /\ online' = [online EXCEPT ![msg.entity[1]] = msg.online]
            /\ UNCHANGED cached
       ELSE /\ cached' = [cached EXCEPT ![msg.entity] = Stored(msg.entity)]
            /\ UNCHANGED online
  /\ Return

\* The rows have gone, or the write lock was not free for five seconds.
CommitRaises == pc = "store" /\ (Locked \/ ~RowsRemain) /\ Raise

\* The process is restarted; connection and task begin anew.
Restart ==
  /\ pc' = "load"
  /\ delay' = 1
  /\ conn' = "down"
  /\ subs' = {}
  /\ inbox' = <<>>
  /\ msg' = NoMessage
  /\ UNCHANGED <<cacheVars, plan>>

Task ==
  /\ \/ WakeUp \/ LoadPrefixes \/ Connect \/ Listen \/ NoticeLoss
     \/ \E d \in Devices : Subscribe(d)
     \/ Receive \/ Ignore \/ HandlerRaises \/ ReadRows \/ Commit \/ CommitRaises
  /\ UNCHANGED retained

DeviceStep ==
  \/ \E e \in Entities, c \in Configs, kept \in BOOLEAN : Announce(e, c, kept)
  \/ \E e \in Entities : Report(e)
  \/ \E e \in Entities, b \in BOOLEAN : ChangeAvailability(e, b)

Fault == (CallFails \/ LogFails \/ LoseLink \/ Restart) /\ UNCHANGED retained

Next ==
  \/ Registry /\ UNCHANGED <<retained, ingestor>>
  \/ DeviceStep
  \/ Task
  \/ Fault

Spec == Init /\ [][Next]_vars

\* The event loop runs the task; sleeps and the database's timeout end.
FairSpec == Spec /\ WF_vars(Task)

-----------------------------------------------------------------------------
Places ==
  {"load", "connect", "subscribe", "listen", "read", "store", "backoff", "log_error"}

\* Types; and which parts of the task's state belong together: it has a message
\* exactly while it handles one, and a connection from Connect until an error.
TypeOK ==
  /\ CacheTypeOK
  /\ retained \in [Entities -> Configs \cup {"none"}]
  /\ pc \in Places
  /\ delay \in 1 .. MaxDelay
  /\ conn \in {"down", "up", "lost"}
  /\ plan \subseteq Devices
  /\ subs \subseteq plan
  /\ inbox \in Seq(Messages)
  /\ msg \in Messages \cup {NoMessage}
  /\ msg # NoMessage <=> pc \in {"read", "store"}
  /\ conn = "down" <=> pc \in {"load", "connect", "backoff", "log_error"}

\* Nothing is cached for a device whose row is gone, although a request may
\* remove the row between the handler's SELECT and its commit (ingestor.py
\* 128-137, 159-171, 184-193).
NoGhosts ==
  /\ \A e \in Entities : Known(e) => Row(e[1])
  /\ \A d \in Devices : online[d] => Row(d)

\* A cached state is one that the device has published, and is never replaced
\* by an older one: reconnecting loses messages but reorders none.
CacheMovesForward ==
  [][\A e \in Entities :
       Known(e) /\ Known(e)' =>
         cached'[e].value \in cached[e].value .. state'[e]]_vars

\* A handler that fails gives up its message with the whole connection (lines
\* 236-247), so that nothing the broker retains is missed: when all messages of
\* a connection are handled, each entity that a registered device has described
\* in a retained message is known, whatever errors and restarts came between.
RetainedKnown ==
  pc = "listen" /\ conn = "up" /\ inbox = <<>> =>
    \A e \in Entities : Row(e[1]) /\ retained[e] \in Usable => Known(e)

\* When broker, database and log have stopped failing, the task comes back to
\* listening after every message and every error, one raised by a message or by
\* the database included (lines 236-247), and one raised again after each
\* connection by a message that the broker retains.  It does not when the log had
\* failed in an except clause: that, and nothing else, has ended it.
Recovers ==
  <>[][~Fault]_vars => []<>(pc = "listen") \/ <>[](pc = "log_error")

\* Every step is a step of StateCache: each change of a row is the work of one
\* message of the device itself, about a row that is still there, within the
\* device's own topics and never back to an older state.
ImplementsCache == CacheSpec

=============================================================================
