---------------------------- MODULE Provisioning ----------------------------
(***************************************************************************)
(* Broker accounts for devices: mqtt/provisioning.py.                      *)
(*                                                                         *)
(* A request that provisions a device account sends the Mosquitto dynamic  *)
(* security plugin a chain of two commands, each over a connection of its  *)
(* own (_send_command): connect, subscribe to the ONE response topic that  *)
(* every command of every request shares, publish, and take the FIRST      *)
(* message that arrives there, within ten seconds.  Nothing in the message *)
(* is compared with the command that was sent.                             *)
(*                                                                         *)
(* The module has the broker's side (roles, clients) and, for each request *)
(* slot r, where its chain of commands stands.  The registry, which starts *)
(* chains and acts on their outcome, is in DeviceRegistry.                 *)
(***************************************************************************)
EXTENDS Naturals, FiniteSets

CONSTANTS
  Requests,       \* request slots of the API worker's event loop
  Devices,        \* device identities (the random short_id of a device)
  NoDevice,       \* the target of a request that has none
  SharedReplies,  \* the plugin's reply reaches every response subscriber
  MayReject       \* the plugin may refuse or ignore an acceptable command

ASSUME NoDeviceAssumption == NoDevice \notin Devices
ASSUME SwitchAssumption ==
  /\ SharedReplies \in BOOLEAN
  /\ MayReject \in BOOLEAN

VARIABLES
  roles,    \* devices whose role the broker holds
  clients,  \* devices whose client account the broker holds
  target,   \* target[r]: the device request r works on
  command,  \* command[r]: the command r's chain is at, or how the chain ended
  link,     \* link[r]: the state of r's command connection
  heard     \* heard[r]: the first reply that reached that connection

broker  == <<roles, clients>>
chain   == <<command, link, heard>>

(***************************************************************************)
(* create_device_account sends createRole and createClient,                *)
(* delete_device_account deleteClient and deleteRole.  The chain ends when *)
(* the function returns or raises.                                         *)
(***************************************************************************)
Commands == {"createRole", "createClient", "deleteClient", "deleteRole"}
Outcomes == {"returned", "raised"}
Replies  == {"ok", "error"}

ProvisioningTypeOK ==
  /\ roles \subseteq Devices
  /\ clients \subseteq Devices
  /\ target \in [Requests -> Devices \cup {NoDevice}]
  /\ command \in [Requests -> Commands \cup Outcomes \cup {"none"}]
  /\ link \in [Requests -> {"down", "subscribed", "waiting"}]
  /\ heard \in [Requests -> Replies \cup {"nothing"}]
  /\ \A r \in Requests :
       /\ command[r] \in Commands => target[r] \in Devices
       /\ link[r] # "down" => command[r] \in Commands
       /\ link[r] = "down" => heard[r] = "nothing"

ProvisioningInit ==
  /\ roles = {}
  /\ clients = {}
  /\ target = [r \in Requests |-> NoDevice]
  /\ command = [r \in Requests |-> "none"]
  /\ link = [r \in Requests |-> "down"]
  /\ heard = [r \in Requests |-> "nothing"]

-----------------------------------------------------------------------------
(***************************************************************************)
(* The plugin: which commands it carries out, what they do.                *)
(***************************************************************************)
Accepts(c, d) ==
  \/ c = "createRole"   /\ d \notin roles
  \/ c = "createClient" /\ d \in roles /\ d \notin clients
  \/ c = "deleteClient" /\ d \in clients
  \/ c = "deleteRole"   /\ d \in roles

Execute(c, d) ==
  /\ roles'   = CASE c = "createRole" -> roles \cup {d}
                  [] c = "deleteRole" -> roles \ {d}
                  [] OTHER            -> roles
  /\ clients' = CASE c = "createClient" -> clients \cup {d}
                  [] c = "deleteClient" -> clients \ {d}
                  [] OTHER              -> clients

(***************************************************************************)
(* The reply to the command of request q lands on the connection of        *)
(* request r.  _send_command reads one message and closes, so of all that  *)
(* arrives on a connection only the first message matters.                 *)
(***************************************************************************)
Hears(q, r) == q = r \/ (SharedReplies /\ link[r] # "down")

Reply(q, reply) ==
  heard' = [r \in Requests |->
              IF Hears(q, r) /\ heard[r] = "nothing" THEN reply ELSE heard[r]]

(***************************************************************************)
(* What the chain does after the reply to command c, by _reply_error: an   *)
(* error raises, except that delete_device_account only logs a failing     *)
(* deleteRole.                                                             *)
(***************************************************************************)
\* Mutant: the reply is awaited but never looked at.
AfterReplyUnchecked(c, reply) ==
  CASE c = "createRole"   -> "createClient"
    [] c = "deleteClient" -> "deleteRole"
    [] OTHER              -> "returned"

\* Mutant: a command that failed is sent again.
AfterReplyRetried(c, reply) ==
  CASE reply = "error" -> c
    [] c = "createRole"   -> "createClient"
    [] c = "deleteClient" -> "deleteRole"
    [] OTHER              -> "returned"

AfterReply(c, reply) ==
  IF reply = "error" /\ c # "deleteRole" THEN "raised"
  ELSE CASE c = "createRole"   -> "createClient"
         [] c = "deleteClient" -> "deleteRole"
         [] OTHER              -> "returned"

\* Mutant: a connection that is reused keeps the unread reply.
CloseKeepsReply(r) ==
  link' = [link EXCEPT ![r] = "down"] /\ UNCHANGED heard

Close(r) ==
  /\ link' = [link EXCEPT ![r] = "down"]
  /\ heard' = [heard EXCEPT ![r] = "nothing"]

-----------------------------------------------------------------------------
\* publisher_client().__aenter__ and the awaited subscribe.
Connect(r) ==
  /\ command[r] \in Commands
  /\ link[r] = "down"
  /\ link' = [link EXCEPT ![r] = "subscribed"]
  /\ UNCHANGED <<broker, target, command, heard>>

\* The awaited publish: the plugin answers while it handles the message.
Publish(r) ==
  /\ link[r] = "subscribed"
  /\ link' = [link EXCEPT ![r] = "waiting"]
  /\ IF Accepts(command[r], target[r])
       THEN Execute(command[r], target[r]) /\ Reply(r, "ok")
       ELSE UNCHANGED broker /\ Reply(r, "error")
  /\ UNCHANGED <<target, command>>

\* The plugin fails a command it could have carried out (an internal error).
Refuse(r) ==
  /\ MayReject
  /\ link[r] = "subscribed"
  /\ link' = [link EXCEPT ![r] = "waiting"]
  /\ Reply(r, "error")
  /\ UNCHANGED <<broker, target, command>>

\* The command reaches a broker that neither executes nor answers it.
Ignore(r) ==
  /\ MayReject
  /\ link[r] = "subscribed"
  /\ link' = [link EXCEPT ![r] = "waiting"]
  /\ UNCHANGED <<broker, target, command, heard>>

ReadReply(r) ==
  /\ link[r] = "waiting"
  /\ heard[r] # "nothing"
  /\ command' = [command EXCEPT ![r] = AfterReply(command[r], heard[r])]
  /\ Close(r)
  /\ UNCHANGED <<broker, target>>

\* Mutant: no timeout around the wait.
TimeoutReplyNever(r) == FALSE

\* asyncio.timeout expires with no message on the response topic.
TimeoutReply(r) ==
  /\ link[r] = "waiting"
  /\ heard[r] = "nothing"
  /\ command' = [command EXCEPT ![r] = "raised"]
  /\ Close(r)
  /\ UNCHANGED <<broker, target>>

\* The connection cannot be made, or fails, before or after the broker has
\* executed the command; aiomqtt raises and nothing is retried.
LinkFails(r) ==
  /\ command[r] \in Commands
  /\ command' = [command EXCEPT ![r] = "raised"]
  /\ Close(r)
  /\ UNCHANGED <<broker, target>>

\* Both functions log before they return; the log's handler raises when the
\* disk fails, after all that the function did at the broker.
LogFails(r) ==
  /\ command[r] = "returned"
  /\ command' = [command EXCEPT ![r] = "raised"]
  /\ UNCHANGED <<broker, target, link, heard>>

ProvisionStep(r) ==
  \/ Connect(r)
  \/ Publish(r)
  \/ ReadReply(r)
  \/ TimeoutReply(r)

ProvisionFault(r) ==
  \/ Refuse(r)
  \/ Ignore(r)
  \/ LinkFails(r)
  \/ LogFails(r)

=============================================================================
