------------------------------ MODULE Commands ------------------------------
(***************************************************************************)
(* Requests about one device, on top of the live cache: the routes of      *)
(* api/v1/user.py that show a device or its entities, rename it            *)
(* (update_device of services/device_service.py) or send it a command      *)
(* (services/command_service.py, mqtt/publisher.py).                       *)
(*                                                                         *)
(* Each handler reads the device first and compares its owner with the     *)
(* caller; then it reads again, writes or publishes, with an await and so  *)
(* the registry and the ingestor at work between any two of these.  What   *)
(* it shows, where it publishes and which row it updates is decided by     *)
(* the rows it has read.  The ingestor is represented by StateCache, which *)
(* it implements.                                                          *)
(***************************************************************************)
EXTENDS StateCache

VARIABLES
  renamed, \* devices whose name an update has replaced
  step,    \* where the request is
  route,   \* what it asks for
  caller,  \* its current_user
  asked,   \* the device of its path
  chosen,  \* the entity of its path
  up,      \* device.online, as read
  topic    \* entity.command_topic, as read

request == <<step, route, caller, asked, chosen, up, topic>>
vars    == <<cacheVars, renamed, request>>

Routes == {"show_device", "list_entities", "show_entity", "command", "rename"}

\* What the handler of each route awaits after the device.
Second ==
  [show_device |-> "answer", list_entities |-> "list", show_entity |-> "get_entity",
   command |-> "get_entity", rename |-> "load"]

Steps ==
  {"idle", "get_device", "list", "get_entity", "load", "commit", "refresh",
   "send", "publish", "answer"}

Init ==
  /\ CacheInit
  /\ renamed = {}
  /\ step = "idle"
  /\ route = "none"
  /\ caller = NoUser
  /\ asked \in Devices
  /\ chosen \in Entities
  /\ up = FALSE
  /\ topic = "none"

\* Mutant: the state of a request survives it.
FinishKeepsTopic ==
  /\ step' = "idle"
  /\ route' = "none"
  /\ caller' = NoUser
  /\ UNCHANGED <<asked, chosen, up, topic>>

\* The response is sent, whatever its status.
Finish ==
  /\ step' = "idle"
  /\ route' = "none"
  /\ caller' = NoUser
  /\ up' = FALSE
  /\ topic' = "none"
  /\ UNCHANGED <<asked, chosen>>

Start(q, u, d, e) ==
  /\ step = "idle"
  /\ u \in users
  /\ step' = "get_device"
  /\ route' = q
  /\ caller' = u
  /\ asked' = d
  /\ chosen' = e
  /\ UNCHANGED <<renamed, up, topic>>

Goto(s) == step' = s /\ UNCHANGED <<route, caller, asked, chosen>>

\* Mutant: whoever is let through by require_ownership_or_admin sees it.
OwnsUnchecked(u, d) == Row(d)

Owns(u, d) == owner[d] = u

\* The handler shows a device to its owner only, whoever the caller is.
GetDevice ==
  /\ step = "get_device"
  /\ IF Owns(caller, asked)
       THEN /\ Goto(Second[route])
            /\ up' = online[asked]
            /\ UNCHANGED topic
       ELSE Finish
  /\ UNCHANGED renamed

\* Mutant: entity.device_id is not compared.
BelongsUnchecked(e, d) == Known(e)

Belongs(e, d) == Known(e) /\ e[1] = d

GetEntity ==
  /\ step = "get_entity"
  /\ IF Belongs(chosen, asked)
       THEN /\ Goto(IF route = "command" THEN "send" ELSE "answer")
            /\ topic' = IF route = "command" THEN cached[chosen].command ELSE topic
            /\ UNCHANGED up
       ELSE Finish
  /\ UNCHANGED renamed

\* The rows are selected by the device's id.
ListEntities == step = "list" /\ Goto("answer") /\ UNCHANGED <<renamed, up, topic>>

\* What was read is sent to the caller.
Show == step = "answer" /\ Finish /\ UNCHANGED renamed

\* update_device selects the device again: 404 without one.
LoadDevice ==
  /\ step = "load"
  /\ IF Row(asked) THEN Goto("commit") /\ UNCHANGED <<up, topic>> ELSE Finish
  /\ UNCHANGED renamed

\* The UPDATE names the row by its id alone and raises without one.
CommitName ==
  /\ step = "commit"
  /\ ~Locked
  /\ IF Row(asked)
       THEN /\ renamed' = renamed \cup {asked}
            /\ Goto("refresh")
            /\ UNCHANGED <<up, topic>>
       ELSE Finish /\ UNCHANGED renamed

\* The name is the one the row has: there is nothing to write.
KeepName == step = "commit" /\ Goto("refresh") /\ UNCHANGED <<renamed, up, topic>>

\* "database is locked": a create held the write lock for five seconds.
BusyTimeout == step = "commit" /\ Locked /\ Finish /\ UNCHANGED renamed

\* session.refresh(device) raises when the row is already gone.
Refreshed ==
  /\ step = "refresh"
  /\ IF Row(asked) THEN Goto("answer") /\ UNCHANGED <<up, topic>> ELSE Finish
  /\ UNCHANGED renamed

\* An offline device, a payload that the component type does not accept, or
\* an entity without a command topic: 400.
Reject == step = "send" /\ Finish /\ UNCHANGED renamed

Accept ==
  /\ step = "send"
  /\ up
  /\ topic # "none"
  /\ Goto("publish")
  /\ UNCHANGED <<renamed, up, topic>>

\* Connected, published and acknowledged; or aiomqtt raised.
Publish == step = "publish" /\ Finish /\ UNCHANGED renamed

Handle ==
  \/ GetDevice \/ GetEntity \/ ListEntities \/ Show
  \/ LoadDevice \/ CommitName \/ KeepName \/ BusyTimeout \/ Refreshed
  \/ Reject \/ Accept \/ Publish

\* The process is restarted.
Restart == step # "idle" /\ Finish /\ UNCHANGED renamed

Next ==
  \/ CacheNext /\ UNCHANGED <<renamed, request>>
  \/ /\ \/ \E q \in Routes, u \in Users, d \in Devices, e \in Entities : Start(q, u, d, e)
        \/ Handle
        \/ Restart
     /\ UNCHANGED cacheVars

Spec == Init /\ [][Next]_vars

-----------------------------------------------------------------------------
\* Types; and what a request has read is kept exactly as long as it is used.
TypeOK ==
  /\ CacheTypeOK
  /\ renamed \subseteq Devices
  /\ step \in Steps
  /\ route \in Routes \cup {"none"}
  /\ caller \in Users \cup {NoUser}
  /\ asked \in Devices
  /\ chosen \in Entities
  /\ up \in BOOLEAN
  /\ topic \in {"none", "command"}
  /\ step = "idle" <=> caller = NoUser
  /\ step = "idle" <=> route = "none"
  /\ step \in {"idle", "get_device"} => ~up
  /\ step \notin {"send", "publish"} => topic = "none"

\* README.md 3: commands are "aimed at that user's own devices".  What a
\* request publishes goes to a topic that the device announced within its own
\* scope, what it shows is of the device it asked for, and that device is still
\* the caller's or has been deleted: no delete, discovery message or device
\* announcement between the handler's reads (user.py 277-286, 315-326) directs
\* a command elsewhere or shows another's entity.
OwnDevicesOnly ==
  /\ step \in {"answer", "publish"} => owner[asked] \in {caller, NoUser}
  /\ step = "publish" \/ (step = "answer" /\ route = "show_entity") => chosen[1] = asked
  /\ step = "publish" => topic = "command"

\* update_device (device_service.py 75-84) writes by the device's id alone, two
\* awaits after the handler compared the owner (user.py 166-172): a device is
\* nevertheless renamed only while it is the caller's.
OnlyOwnersRename ==
  [][\A d \in Devices : d \in renamed' /\ d \notin renamed => owner[d] = caller]_vars

=============================================================================
