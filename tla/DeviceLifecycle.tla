--------------------------- MODULE DeviceLifecycle ---------------------------
(***************************************************************************)
(* What the registry and the broker together promise about one device, as  *)
(* one life each: the abstract specification that DeviceRegistry refines.  *)
(*                                                                         *)
(*   fresh    no request has drawn the identity                            *)
(*   pending  a create holds it in an uncommitted transaction              *)
(*   live     a committed row of an owner, and an account at the broker    *)
(*   disabled a committed row whose account has been revoked               *)
(*   orphan   an account at the broker that no row accounts for            *)
(*   gone     neither                                                      *)
(*                                                                         *)
(* A device becomes usable (live) only with both halves in place, and its  *)
(* owner loses the row only after the account is revoked, or together with *)
(* every other device because the owner is removed.                        *)
(***************************************************************************)
CONSTANTS Users, Devices, NoUser

VARIABLES users, owner, life

Lives == {"fresh", "pending", "live", "disabled", "orphan", "gone"}

Init ==
  /\ users = Users
  /\ owner = [d \in Devices |-> NoUser]
  /\ life = [d \in Devices |-> "fresh"]

Becomes(d, l) == life' = [life EXCEPT ![d] = l]

\* One device at a time is pending: the database has one writer.
Reserve(d) ==
  /\ life[d] = "fresh"
  /\ \A e \in Devices : life[e] # "pending"
  /\ Becomes(d, "pending")
  /\ UNCHANGED <<users, owner>>

Enable(d, u) ==
  /\ life[d] = "pending"
  /\ u \in users
  /\ Becomes(d, "live")
  /\ owner' = [owner EXCEPT ![d] = u]
  /\ UNCHANGED users

\* A create fails or the gateway stops: the account may survive it.
Abandon(d) ==
  /\ life[d] = "pending"
  /\ \E l \in {"orphan", "gone"} : Becomes(d, l)
  /\ UNCHANGED <<users, owner>>

\* The account is revoked first...
Disable(d) ==
  /\ life[d] = "live"
  /\ Becomes(d, "disabled")
  /\ UNCHANGED <<users, owner>>

\* ... and the row is removed after it.
Retire(d) ==
  /\ life[d] = "disabled"
  /\ Becomes(d, "gone")
  /\ owner' = [owner EXCEPT ![d] = NoUser]
  /\ UNCHANGED users

\* A delete that was under way when the owner was removed ends the orphan.
Purge(d) ==
  /\ life[d] = "orphan"
  /\ Becomes(d, "gone")
  /\ UNCHANGED <<users, owner>>

\* All devices of a removed owner lose their rows in one step.
RemoveUser(u) ==
  /\ u \in users
  /\ users' = users \ {u}
  /\ owner' = [d \in Devices |-> IF owner[d] = u THEN NoUser ELSE owner[d]]
  /\ life' = [d \in Devices |->
                IF owner[d] # u THEN life[d]
                ELSE IF life[d] = "live" THEN "orphan" ELSE "gone"]

Next ==
  \/ \E d \in Devices :
       Reserve(d) \/ Abandon(d) \/ Disable(d) \/ Retire(d) \/ Purge(d)
  \/ \E d \in Devices, u \in Users : Enable(d, u)
  \/ \E u \in Users : RemoveUser(u)

vars == <<users, owner, life>>

Spec == Init /\ [][Next]_vars

=============================================================================
