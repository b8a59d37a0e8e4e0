--------------------------- MODULE RegistryClaims ---------------------------
(***************************************************************************)
(* What the repository's documentation and tests say of the registry where *)
(* the code does something else.  Each formula is checked by a run of its  *)
(* own that shows a behaviour of DeviceRegistry violating it.              *)
(***************************************************************************)
EXTENDS DeviceRegistry

\* services/device_service.py 18: DeviceLimitExceededError is "raised when a
\* non-admin actor would exceed MAX_DEVICES_PER_USER", so the devices a user
\* registered himself are never more than that.
LimitRespected ==
  \A u \in Users : Cardinality(DevicesOf(u) \ exempt) <= MaxDevices

\* The owner of a device repeats its delete for as long as the row exists.
RetrySpec ==
  /\ FairSpec
  /\ \A u \in Users, d \in Devices :
       SF_vars(owner[d] = u /\ \E r \in Requests : StartDelete(r, u, d))

\* A step that only a failure explains (a link that fails after an error
\* reply arrived does what reading that reply does).
Fault ==
  /\ Crash \/ \E r \in Requests : ProvisionFault(r)
  /\ \A r \in Requests : ~Step(r)

\* README.md 201: the endpoint "Delete[s] device + MQTT account".  A device
\* whose account is gone is deleted by one of its owner's repeated requests,
\* once connections no longer fail.
DeletedOnRetry ==
  <>[][~Fault]_vars =>
    \A d \in Devices :
      (d \in Registered /\ d \notin clients) ~> (d \notin Registered)

=============================================================================
