-------------------------- MODULE MCDeviceRegistry --------------------------
\* Finite instances of DeviceRegistry for TLC.
EXTENDS RegistryInvariant, TLC

\* Requests, devices and users who are not admins are interchangeable: the code
\* never orders or singles out any.  Sound for invariants and action properties.
Symmetry ==
  Permutations(Requests) \cup Permutations(Devices) \cup Permutations(Users \ Admins)

\* Bound on RegistryShared: an administrator does nothing but delete users.
\* RegistryTargeted has him create and delete devices as well.
AdminsOnlyDelete ==
  \A r \in Requests : caller[r] \in Admins => pc[r] \in UserSteps

=============================================================================
