----------------------------- MODULE MCAuditLog -----------------------------
\* A finite instance of AuditLog for TLC.
EXTENDS AuditLog, TLC

\* The code singles out no user.  Sound for invariants and action properties.
Symmetry == Permutations(Users)

=============================================================================
