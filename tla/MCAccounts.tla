----------------------------- MODULE MCAccounts -----------------------------
\* A finite instance of Accounts for TLC.
EXTENDS Accounts, TLC

\* The code singles out no user, no request and no key but the configured one.
\* Sound for invariants and action properties.
Symmetry ==
  Permutations(Requests) \cup Permutations(Users)
    \cup Permutations(Keys \ {ConfiguredKey})

=============================================================================
