---------------------------- MODULE CacheClaims ----------------------------
(***************************************************************************)
(* What README.md 3 says of the ingestor where the code does less.         *)
(***************************************************************************)
EXTENDS Ingestor

\* Devices with an account keep reporting their state.
ReportingSpec == FairSpec /\ \A e \in Entities : SF_vars(Report(e))

\* README.md 3: the gateway "keeps a live cache of device state pulled from
\* MQTT in the background".  Once the connection no longer fails, the state
\* that the device of a known entity reports again and again is cached.
LiveCache ==
  <>[][~Fault]_vars =>
    \A e \in Entities :
      Known(e) ~> \/ ~Known(e) \/ ~Account(e[1])
                  \/ cached[e].value = state[e] /\ state[e] # 0

=============================================================================
