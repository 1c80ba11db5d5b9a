----------------------- MODULE MCParticipantExecution -----------------------
(***************************************************************************)
(* Three participants on a cadence, two of which conflict, and one governed*)
(* participant with a budget, all on one wall-paced clock.                 *)
(***************************************************************************)
EXTENDS ParticipantExecution

CONSTANTS a, b, c, g, cpu, host

MCPolicies ==
    <<[participants |-> <<a, b, c>>, profile |-> "v1", maxInFlight |-> 3, start |-> 0, cadence |-> 1,
       maxAttempts |-> 2, maxOccurrences |-> 1, maxRetries |-> 0, failurePolicy |-> "continue", budgets |-> {}],
      [participants |-> <<g>>, profile |-> "v3", maxInFlight |-> 1, start |-> 0, cadence |-> 1,
       maxAttempts |-> 3, maxOccurrences |-> 2, maxRetries |-> 1, failurePolicy |-> "continue",
       budgets |-> {cpu}]>>
\* The governed participant by itself
MCGoverned == <<MCPolicies[2]>>

MCConflicts == {{a, c}}
MCBudgets   == {cpu}
MCBudget    == [x \in MCBudgets |-> [demand |-> 1, limit |-> 2, pool |-> host, gauge |-> FALSE,
                                      protected |-> FALSE, segmental |-> TRUE]]
MCPools     == {host}
MCPool      == [x \in MCPools |-> [capacity |-> 2, protected |-> 0]]
=============================================================================
