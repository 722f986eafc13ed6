--------------------------- MODULE MCGovernorBudget ---------------------------
(* An instance of GovernorBudget: one priority, a window of three seconds.  *)
EXTENDS GovernorBudget

MCPriorities == {"normal"}
MCTtl == [p \in MCPriorities |-> 3]

=============================================================================
