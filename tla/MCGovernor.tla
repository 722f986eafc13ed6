------------------------------ MODULE MCGovernor ------------------------------
(***************************************************************************)
(* An instance of Governor for TLC.  One message text is enough: the       *)
(* governor never looks at it.                                             *)
(***************************************************************************)
EXTENDS Governor

MCPriorities == {"low", "high"}
MCTtl == [p \in MCPriorities |-> IF p = "low" THEN 2 ELSE 4]

=============================================================================
