------------------------------- MODULE MCSender -------------------------------
(* Instances of Sender for TLC. *)
EXTENDS Sender, TLC

MCPriorities == {"low", "high"}
MCTtl == [p \in MCPriorities |-> IF p = "low" THEN 2 ELSE 4]

MCOnePriority == {"normal"}
MCOneTtl == [p \in MCOnePriority |-> 3]
MCLongTtl == [p \in MCOnePriority |-> 6]

MCTransport == [w \in Workers |-> "transport"]
\* Workers are, and messages are, interchangeable: no property of the runs that use
\* this names one.
Interchangeable == Permutations(Workers) \cup Permutations(Messages)

=============================================================================
