---------------------------- MODULE GovernorBudget ----------------------------
(***************************************************************************)
(* Governor with a record of when it granted its attempts.  The state file *)
(* counts attempts in windows that start wherever the first operation      *)
(* after the last one happened to fall; what the upstream service feels is *)
(* the number of attempts in any stretch of time.                          *)
(***************************************************************************)
EXTENDS Governor

ASSUME ClockAssumption == MaxNow \in Nat \ {0}

VARIABLE granted    \* clock second -> attempts granted up to its end

GrantedNow == Larger(0, (ordinary' + probes') - (ordinary + probes))

BudgetInit == Init /\ granted = [s \in 0 .. MaxNow |-> 0]
BudgetNext ==
    /\ Next
    /\ granted' = [s \in 0 .. MaxNow |->
                      IF s >= now THEN granted[s] + GrantedNow ELSE granted[s]]

BudgetSpec == BudgetInit /\ [][BudgetNext]_<<vars, granted>>

GrantedBetween(first, last) == granted[last] - granted[first - 1]

\* Any stretch of time shorter than a window by the age a clock reading may
\* have meets at most two windows, so at most twice the largest capacity is
\* attempted in it, however refreshes, expiry, polls and stale readings move
\* the windows (462-474, 500-507).
AnyStretchBudget ==
    Enabled => \A s, e \in 1 .. MaxNow :
        s <= e /\ e - s < WindowSeconds - MaxLag =>
            GrantedBetween(s, e) <= 2 * Ceiling

=============================================================================
