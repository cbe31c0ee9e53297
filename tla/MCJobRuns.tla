----------------------------- MODULE MCJobRuns -----------------------------
(* Instances of JobRuns for TLC: the options an update may set. *)
EXTENDS JobRuns

NoUpdates == {}
\* Raise and lower the limit, and change the policy with it.
LimitUpdates == {[limit |-> 1, policy |-> "queue", retries |-> 0],
                 [limit |-> 2, policy |-> "cancel", retries |-> 0]}
=============================================================================
