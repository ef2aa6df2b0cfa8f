------------------------------ MODULE MCHubCI -------------------------------
(* Two tokens of one publisher; the second configuration pauses publishing *)
(* until 2, the third withdraws the trust rule.                            *)
EXTENDS HubCI

MCTokens ==
    {[jti |-> "j1", kid |-> "k1", binding |-> "repo", iat |-> 1, exp |-> 2],
     [jti |-> "j2", kid |-> "k2", binding |-> "repo", iat |-> 1, exp |-> 3]}

Trusting ==
    [version |-> 2, subjects |-> [s \in {"ci"} |-> [kind |-> "service", disabled |-> FALSE]],
     members |-> [m \in {<<"ci", "a">>} |-> "publisher"], keys |-> {},
     publishers |-> {[subject |-> "ci", ws |-> "a", binding |-> "repo"]},
     quarantine |-> Never, retention |-> 1, quota |-> 1]
Paused == [Trusting EXCEPT !.quarantine = 2]
Withdrawn == [Trusting EXCEPT !.subjects = [s \in {"ci"} |-> [kind |-> "service", disabled |-> TRUE]]]

\* Not valid: a reader may not publish.
Reading == [Trusting EXCEPT !.members = [m \in {<<"ci", "a">>} |-> "viewer"]]

MCFirstConfigs == {Trusting}
MCConfigs == {Trusting, Paused, Withdrawn, Reading}
=============================================================================
