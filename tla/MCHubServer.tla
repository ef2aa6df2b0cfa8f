---------------------------- MODULE MCHubServer -----------------------------
(* Two workspaces and two callers.  The configurations differ in who may   *)
(* do what, in the quota and in the workspaces; one is not valid.          *)
EXTENDS HubServer

Service == [kind |-> "service", disabled |-> FALSE]
MCKey(t, s, w, p, e) ==
    [token |-> t, subject |-> s, ws |-> w, permission |-> p, scopes |-> {}, expires |-> e]
MCMembers(r) == [m \in {<<"ann", "a">>} |-> r]

\* An editor of workspace a, and a key of the same subject that expires.
Base ==
    [version |-> 2, subjects |-> [s \in {"ann"} |-> Service], members |-> MCMembers("editor"),
     keys |-> {MCKey("t1", "ann", "a", "write", Never), MCKey("t2", "ann", "a", "read", 2)},
     publishers |-> {}, quarantine |-> Never, retention |-> 1, quota |-> 1]

\* The editor is disabled, and the token belongs to one of workspace b.
Moved ==
    [Base EXCEPT !.subjects = [s \in {"ann", "bob"} |-> [Service EXCEPT !.disabled = (s = "ann")]],
                 !.members = [m \in {<<"bob", "b">>} |-> "editor"],
                 !.keys = {MCKey("t1", "bob", "b", "write", Never)}, !.quota = 2]

\* A reader whose key asks for more than the role.
Excess == [Base EXCEPT !.members = MCMembers("viewer")]

MCConfigs == {Base, Moved, Excess}
MCCredentials ==
    {[key |-> [MCKey("t2", "bob", "b", "read", Never) EXCEPT !.scopes = {Read}],
      kind |-> "service", role |-> "viewer"],
     [key |-> [MCKey("t2", "bob", "b", "write", Never) EXCEPT !.scopes = Scopes],
      kind |-> "service", role |-> "editor"]}
=============================================================================
