------------------------------- MODULE Access -------------------------------
(***************************************************************************)
(* The hub's access configuration (internal/hub/config.go, access.go,      *)
(* oidc.go, provision.go): what makes one valid, and what it grants.       *)
(*                                                                         *)
(* A configuration is a record: subjects and members are functions on the  *)
(* subjects and the <<subject, workspace>> pairs it lists, keys and        *)
(* publishers are sets.  A token stands for its SHA-256 hash, a binding    *)
(* for the claims a CI trust rule names exactly, and times are instants of *)
(* the module that uses this one.  Identifiers are well formed.            *)
(***************************************************************************)
EXTENDS Integers, FiniteSets

Read == "reports:read"
Write == "reports:write"
Delete == "reports:delete"
Scopes == {Read, Write, Delete}

Never == 0   \* no expires_at, no ci_quarantine_until

roleScopes(role) ==
    CASE role = "viewer" -> {Read}
      [] role = "publisher" -> {Write}
      [] role = "editor" -> Scopes
      [] OTHER -> {}

membershipScopes(c, subject, ws) ==
    IF <<subject, ws>> \in DOMAIN c.members THEN roleScopes(c.members[<<subject, ws>>]) ELSE {}

keyScopes(key) ==
    IF key.scopes # {} THEN key.scopes
    ELSE roleScopes(IF key.permission = "write" THEN "editor" ELSE "viewer")

ciMembership(c, p, requireEnabled) ==
    /\ p.subject \in DOMAIN c.subjects
    /\ c.subjects[p.subject].kind = "service"
    /\ requireEnabled => ~c.subjects[p.subject].disabled
    /\ <<p.subject, p.ws>> \in DOMAIN c.members
    /\ c.members[<<p.subject, p.ws>>] \in {"publisher", "editor"}

\* A credential may ask for less than its membership grants, never for more.
validateAccessConfig(c) ==
    /\ c.version = 1 => {DOMAIN c.subjects, DOMAIN c.members, c.publishers} = {{}}
    /\ \A m \in DOMAIN c.members : m[1] \in DOMAIN c.subjects /\ roleScopes(c.members[m]) # {}
    /\ \A key \in c.keys :
         IF c.version = 1
         THEN key.scopes = {}
         ELSE /\ key.subject \in DOMAIN c.subjects
              /\ <<key.subject, key.ws>> \in DOMAIN c.members
              /\ keyScopes(key) \subseteq membershipScopes(c, key.subject, key.ws)

ValidateCIPublishers(c) ==
    /\ c.publishers # {} => c.version = 2
    /\ \A p \in c.publishers :
         /\ ciMembership(c, p, FALSE)
         /\ \A q \in c.publishers : p.binding = q.binding => p = q

Validate(c) ==
    /\ c.version \in {1, 2}
    /\ c.retention > 0 /\ c.quota > 0
    /\ c.keys # {} \/ c.publishers # {}
    /\ validateAccessConfig(c)
    /\ \A k, l \in c.keys : k.token = l.token => k = l
    /\ ValidateCIPublishers(c)

\* The workspaces a request slot, and a directory, can be had for.
ConfiguredWorkspaces(c) == {k.ws : k \in c.keys} \union {m[2] : m \in DOMAIN c.members}

-----------------------------------------------------------------------------

NoKey == [token |-> "none"]

authenticate(c, token) ==
    IF \E k \in c.keys : k.token = token THEN CHOOSE k \in c.keys : k.token = token ELSE NoKey

\* The key's subject is enabled and a member of its workspace.
Active(c, key) ==
    \/ c.version = 1
    \/ /\ key.subject \in DOMAIN c.subjects
       /\ ~c.subjects[key.subject].disabled
       /\ membershipScopes(c, key.subject, key.ws) # {}

\* Whether a key is a principal of the configuration.
principalForKey(c, key, now) ==
    /\ key # NoKey
    /\ key.expires # Never => now < key.expires
    /\ Active(c, key)

\* The trust rules that accept a token with these claims.
matchingPublishers(c, binding) ==
    {p \in c.publishers : p.binding = binding /\ ciMembership(c, p, TRUE)}

-----------------------------------------------------------------------------
(* ProvisionCredential: a subject, its membership and a key are added.     *)

\* A subject or a membership is appended when it is not there already.
Added(f, x, v) == [y \in DOMAIN f \union {x} |-> IF y \in DOMAIN f THEN f[y] ELSE v]

\* The subject's other keys replaced.
ProvisionedInstead(c, key, kind, role) ==
    [c EXCEPT !.subjects = Added(@, key.subject, [kind |-> kind, disabled |-> FALSE]),
              !.members = Added(@, <<key.subject, key.ws>>, role),
              !.keys = {k \in @ : k.subject # key.subject} \union {key}]

Provisioned(c, key, kind, role) ==
    [c EXCEPT !.subjects = Added(@, key.subject, [kind |-> kind, disabled |-> FALSE]),
              !.members = Added(@, <<key.subject, key.ws>>, role),
              !.keys = @ \union {key}]

\* Its early returns, and the validation of what it is about to write.
ProvisionAllowed(c, key, kind, role) ==
    /\ c.version = 2
    /\ roleScopes(role) # {} /\ key.scopes = roleScopes(role)
    /\ key.permission = IF role = "viewer" THEN "read" ELSE "write"
    /\ key.subject \in DOMAIN c.subjects =>
         c.subjects[key.subject] = [kind |-> kind, disabled |-> FALSE]
    /\ <<key.subject, key.ws>> \in DOMAIN c.members =>
         c.members[<<key.subject, key.ws>>] = role
    /\ Validate(Provisioned(c, key, kind, role))
=============================================================================
