----------------------------- MODULE HubServer ------------------------------
(***************************************************************************)
(* The report hub while it serves (internal/hub/server.go, store.go, and   *)
(* the serve command of cmd/worldbisect-hub): requests that authenticate,  *)
(* are admitted, read a body and are authorized again under a read lock;   *)
(* the main loop that reloads the configuration under the write lock,      *)
(* sweeps and shuts down; an operator who edits the file; crashes.         *)
(*                                                                         *)
(* The audit log is the one AppendOnlyLog promises, here the set of its    *)
(* entries about requests: an append extends it or fails, and after a      *)
(* failure no append of this process succeeds.  A report is named by the   *)
(* request that stored it.  One unit of the clock is the time a rate token *)
(* takes to come back; retention and expiry are counted in the same unit.  *)
(***************************************************************************)
EXTENDS Access, RateLimiter

CONSTANTS
    Requests,      \* requests of a run, each of which happens at most once
    Tokens,        \* bearer tokens that clients present
    Kinds,         \* what clients ask for, "bad" where no route answers
    Configs,       \* configurations the operator puts into the file
    Credentials,   \* what the credential command is asked for
    Workspaces,
    SlotLimit,     \* requests in progress per workspace (2)
    GlobalSlots,   \* requests in progress (16)
    MaxTime,       \* bound on the clock
    MaxEdits,      \* bound on the changes of the file
    MaxStarts      \* bound on the processes

Routes == {"session", "list", "create", "get", "delete"}

ConfigFields == {"version", "subjects", "members", "keys", "publishers", "quarantine",
                 "retention", "quota"}

ASSUME HubServerAssumption ==
    /\ {SlotLimit, GlobalSlots} \subseteq Nat \ {0}
    /\ Kinds \subseteq Routes \union {"bad"}
    /\ \A c \in Configs : /\ DOMAIN c = ConfigFields /\ c.quota \in Int
                          /\ ConfiguredWorkspaces(c) \subseteq Workspaces

VARIABLES
    file,      \* the configuration file
    config,    \* Server.config and Store.config
    status,    \* "down", "serving", "stopping" (Shutdown), "closed" (past it)
    main,      \* the main loop: "select", or "wait" for the write lock
    loaded,    \* the configuration that Reload waits with
    gens,      \* workspace -> the number of slot channels made for it
    buckets,   \* Server.limiter
    req,       \* Requests -> what its handler has read and where it is
    reports,   \* the reports in the data directory
    log, fault,     \* the audit log
    clock,
    edits, starts,  \* counters for the bounds
    removed    \* history: the workspaces and tokens a reload of this process
               \* took out of the configuration

access == <<config, gens, removed>>
audit == <<log, fault>>
operator == <<file, edits>>
process == <<status, main, loaded, starts>>
vars == <<operator, access, process, buckets, req, reports, audit, clock>>

Idle == [pc |-> "idle", token |-> "none", kind |-> "bad", id |-> "none", ws |-> "none",
         slot |-> <<"none", 0>>, mayWrite |-> FALSE, charged |-> FALSE, told |-> FALSE]

Init ==
    /\ file \in Configs /\ Validate(file)
    /\ config = file /\ status = "serving" /\ main = "select" /\ loaded = file
    /\ gens = [w \in Workspaces |-> IF w \in ConfiguredWorkspaces(file) THEN 1 ELSE 0]
    /\ buckets = [k \in {} |-> 0]
    /\ req = [r \in Requests |-> Idle]
    /\ reports = {}
    /\ log = {} /\ fault = FALSE
    /\ clock = 1 /\ edits = 0 /\ starts = 1
    /\ removed = {}

-----------------------------------------------------------------------------
(* Locks, slots, the audit log.                                            *)

Held == {"operate", "complete"}                     \* authorized's RLock
InProgress == {"body", "authorize"} \union Held     \* a slot of Server.slots

\* No new reader gets in while Reload waits for the write lock.
RLockFree == main # "wait"

OnSlot(s) == {r \in Requests : req[r].slot = s /\ req[r].pc \in {"global"} \union InProgress}
Busy == {r \in Requests : req[r].pc \in InProgress}

Success == {200, 201, 204}

Entry(r, outcome) == [req |-> r, outcome |-> outcome]

\* Append extends the log, or fails, its entry committed or not, for good.
AuditAppend(e, ok) ==
    IF ok
    THEN ~fault /\ log' = log \union {e} /\ UNCHANGED fault
    ELSE fault' = TRUE /\ log' \in (IF fault THEN {log} ELSE {log, log \union {e}})

\* An entry of the operator or of an anonymous caller, which log leaves out.
AuditNote(ok) == (IF ok THEN ~fault /\ UNCHANGED fault ELSE fault' = TRUE) /\ UNCHANGED log

\* The caller is answered; the deferred releases give the slots and the lock back.
Reply(r, code) ==
    req' = [req EXCEPT ![r] = [Idle EXCEPT !.pc = "done", !.told = code \in Success,
                                           !.token = req[r].token, !.charged = req[r].charged]]

authFailure(r) ==
    \E c \in Charged(buckets, "anonymous", clock) :
      /\ buckets' = c.buckets
      /\ IF c.ok
         THEN \E ok \in BOOLEAN : AuditNote(ok) /\ Reply(r, IF ok THEN 401 ELSE 503)
         ELSE Reply(r, 401) /\ UNCHANGED audit

-----------------------------------------------------------------------------
(* ServeHTTP.                                                              *)

\* A request arrives and is looked up under the read lock, with the channel its
\* workspace has at that moment.
Authenticate(r, token, kind, id) ==
    /\ status = "serving" /\ RLockFree
    /\ req[r].pc = "idle"
    /\ LET key == authenticate(config, token) IN
       IF principalForKey(config, key, clock)
       THEN /\ req' = [req EXCEPT ![r] =
                 [Idle EXCEPT !.pc = "admit", !.token = token, !.kind = kind, !.id = id,
                              !.slot = <<key.ws, gens[key.ws]>>,
                              !.mayWrite = Write \in keyScopes(key)]]
            /\ UNCHANGED <<buckets, audit>>
       ELSE authFailure(r)
    /\ UNCHANGED <<operator, access, process, reports, clock>>

\* The rate limit, then a slot of the workspace.
Admit(r) ==
    /\ req[r].pc = "admit"
    /\ \E c \in Charged(buckets, req[r].token, clock) :
         /\ buckets' = c.buckets
         /\ IF c.ok /\ Cardinality(OnSlot(req[r].slot)) < SlotLimit
            THEN req' = [req EXCEPT ![r].pc = "global", ![r].charged = TRUE]
            ELSE req' = [req EXCEPT ![r] = [Idle EXCEPT !.pc = "done", !.token = req[r].token,
                                                        !.charged = c.ok]]   \* 429
    /\ UNCHANGED <<operator, access, process, reports, audit, clock>>

\* A slot of the hub; the route, the method and the query are looked at only now.
AdmitGlobally(r) ==
    /\ req[r].pc = "global"
    /\ IF Cardinality(Busy) >= GlobalSlots THEN Reply(r, 503)
       ELSE IF req[r].kind = "bad" THEN Reply(r, 400)
       ELSE req' = [req EXCEPT ![r].pc =
                     IF req[r].kind = "create" /\ req[r].mayWrite THEN "body" ELSE "authorize"]
    /\ UNCHANGED <<operator, access, process, buckets, reports, audit, clock>>

\* readSubmission: the body comes slowly, is cut off, too large or invalid.
ReadSubmission(r) ==
    /\ req[r].pc = "body"
    /\ req' = [req EXCEPT ![r].pc = "authorize"] \/ Reply(r, 400)
    /\ UNCHANGED <<operator, access, process, buckets, reports, audit, clock>>

ScopeOf(kind) ==
    CASE kind \in {"list", "get"} -> Read
      [] kind = "create" -> Write
      [] kind = "delete" -> Delete
      [] OTHER -> "none"

\* The lookup of the first step used again: nothing is checked under the lock.
AuthorizeOnce(r) ==
    /\ req[r].pc = "authorize" /\ RLockFree
    /\ \E ok \in BOOLEAN :
         /\ AuditAppend(Entry(r, "intent"), ok)
         /\ IF ok THEN req' = [req EXCEPT ![r].pc = "operate", ![r].ws = req[r].slot[1]]
            ELSE Reply(r, 503)
    /\ UNCHANGED <<operator, access, process, buckets, reports, clock>>

\* The intent is written, or not, and the operation runs either way.
AuthorizeUnrecorded(r) ==
    /\ req[r].pc = "authorize" /\ RLockFree
    /\ LET key == authenticate(config, req[r].token)
       IN  /\ principalForKey(config, key, clock)
           /\ ScopeOf(req[r].kind) \in keyScopes(key) \union {"none"}
           /\ req' = [req EXCEPT ![r].pc = "operate", ![r].ws = key.ws]
    /\ \E ok \in BOOLEAN : AuditAppend(Entry(r, "intent"), ok)
    /\ UNCHANGED <<operator, access, process, buckets, reports, clock>>

\* authorized, up to the operation: the read lock is taken, and the credential
\* looked up again in the configuration of now, before the intent is recorded.
Authorize(r) ==
    /\ req[r].pc = "authorize" /\ RLockFree
    /\ LET key == authenticate(config, req[r].token)
           scope == ScopeOf(req[r].kind)
       IN  IF ~principalForKey(config, key, clock)
           THEN authFailure(r)
           ELSE /\ IF scope \notin keyScopes(key) \union {"none"}
                   THEN \E ok \in BOOLEAN :
                          AuditAppend(Entry(r, "denied"), ok) /\ Reply(r, IF ok THEN 403 ELSE 503)
                   ELSE IF req[r].kind = "create" /\ ~req[r].mayWrite
                   THEN Reply(r, 403) /\ UNCHANGED audit
                   ELSE \E ok \in BOOLEAN :
                          /\ AuditAppend(Entry(r, "intent"), ok)
                          /\ IF ok
                             THEN req' = [req EXCEPT ![r].pc = "operate", ![r].ws = key.ws]
                             ELSE Reply(r, 503)
                /\ UNCHANGED buckets
    /\ UNCHANGED <<operator, access, process, reports, clock>>

\* The result of the operation is recorded before the caller sees it.
Complete(r) ==
    /\ req[r].pc = "complete"
    /\ \E ok \in BOOLEAN :
         AuditAppend(Entry(r, "completed"), ok) /\ Reply(r, IF ok /\ req[r].told THEN 200 ELSE 503)
    /\ UNCHANGED <<operator, access, process, buckets, reports, clock>>

-----------------------------------------------------------------------------
(* Store: every operation holds its mutex, loads the directory of the      *)
(* workspace and so removes what is expired, and the temporary file of a   *)
(* write that was cut, which nobody else sees.                             *)

Expired(x) == x.created + config.retention <= clock
In(ws) == {x \in reports : x.ws = ws}
Live(ws) == {x \in In(ws) : ~Expired(x)}

\* The quota compared once too late.
QuotaFullLate(ws) == Cardinality(Live(ws)) > config.quota

QuotaFull(ws) == Cardinality(Live(ws)) >= config.quota

Found(r) == {x \in Live(req[r].ws) : x.id = req[r].id}

\* What the operation of r leaves of its workspace's reports, and its result.
Outcome(r) ==
    LET ws == req[r].ws
        new == [id |-> r, ws |-> ws, token |-> req[r].token, created |-> clock]
    IN  CASE req[r].kind = "list" -> [left |-> Live(ws), code |-> 200]
          [] req[r].kind = "get" ->
               [left |-> Live(ws), code |-> IF Found(r) # {} THEN 200 ELSE 404]
          [] req[r].kind = "delete" ->
               [left |-> Live(ws) \ Found(r), code |-> IF Found(r) # {} THEN 204 ELSE 404]
          [] req[r].kind = "create" ->
               IF QuotaFull(ws) THEN [left |-> Live(ws), code |-> 409]
               ELSE [left |-> Live(ws) \union {new}, code |-> 201]

Operated(r, code) ==
    req' = [req EXCEPT ![r].pc = "complete", ![r].told = code \in Success]

\* A workspace that is not configured has no directory (workspaceDir).
Operate(r) ==
    /\ req[r].pc = "operate"
    /\ IF req[r].kind = "session"
       THEN Operated(r, 200) /\ UNCHANGED reports
       ELSE IF req[r].ws \notin ConfiguredWorkspaces(config)
       THEN Operated(r, 404) /\ UNCHANGED reports
       ELSE /\ reports' = (reports \ In(req[r].ws)) \union Outcome(r).left
            /\ Operated(r, Outcome(r).code)
    /\ UNCHANGED <<operator, access, process, buckets, audit, clock>>

\* The limit on directories is reached, or any step on disk fails: some of what
\* is expired is gone, or the last sync fails after all was done.
OperateFails(r) ==
    /\ req[r].pc = "operate" /\ req[r].kind # "session"
    /\ \/ \E S \in SUBSET (In(req[r].ws) \ Live(req[r].ws)) : reports' = reports \ S
       \/ reports' = (reports \ In(req[r].ws)) \union Outcome(r).left
    /\ Operated(r, 500)
    /\ UNCHANGED <<operator, access, process, buckets, audit, clock>>

-----------------------------------------------------------------------------
(* The main loop, the process and the operator.                            *)

\* SIGHUP: the file is read; an invalid one is recorded and forgotten.
LoadConfig ==
    /\ status = "serving" /\ main = "select"
    /\ IF Validate(file)
       THEN main' = "wait" /\ loaded' = file /\ UNCHANGED audit
       ELSE /\ \E ok \in BOOLEAN : AuditNote(ok)
            /\ UNCHANGED <<main, loaded>>
    /\ UNCHANGED <<operator, access, status, starts, buckets, req, reports, clock>>

\* Every workspace gets a new channel.
NewSlotsAll(c) ==
    [w \in Workspaces |-> IF w \in ConfiguredWorkspaces(c) THEN gens[w] + 1 ELSE gens[w]]

\* resetWorkspaceSlots: a workspace that was configured keeps its channel.
NewSlots(c) ==
    [w \in Workspaces |-> IF w \in ConfiguredWorkspaces(c) \ ConfiguredWorkspaces(config)
                          THEN gens[w] + 1 ELSE gens[w]]

\* retain forgets every bucket.
KeptBucketsNone(c) == Retained(buckets, {"anonymous"})

KeptBuckets(c) == Retained(buckets, {"anonymous"} \union {k.token : k \in c.keys})

\* The lock is taken when no request is inside authorized.  A failed intent
\* leaves everything as it was; once it is recorded the configuration is
\* replaced, whether its application can be recorded or not.
Reload ==
    /\ main = "wait"
    /\ \A r \in Requests : req[r].pc \notin Held
    /\ \/ AuditNote(FALSE) /\ UNCHANGED <<access, buckets>>
       \/ /\ ~fault
          /\ config' = loaded
          /\ gens' = NewSlots(loaded)
          /\ removed' = removed
               \union (ConfiguredWorkspaces(config) \ ConfiguredWorkspaces(loaded))
               \union ({k.token : k \in config.keys} \ {k.token : k \in loaded.keys})
          /\ buckets' = KeptBuckets(loaded)
          /\ \E ok \in BOOLEAN : AuditNote(ok)
    /\ main' = "select" /\ loaded' = config'
    /\ UNCHANGED <<operator, status, starts, req, reports, clock>>

\* PurgeExpired goes through the directories, the removed workspaces' too, and
\* stops at the first it cannot finish.
Sweep ==
    /\ status = "serving" /\ main = "select"
    /\ \E S \in SUBSET Workspaces : reports' = {x \in reports : x.ws \in S => ~Expired(x)}
    /\ UNCHANGED <<operator, access, process, buckets, req, audit, clock>>

\* The context is cancelled: no new request, those in progress have ten seconds.
Shutdown ==
    /\ status = "serving" /\ main = "select"
    /\ status' = "stopping"
    /\ UNCHANGED <<operator, access, main, loaded, starts, buckets, req, reports, audit, clock>>

\* They did not end in time: the audit log is closed under the handlers.
ShutdownTimeout ==
    /\ status = "stopping"
    /\ \E r \in Requests : req[r].pc \notin {"idle", "done", "lost"}
    /\ status' = "closed" /\ fault' = TRUE
    /\ UNCHANGED <<operator, access, main, loaded, starts, buckets, req, reports, log, clock>>

\* The process ends: a Shutdown that waited, the end of main, or a crash.
Exit ==
    /\ status # "down"
    /\ status' = "down" /\ main' = "select" /\ loaded' = config /\ fault' = FALSE
    /\ req' = [r \in Requests |-> IF req[r].pc = "idle" THEN Idle
                                  ELSE [Idle EXCEPT !.pc = IF req[r].pc = "done" THEN "done" ELSE "lost"]]
    /\ buckets' = [k \in {} |-> 0]
    /\ UNCHANGED <<operator, access, starts, reports, log, clock>>

\* serve: the file is loaded, the data directory is swept, the audit log opened
\* and the start recorded.
Start ==
    /\ status = "down" /\ starts < MaxStarts
    /\ Validate(file)
    /\ config' = file /\ loaded' = file
    /\ reports' = {x \in reports : x.created + file.retention > clock}
    /\ starts' = starts + 1
    /\ status' \in {"down", "serving"}
    /\ gens' = [w \in Workspaces |-> IF w \in ConfiguredWorkspaces(file) THEN 1 ELSE 0]
    /\ removed' = {}
    /\ UNCHANGED <<operator, main, buckets, req, audit, clock>>

EditConfig(c) ==
    /\ edits < MaxEdits
    /\ file' = c /\ c # file
    /\ edits' = edits + 1
    /\ UNCHANGED <<access, process, buckets, req, reports, audit, clock>>

\* The credential command, which takes effect at the next reload.
ProvisionCredential(d) ==
    /\ edits < MaxEdits
    /\ ~\E k \in file.keys : k.token = d.key.token
    /\ Validate(file) /\ ProvisionAllowed(file, d.key, d.kind, d.role)
    /\ file' = Provisioned(file, d.key, d.kind, d.role)
    /\ edits' = edits + 1
    /\ UNCHANGED <<access, process, buckets, req, reports, audit, clock>>

Tick ==
    /\ clock < MaxTime
    /\ clock' = clock + 1
    /\ UNCHANGED <<operator, access, process, buckets, req, reports, audit>>

Handle(r) ==
    Admit(r) \/ AdmitGlobally(r) \/ ReadSubmission(r) \/ Authorize(r)
      \/ Operate(r) \/ OperateFails(r) \/ Complete(r)

Next ==
    \/ \E r \in Requests :
         \/ \E token \in Tokens, kind \in Kinds :
              \E id \in IF kind \in {"get", "delete"} THEN Requests \ {r} ELSE {"none"} :
                Authenticate(r, token, kind, id)
         \/ Handle(r)
    \/ LoadConfig \/ Reload \/ Sweep \/ Shutdown \/ ShutdownTimeout \/ Exit \/ Start
    \/ \E c \in Configs : EditConfig(c)
    \/ \E d \in Credentials : ProvisionCredential(d)
    \/ Tick

Spec == Init /\ [][Next]_vars
-----------------------------------------------------------------------------
(* Properties.                                                             *)

\* Whether a configuration grants a token a scope in a workspace, expiry aside.
Grants(c, token, scope, ws) ==
    LET key == authenticate(c, token) IN
    /\ key # NoKey /\ Active(c, key)
    /\ key.ws = ws /\ scope \in keyScopes(key)

\* server.go: "a body started before revocation cannot commit after reload".  A
\* report is stored, deleted or read only while the configuration that is active
\* at that moment grants the request's token the scope in the workspace that is
\* touched, whatever was reloaded since the request was admitted.
RevokedNeverCommits ==
    [][\A r \in Requests :
         /\ req[r].pc = "operate" /\ req'[r].pc = "complete"
         /\ req[r].kind # "session"
         => Grants(config, req[r].token, ScopeOf(req[r].kind), req[r].ws)]_vars

\* Nothing happens to a report that the audit log does not announce: each one on
\* disk was stored by a request whose intent is a committed entry, one that goes
\* away before its retention ends is removed by such a request, and a caller is
\* told of success only when the completion is recorded too; through failed
\* appends, crashes between the steps and handlers that outlive the audit log.
EffectsRecorded ==
    [][/\ \A x \in reports' \ reports : Entry(x.id, "intent") \in log
       /\ \A x \in reports \ reports' :
            \/ Expired(x) \/ status = "down"
            \/ \E r \in Requests : /\ req[r].pc = "operate" /\ req[r].id = x.id
                                   /\ Entry(r, "intent") \in log
       /\ \A r \in Requests : req'[r].told /\ req'[r].pc = "done"
            => {Entry(r, "intent"), Entry(r, "completed")} \subseteq log']_vars

\* The quota holds whenever a report is stored, against the quota of the active
\* configuration and not the one the request was admitted under, with what is
\* expired not counted.
QuotaKept ==
    [][\A w \in Workspaces :
         {x \in reports' : x.ws = w} \ reports # {} => Cardinality({x \in reports' : x.ws = w}) <= config.quota]_vars

\* docs/team-hub.md: "two per workspace", "16 globally".  A reload does not open
\* room for more requests while the old ones are in progress, unless it takes
\* the workspace out of the configuration and a later one brings it back.
RequestsBounded ==
    /\ Cardinality(Busy) <= GlobalSlots
    /\ \A w \in Workspaces \ removed :
         Cardinality({r \in Busy : req[r].slot[1] = w}) <= SlotLimit

\* server.go: "reload cannot reset a caller's burst allowance".  A token that
\* stays configured is let through at most Burst times and once more for every
\* unit of time.
BurstKept ==
    \A t \in Tokens \ removed :
      Cardinality({r \in Requests : req[r].token = t /\ req[r].charged}) <= Burst + clock - 1

\* A new credential changes nothing for the callers that there are.
ProvisioningAdds ==
    [][\A d \in Credentials : ProvisionCredential(d) =>
         \A t \in {k.token : k \in file.keys}, s \in Scopes, w \in Workspaces :
           Grants(file, t, s, w) <=> Grants(file', t, s, w)]_vars
=============================================================================
