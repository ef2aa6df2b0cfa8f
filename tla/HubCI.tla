------------------------------- MODULE HubCI --------------------------------
(***************************************************************************)
(* CI publishing (internal/hub/oidc.go): a request presents a token signed *)
(* by GitHub, whose keys the verifier caches; the token is matched with a  *)
(* trust rule, the body is read, trust is checked again under the read     *)
(* lock, the token is reserved in a ledger on disk and the report stored.  *)
(*                                                                         *)
(* Three locks meet here: the server's read-write lock (RLock from the     *)
(* recheck to the reply, the write lock in Reload), the store's mutex and  *)
(* the verifier's, which a fetch of the keys holds while it waits for the  *)
(* network and which consume takes under the other two.  The key service   *)
(* is external.  The slots and the rate limit are those of HubServer;      *)
(* here a request may be refused by them at any time.                      *)
(***************************************************************************)
EXTENDS Access

CONSTANTS
    Requests,       \* requests of a run, each of which happens at most once
    Tokens,         \* GitHub's tokens: [jti, kid, binding, iat, exp]
    Kids,           \* signing keys GitHub may publish
    Configs,        \* configurations the operator may load
    FirstConfigs,   \* those the process may start with
    Lifetime, Skew, \* of a token: 600 and 30 seconds
    KeyTTL,         \* how long fetched keys are used (10 minutes)
    RetryAfter,     \* between two fetches (1 minute)
    VerifySlots,    \* verifications in progress (2)
    Capacity,       \* entries of the ledger (1000)
    PerPublisher,   \* of them, for one publisher (32)
    MaxTime,        \* bound on the clock
    MaxRotations,   \* bound on the changes of the published keys
    MaxReloads,     \* bound on the changes of the configuration
    MaxCrashes      \* bound on the restarts

ASSUME HubCIAssumption ==
    /\ {Lifetime, Skew, MaxRotations, MaxReloads, MaxCrashes} \subseteq Nat
    /\ {KeyTTL, RetryAfter, VerifySlots, Capacity, PerPublisher, MaxTime} \subseteq Nat \ {0}
    /\ FirstConfigs \subseteq Configs
    /\ \A c \in Configs : c.quarantine \in Nat
    /\ \A t \in Tokens : {t.iat, t.exp} \subseteq Nat /\ t.kid \in Kids
    /\ \A s, t \in Tokens : s.jti = t.jti => s = t

VARIABLES
    config,    \* the active configuration
    main,      \* "select", or "wait": Reload waits for the write lock
    loaded,    \* the configuration it waits with
    published, \* the keys GitHub publishes
    gone,      \* history: kid -> the instant it was withdrawn
    cache,     \* ciVerifier.keys, fetched and lastAttempt (0 when never)
    req,       \* Requests -> its handler
    ledger,    \* .ci-replays.json: [jti, publisher, exp] entries
    reports,   \* the reports stored, each with the token and its reservation
    log, fault,   \* the audit log: the requests whose intent is in it, and as in HubServer
    clock,
    bounds     \* counters for the bounds

files == <<ledger, reports>>
audit == <<log, fault>>
access == <<config, main, loaded>>
service == <<published, gone>>
vars == <<access, service, cache, req, files, audit, clock, bounds>>

NoToken == [jti |-> "none", kid |-> "none", binding |-> "none", iat |-> 0, exp |-> 0]
NoPublisher == [subject |-> "none", ws |-> "none", binding |-> "none"]
Idle == [pc |-> "idle", token |-> NoToken, pub |-> NoPublisher, at |-> 0]

EmptyCache == [keys |-> {}, fetched |-> 0, lastAttempt |-> 0]

Init ==
    /\ config \in FirstConfigs /\ Validate(config) /\ main = "select" /\ loaded = config
    /\ published = Kids /\ gone = [k \in Kids |-> 0]
    /\ cache = EmptyCache
    /\ req = [r \in Requests |-> Idle]
    /\ ledger = {} /\ reports = {}
    /\ log = {} /\ fault = FALSE
    /\ clock = 1
    /\ bounds = [rotations |-> 0, reloads |-> 0, crashes |-> 0]

-----------------------------------------------------------------------------
(* Locks.                                                                  *)

\* The read lock of the first lookup kept while the body is read.
HeldWhileReading == {"body", "recheck", "reserve", "store", "complete"}

\* Where handleCI holds its second read lock.
Held == {"reserve", "store", "complete"}

RLockFree == main # "wait"
VerifierFree == \A r \in Requests : req[r].pc # "fetch"
Verifying == {r \in Requests : req[r].pc \in {"verify", "sign", "fetch"}}

Step(r, pc) == req' = [req EXCEPT ![r].pc = pc]
Reply(r) == req' = [req EXCEPT ![r] = [Idle EXCEPT !.pc = "done"]]

AuditIntent(r, ok) ==
    IF ok
    THEN ~fault /\ log' = log \union {r} /\ UNCHANGED fault
    ELSE fault' = TRUE /\ log' \in (IF fault THEN {log} ELSE {log, log \union {r}})

ciQuarantined(c) == c.quarantine # Never /\ clock < c.quarantine

-----------------------------------------------------------------------------
(* verify and signingKey.                                                  *)

\* handleCI up to the verification slot.
Enter(r, t) ==
    /\ req[r].pc = "idle" /\ RLockFree
    /\ IF config.publishers # {} /\ ~ciQuarantined(config) /\ Cardinality(Verifying) < VerifySlots
       THEN req' = [req EXCEPT ![r] = [Idle EXCEPT !.pc = "verify", !.token = t]]
       ELSE Reply(r)
    /\ UNCHANGED <<access, service, cache, files, audit, clock, bounds>>

\* The token's own times, against the clock of the moment.
LifetimeAccepted(t) ==
    /\ t.iat > 0 /\ t.exp > clock /\ t.exp > t.iat
    /\ t.iat <= clock + Skew /\ clock <= t.iat + Lifetime
    /\ t.exp <= t.iat + Lifetime

VerifyClaims(r) ==
    /\ req[r].pc = "verify"
    /\ IF LifetimeAccepted(req[r].token) THEN Step(r, "sign") ELSE Reply(r)
    /\ UNCHANGED <<access, service, cache, files, audit, clock, bounds>>

\* The keys kept as long as a fetch is not due.
CachedForGood(kid) == kid \in cache.keys

Cached(kid) == kid \in cache.keys /\ clock - cache.fetched < KeyTTL

\* A fresh key is used; otherwise the keys are fetched, the lock held, unless
\* that was tried a short while ago.
SigningKey(r) ==
    /\ req[r].pc = "sign" /\ VerifierFree
    /\ IF Cached(req[r].token.kid)
       THEN Step(r, "match") /\ UNCHANGED cache
       ELSE IF cache.lastAttempt # 0 /\ clock - cache.lastAttempt < RetryAfter
       THEN Reply(r) /\ UNCHANGED cache
       ELSE /\ cache' = [cache EXCEPT !.lastAttempt = clock]
            /\ req' = [req EXCEPT ![r].pc = "fetch", ![r].at = clock]
    /\ UNCHANGED <<access, service, files, audit, clock, bounds>>

\* The answer replaces the cache; it is dated when the request was made.
FetchKeys(r) ==
    /\ req[r].pc = "fetch"
    /\ cache' = [cache EXCEPT !.keys = published, !.fetched = req[r].at]
    /\ IF req[r].token.kid \in published THEN Step(r, "match") ELSE Reply(r)
    /\ UNCHANGED <<access, service, files, audit, clock, bounds>>

\* No answer in five seconds, or one that is refused or does not parse.
FetchFails(r) ==
    /\ req[r].pc = "fetch"
    /\ Reply(r)
    /\ UNCHANGED <<access, service, cache, files, audit, clock, bounds>>

-----------------------------------------------------------------------------
(* handleCI after the verification.                                        *)

\* The trust rule for the token and the slots it gives, under the read lock.
Match(r) ==
    /\ req[r].pc = "match" /\ RLockFree
    /\ IF matchingPublishers(config, req[r].token.binding) # {} THEN Step(r, "body") ELSE Reply(r)
    /\ UNCHANGED <<access, service, cache, files, audit, clock, bounds>>

\* Refused by a limit, or the body is cut, invalid or about another run.
Refused(r) ==
    /\ req[r].pc = "body"
    /\ Reply(r)
    /\ UNCHANGED <<access, service, cache, files, audit, clock, bounds>>

ReadBody(r) ==
    /\ req[r].pc = "body"
    /\ Step(r, "recheck")
    /\ UNCHANGED <<access, service, cache, files, audit, clock, bounds>>

\* The rule found before the body was read, as long as it is still configured.
RecheckRule(r) ==
    /\ req[r].pc = "recheck" /\ RLockFree
    /\ \E ok \in BOOLEAN, p \in config.publishers :
         /\ p.binding = req[r].token.binding
         /\ AuditIntent(r, ok)
         /\ IF ok THEN req' = [req EXCEPT ![r].pc = "reserve", ![r].pub = p] ELSE Reply(r)
    /\ UNCHANGED <<access, service, cache, files, clock, bounds>>

\* Under the read lock, kept to the end: trust and expiry of now, then the intent.
Recheck(r) ==
    /\ req[r].pc = "recheck" /\ RLockFree
    /\ LET trusted == matchingPublishers(config, req[r].token.binding) IN
       IF ciQuarantined(config) \/ trusted = {} \/ req[r].token.exp <= clock
       THEN Reply(r) /\ UNCHANGED audit
       ELSE \E ok \in BOOLEAN, p \in trusted :
              /\ AuditIntent(r, ok)
              /\ IF ok THEN req' = [req EXCEPT ![r].pc = "reserve", ![r].pub = p] ELSE Reply(r)
    /\ UNCHANGED <<access, service, cache, files, clock, bounds>>

LiveEntries == {e \in ledger : e.exp > clock}

\* An expiry the ledger cannot hold yet makes it unreadable.
LedgerReadable == \A e \in ledger : e.exp <= clock + Lifetime + Skew

\* Reserved as long as there is room in the file, whoever takes it.
MayReserveAny(r) ==
    /\ LedgerReadable
    /\ ~\E e \in LiveEntries : e.jti = req[r].token.jti
    /\ Cardinality(LiveEntries) < Capacity

MayReserve(r) ==
    /\ LedgerReadable
    /\ ~\E e \in LiveEntries : e.jti = req[r].token.jti
    /\ Cardinality(LiveEntries) < Capacity
    /\ Cardinality({e \in LiveEntries : e.publisher = req[r].pub.subject}) < PerPublisher

Reserved(r) ==
    LiveEntries \union
      {[jti |-> req[r].token.jti, publisher |-> req[r].pub.subject, exp |-> req[r].token.exp]}

\* The failure of the write ignored.
ConsumeRegardless(r) ==
    /\ req[r].pc = "reserve" /\ VerifierFree
    /\ MayReserve(r)
    /\ ledger' \in {ledger, Reserved(r)}
    /\ req' = [req EXCEPT ![r].pc = "store", ![r].at = clock]
    /\ UNCHANGED <<access, service, cache, reports, audit, clock, bounds>>

\* consume, under the store's and the verifier's mutex.
Consume(r) ==
    /\ req[r].pc = "reserve" /\ VerifierFree
    /\ IF MayReserve(r)
       THEN ledger' = Reserved(r) /\ req' = [req EXCEPT ![r].pc = "store", ![r].at = clock]
       ELSE Reply(r) /\ UNCHANGED ledger
    /\ UNCHANGED <<access, service, cache, reports, audit, clock, bounds>>

\* The write of the ledger fails, before or after the rename: the token may be
\* burned, the report is not stored.
ConsumeFails(r) ==
    /\ req[r].pc = "reserve" /\ VerifierFree
    /\ MayReserve(r)
    /\ ledger' \in {ledger, Reserved(r)}
    /\ Reply(r)
    /\ UNCHANGED <<access, service, cache, reports, audit, clock, bounds>>

Report(r) == [id |-> r, jti |-> req[r].token.jti, ws |-> req[r].pub.ws, reservedAt |-> req[r].at]

CreateVerified(r) ==
    /\ req[r].pc = "store"
    /\ reports' = reports \union {Report(r)}
    /\ Step(r, "complete")
    /\ UNCHANGED <<access, service, cache, ledger, audit, clock, bounds>>

\* The quota, or a step on disk; no completion is recorded.
CreateFails(r) ==
    /\ req[r].pc = "store"
    /\ reports' \in {reports, reports \union {Report(r)}}
    /\ Reply(r)
    /\ UNCHANGED <<access, service, cache, ledger, audit, clock, bounds>>

\* The completion is recorded, or the caller told that it could not be.
Complete(r) ==
    /\ req[r].pc = "complete"
    /\ fault' \in {fault, TRUE}
    /\ Reply(r)
    /\ UNCHANGED <<access, service, cache, files, log, clock, bounds>>

-----------------------------------------------------------------------------
(* Reload, restarts, GitHub and time.                                      *)

LoadConfig(c) ==
    /\ main = "select" /\ bounds.reloads < MaxReloads
    /\ Validate(c)
    /\ main' = "wait" /\ loaded' = c
    /\ bounds' = [bounds EXCEPT !.reloads = @ + 1]
    /\ UNCHANGED <<config, service, cache, req, files, audit, clock>>

\* The write lock, when nobody reads; a failed intent changes nothing.
Reload ==
    /\ main = "wait"
    /\ \A r \in Requests : req[r].pc \notin Held
    /\ \/ ~fault /\ config' = loaded /\ fault' \in BOOLEAN
       \/ fault' = TRUE /\ UNCHANGED config
    /\ main' = "select" /\ loaded' = config'
    /\ UNCHANGED <<service, cache, req, files, log, clock, bounds>>

\* The process stops and starts again on what is on disk.
Crash ==
    /\ bounds.crashes < MaxCrashes
    /\ bounds' = [bounds EXCEPT !.crashes = @ + 1]
    /\ cache' = EmptyCache /\ fault' = FALSE /\ main' = "select" /\ loaded' = config
    /\ req' = [r \in Requests |-> IF req[r].pc = "idle" THEN Idle ELSE [Idle EXCEPT !.pc = "done"]]
    /\ UNCHANGED <<config, service, files, log, clock>>

Rotate(kids) ==
    /\ bounds.rotations < MaxRotations
    /\ kids # published /\ kids # {}
    /\ published' = kids
    /\ gone' = [k \in Kids |-> IF k \in published \ kids THEN clock ELSE gone[k]]
    /\ bounds' = [bounds EXCEPT !.rotations = @ + 1]
    /\ UNCHANGED <<access, cache, req, files, audit, clock>>

Tick ==
    /\ clock < MaxTime
    /\ clock' = clock + 1
    /\ UNCHANGED <<access, service, cache, req, files, audit, bounds>>

Handle(r) ==
    \/ VerifyClaims(r) \/ SigningKey(r) \/ FetchKeys(r) \/ FetchFails(r)
    \/ Match(r) \/ Refused(r) \/ ReadBody(r) \/ Recheck(r)
    \/ Consume(r) \/ ConsumeFails(r) \/ CreateVerified(r) \/ CreateFails(r) \/ Complete(r)

Next ==
    \/ \E r \in Requests : (\E t \in Tokens : Enter(r, t)) \/ Handle(r)
    \/ \E c \in Configs : LoadConfig(c)
    \/ Reload \/ Crash \/ Tick
    \/ \E kids \in SUBSET Kids : Rotate(kids)

Spec == Init /\ [][Next]_vars

\* The client's timeout ends every fetch, the server's ReadTimeout every body,
\* and RWMutex lets the waiting readers in after a writer, the writer in after
\* the readers that were there.
Fairness == (\A r \in Requests : WF_vars(Handle(r))) /\ WF_vars(Reload)

FairSpec == Spec /\ Fairness
-----------------------------------------------------------------------------
(* Properties.                                                             *)

TypeOK ==
    /\ Validate(config) /\ main \in {"select", "wait"} /\ Validate(loaded)
    /\ published \subseteq Kids /\ gone \in [Kids -> 0..MaxTime]
    /\ cache.keys \subseteq Kids /\ cache.fetched <= cache.lastAttempt
    /\ \A r \in Requests : req[r].pc \in Held \union
         {"idle", "verify", "sign", "fetch", "match", "body", "recheck", "done"}
    /\ \A x \in reports : x.id \in Requests
    /\ fault \in BOOLEAN /\ clock \in 1..MaxTime

\* consume: "a failed upload burns the token, rather than risking a duplicate
\* after a crash".  Reservations made before the token expires give at most one
\* report, through retries, failed writes of the ledger and restarts.  (One made
\* at the very instant of expiry, after the recheck, leaves no live entry.)
TokenUsedOnce ==
    \A t \in Tokens : Cardinality({x \in reports : x.jti = t.jti /\ x.reservedAt < t.exp}) <= 1

\* The ledger stays within its capacity, for each publisher too, and no token it
\* took makes it unreadable: verify accepts no expiry that consume would refuse.
LedgerSound ==
    /\ LedgerReadable
    /\ Cardinality(LiveEntries) <= Capacity
    /\ \A e \in ledger : Cardinality({d \in LiveEntries : d.publisher = e.publisher}) <= PerPublisher

\* A report is stored only while the active configuration trusts the token's
\* origin to publish in that workspace and publishing is not paused, and after
\* its intent was recorded, whatever was reloaded while the body came.
StoredWhileTrusted ==
    [][\A x \in reports' \ reports :
         /\ x.id \in log
         /\ ~ciQuarantined(config)
         /\ \E p \in matchingPublishers(config, req[x.id].token.binding) : p.ws = x.ws]_vars

\* A key that GitHub withdraws is trusted for less than KeyTTL afterwards,
\* whichever requests fetched and whenever their answers came.
WithdrawnKeyExpires ==
    [][\A r \in Requests :
         req[r].pc \in {"sign", "fetch"} /\ req'[r].pc = "match" =>
           \/ req[r].token.kid \in published
           \/ clock - gone[req[r].token.kid] < KeyTTL]_vars

\* Every request and every reload ends: a request holds the read lock while it
\* waits for the verifier, a fetch holds the verifier while it waits for the
\* network, and a reload that waits keeps new readers out.
NobodyWaitsForEver ==
    /\ \A r \in Requests : req[r].pc # "idle" ~> req[r].pc = "done"
    /\ main = "wait" ~> main = "select"
=============================================================================
