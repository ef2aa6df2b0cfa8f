----------------------------- MODULE HubCIProof ------------------------------
(***************************************************************************)
(* CI publishing for any tokens, requests, configurations, lifetimes and   *)
(* limits, any rotation of the keys, reload, failed write and restart.     *)
(*                                                                         *)
(* A use of a token is a report, or a request that has reserved the token  *)
(* and is about to store one.  While the token could still be accepted, a  *)
(* use keeps an entry in the ledger, and consume refuses a token that has  *)
(* one; so there is one use.  Trust is held from the recheck to the reply  *)
(* by the read lock, under which the configuration cannot change.          *)
(***************************************************************************)
EXTENDS HubCI, FiniteSetTheorems, TLAPS

Waiting == {"sign", "fetch", "match", "body", "recheck"}
Pcs == Held \union Waiting \union {"idle", "verify", "done"}
Publishers == UNION {c.publishers : c \in Configs}
Handlers == [pc : Pcs, token : Tokens \union {NoToken},
             pub : Publishers \union {NoPublisher}, at : Nat]

StateInv ==
    /\ config \in Configs /\ Validate(config) /\ loaded \in Configs /\ Validate(loaded)
    /\ main \in {"select", "wait"} /\ fault \in BOOLEAN
    /\ req \in [Requests -> Handlers]
    /\ clock \in 1..MaxTime

\* What a handler may rely on: the token it read, its lifetime, the trust that
\* the read lock keeps, and the intent.
TrustInv ==
    \A r \in Requests :
      /\ req[r].pc \notin {"idle", "done"} => req[r].token \in Tokens
      /\ req[r].pc \in Waiting \union Held => req[r].token.exp <= clock + Lifetime + Skew
      /\ req[r].pc \in Held =>
           /\ r \in log /\ ~ciQuarantined(config)
           /\ req[r].pub \in matchingPublishers(config, req[r].token.binding)

\* The keys in the cache were published when they were asked for.
CacheInv ==
    /\ published \subseteq Kids /\ gone \in [Kids -> 0..MaxTime]
    /\ cache \in [keys : SUBSET Kids, fetched : Nat, lastAttempt : Nat]
    /\ cache.fetched <= cache.lastAttempt /\ cache.lastAttempt <= clock
    /\ \A k \in cache.keys : k \in published \/ cache.fetched <= gone[k]
    /\ \A r \in Requests : req[r].pc = "fetch" => req[r].at <= cache.lastAttempt

Uses == reports \union {Report(r) : r \in {s \in Requests : req[s].pc = "store"}}

Counts(x, t) == x.jti = t.jti /\ x.reservedAt < t.exp

UseInv ==
    /\ \A x \in Uses : x.id \in Requests
    /\ \A x \in Uses, t \in Tokens : Counts(x, t) /\ clock < t.exp =>
         \E e \in ledger : e.jti = t.jti /\ e.exp = t.exp
    /\ \A x, y \in Uses, t \in Tokens : Counts(x, t) /\ Counts(y, t) => x = y

Of(publisher) == {d \in LiveEntries : d.publisher = publisher}

LedgerInv ==
    /\ IsFiniteSet(ledger)
    /\ \A e \in ledger : e.exp \in Nat
    /\ LedgerReadable
    /\ Cardinality(LiveEntries) <= Capacity
    /\ \A e \in ledger : Cardinality(Of(e.publisher)) <= PerPublisher

CIInv == StateInv /\ TrustInv /\ CacheInv /\ UseInv /\ LedgerInv

-----------------------------------------------------------------------------
\* Before the first upload.
LEMMA InitInv == Init => CIInv
<1> SUFFICES ASSUME Init PROVE CIInv
  OBVIOUS
<1>0. Idle \in Handlers /\ Idle.pc = "idle"
  BY DEF Idle, Handlers, Pcs
<1>1. StateInv /\ TrustInv
  <2>1. req \in [Requests -> Handlers] /\ \A r \in Requests : req[r].pc = "idle"
    BY <1>0 DEF Init
  <2>2. clock \in 1..MaxTime
    BY HubCIAssumption DEF Init
  <2> QED
    BY <2>1, <2>2, HubCIAssumption DEF Init, StateInv, TrustInv, Held, Waiting
<1>2. CacheInv
  BY HubCIAssumption DEF Init, CacheInv, EmptyCache, Idle
<1>3. Uses = {} /\ LiveEntries = {} /\ ledger = {}
  BY DEF Init, Uses, LiveEntries, Idle
<1>4. UseInv
  BY <1>3 DEF UseInv
<1>5. LedgerInv
  BY <1>3, FS_EmptySet, HubCIAssumption DEF LedgerInv, LedgerReadable
<1> QED
  BY <1>1, <1>2, <1>4, <1>5 DEF CIInv

-----------------------------------------------------------------------------
(* What a step does to the record of its request, field by field.          *)

Moves(r) == req' \in [Requests -> Handlers] /\ \A s \in Requests \ {r} : req'[s] = req[s]
Keeps(r) == req'[r].token = req[r].token /\ req'[r].pub = req[r].pub

\* A handler moves only its own request.
LEMMA HandlerMoves ==
    ASSUME StateInv, NEW r \in Requests, NEW q \in Handlers, req' = [req EXCEPT ![r] = q]
    PROVE  Moves(r) /\ req'[r] = q
  BY DEF StateInv, Moves

\* So does a step of a request.
LEMMA StepMoves ==
    ASSUME StateInv, NEW r \in Requests, NEW pc \in Pcs, Step(r, pc)
    PROVE  Moves(r) /\ req'[r].pc = pc /\ Keeps(r) /\ req'[r].at = req[r].at
<1> DEFINE q == [req[r] EXCEPT !.pc = pc]
<1>1. req[r] \in Handlers
  BY DEF StateInv
<1>2. q \in Handlers /\ q.pc = pc /\ q.token = req[r].token /\ q.pub = req[r].pub /\ q.at = req[r].at
  BY <1>1 DEF Handlers
<1>3. req' = [req EXCEPT ![r] = q]
  BY DEF Step
<1> QED
  BY <1>2, <1>3, HandlerMoves DEF Keeps

\* And a step that notes the time.
LEMMA StepAtMoves ==
    ASSUME StateInv, NEW r \in Requests, NEW pc \in Pcs,
           req' = [req EXCEPT ![r].pc = pc, ![r].at = clock]
    PROVE  Moves(r) /\ req'[r].pc = pc /\ Keeps(r) /\ req'[r].at = clock
<1> DEFINE q == [req[r] EXCEPT !.pc = pc, !.at = clock]
<1>1. req[r] \in Handlers /\ clock \in Nat
  BY HubCIAssumption DEF StateInv
<1>2. q \in Handlers /\ q.pc = pc /\ q.token = req[r].token /\ q.pub = req[r].pub /\ q.at = clock
  BY <1>1 DEF Handlers
<1>3. req' = [req EXCEPT ![r] = q]
  BY <1>1 DEF StateInv
<1> QED
  BY <1>2, <1>3, HandlerMoves DEF Keeps

\* And one that notes the publisher.
LEMMA TrustMoves ==
    ASSUME StateInv, NEW r \in Requests, NEW p \in Publishers,
           req' = [req EXCEPT ![r].pc = "reserve", ![r].pub = p]
    PROVE  Moves(r) /\ req'[r].pc = "reserve" /\ req'[r].pub = p /\ req'[r].token = req[r].token
<1> DEFINE q == [req[r] EXCEPT !.pc = "reserve", !.pub = p]
<1>1. req[r] \in Handlers
  BY DEF StateInv
<1>2. q \in Handlers /\ q.pc = "reserve" /\ q.pub = p /\ q.token = req[r].token
  BY <1>1 DEF Handlers, Pcs, Held
<1>3. req' = [req EXCEPT ![r] = q]
  BY <1>1 DEF StateInv
<1> QED
  BY <1>2, <1>3, HandlerMoves

\* An answer ends its request.
LEMMA ReplyMoves ==
    ASSUME StateInv, NEW r \in Requests, Reply(r)
    PROVE  Moves(r) /\ req'[r].pc = "done"
<1> DEFINE q == [Idle EXCEPT !.pc = "done"]
<1>1. q \in Handlers /\ q.pc = "done"
  BY DEF Idle, Handlers, Pcs
<1>2. req' = [req EXCEPT ![r] = q]
  BY DEF Reply
<1> QED
  BY <1>1, <1>2, HandlerMoves

\* A new upload is verified next, or answered at once.
LEMMA EnterMoves ==
    ASSUME StateInv, NEW r \in Requests, NEW t \in Tokens, Enter(r, t)
    PROVE  Moves(r) /\ (req'[r].pc = "done" \/ (req'[r].pc = "verify" /\ req'[r].token = t))
<1> DEFINE q == [Idle EXCEPT !.pc = "verify", !.token = t]
<1>1. q \in Handlers /\ q.pc = "verify" /\ q.token = t
  BY DEF Idle, Handlers, Pcs
<1>2. req' = [req EXCEPT ![r] = q] \/ Reply(r)
  BY DEF Enter
<1> QED
  BY <1>1, <1>2, HandlerMoves, ReplyMoves

\* A crash ends every request that had begun.
LEMMA CrashMoves ==
    ASSUME StateInv, Crash
    PROVE  req' \in [Requests -> Handlers] /\ \A r \in Requests : req'[r].pc \in {"idle", "done"}
<1> DEFINE q == [Idle EXCEPT !.pc = "done"]
<1>1. /\ q \in Handlers /\ q.pc = "done"
      /\ Idle \in Handlers /\ Idle.pc = "idle"
  BY DEF Idle, Handlers, Pcs
<1>2. req' = [r \in Requests |-> IF req[r].pc = "idle" THEN Idle ELSE q]
  BY DEF Crash
<1> HIDE DEF q
<1> QED
  BY <1>1, <1>2

\* The steps of a handler before the recheck touch nothing but its record and
\* the cache.
Early(r) ==
    \/ \E t \in Tokens : Enter(r, t)
    \/ VerifyClaims(r) \/ SigningKey(r) \/ FetchKeys(r) \/ FetchFails(r)
    \/ Match(r) \/ Refused(r) \/ ReadBody(r)

\* The steps before the second check touch nothing but their request.
LEMMA EarlyMoves ==
    ASSUME StateInv, TrustInv, NEW r \in Requests, Early(r)
    PROVE  /\ Moves(r) /\ UNCHANGED <<access, service, files, audit, clock>>
           /\ \/ req'[r].pc = "done"
              \/ req'[r].pc = "verify" /\ req'[r].token \in Tokens
              \/ /\ req'[r].pc \in Waiting /\ req'[r].token = req[r].token
                 /\ req[r].token \in Tokens
                 /\ req[r].token.exp <= clock + Lifetime + Skew
<1> USE DEF Pcs, Waiting
<1>1. ASSUME NEW t \in Tokens, Enter(r, t)
      PROVE  Moves(r) /\ (req'[r].pc = "done" \/ (req'[r].pc = "verify" /\ req'[r].token \in Tokens))
  BY <1>1, EnterMoves
<1>2. CASE VerifyClaims(r)
  <2>1. Reply(r) \/ (Step(r, "sign") /\ LifetimeAccepted(req[r].token) /\ req[r].token \in Tokens)
    BY <1>2 DEF VerifyClaims, TrustInv
  <2>2. ASSUME LifetimeAccepted(req[r].token), req[r].token \in Tokens
        PROVE  req[r].token.exp <= clock + Lifetime + Skew
    BY <2>2, HubCIAssumption DEF LifetimeAccepted, StateInv
  <2> QED
    BY <1>2, <2>1, <2>2, ReplyMoves, StepMoves DEF VerifyClaims, Keeps
<1>3. ASSUME req[r].pc \in Waiting
      PROVE  req[r].token \in Tokens /\ req[r].token.exp <= clock + Lifetime + Skew
  BY <1>3 DEF TrustInv
<1>4. CASE SigningKey(r)
  <2>1. \/ Reply(r) \/ Step(r, "match")
        \/ req' = [req EXCEPT ![r].pc = "fetch", ![r].at = clock]
    BY <1>4 DEF SigningKey
  <2> QED
    BY <1>3, <1>4, <2>1, ReplyMoves, StepMoves, StepAtMoves DEF SigningKey, Keeps
<1>5. CASE FetchKeys(r) \/ FetchFails(r) \/ Match(r) \/ Refused(r) \/ ReadBody(r)
  <2>1. /\ \/ Reply(r) \/ Step(r, "match") \/ Step(r, "body") \/ Step(r, "recheck")
        /\ req[r].pc \in Waiting
    BY <1>5 DEF FetchKeys, FetchFails, Match, Refused, ReadBody
  <2>2. UNCHANGED <<access, service, files, audit, clock>>
    BY <1>5 DEF FetchKeys, FetchFails, Match, Refused, ReadBody
  <2> QED
    BY <1>3, <2>1, <2>2, ReplyMoves, StepMoves DEF Keeps
<1>6. UNCHANGED <<access, service, files, audit, clock>>
  BY DEF Early, Enter, VerifyClaims, SigningKey, FetchKeys, FetchFails, Match, Refused, ReadBody
<1> QED
  BY <1>1, <1>2, <1>4, <1>5, <1>6 DEF Early

\* The steps after the recheck, without their effect on the files.
Late(r) == Consume(r) \/ ConsumeFails(r) \/ CreateVerified(r) \/ CreateFails(r) \/ Complete(r)

\* The steps after it leave the log and the configuration alone.
LEMMA LateMoves ==
    ASSUME StateInv, NEW r \in Requests, Late(r)
    PROVE  /\ Moves(r) /\ UNCHANGED <<access, service, cache, log, clock>>
           /\ fault' \in BOOLEAN
           /\ req[r].pc \in Held
           /\ req'[r].pc = "done" \/ (req'[r].pc \in {"store", "complete"} /\ Keeps(r))
<1>1. /\ req[r].pc \in Held /\ fault' \in BOOLEAN
      /\ UNCHANGED <<access, service, cache, log, clock>>
  BY DEF Late, Consume, ConsumeFails, CreateVerified, CreateFails, Complete, audit, Held, StateInv
<1>2. \/ Reply(r) \/ Step(r, "complete")
      \/ req' = [req EXCEPT ![r].pc = "store", ![r].at = clock]
  BY DEF Late, Consume, ConsumeFails, CreateVerified, CreateFails, Complete
<1> QED
  BY <1>1, <1>2, ReplyMoves, StepMoves, StepAtMoves DEF Pcs, Held

\* The second check lets through what the log has and no quarantine stops.
LEMMA RecheckMoves ==
    ASSUME StateInv, NEW r \in Requests, Recheck(r)
    PROVE  /\ Moves(r) /\ UNCHANGED <<access, service, cache, files, clock>>
           /\ fault' \in BOOLEAN /\ log \subseteq log'
           /\ \/ req'[r].pc = "done"
              \/ /\ req[r].pc = "recheck" /\ req'[r].pc = "reserve" /\ r \in log'
                 /\ ~ciQuarantined(config) /\ req'[r].token = req[r].token
                 /\ req'[r].pub \in matchingPublishers(config, req[r].token.binding)
<1> DEFINE trusted == matchingPublishers(config, req[r].token.binding)
<1>1. /\ req[r].pc = "recheck" /\ UNCHANGED <<access, service, cache, files, clock>>
      /\ fault' \in BOOLEAN /\ log \subseteq log'
  BY DEF Recheck, AuditIntent, StateInv, audit
<1>2. \/ Reply(r)
      \/ \E p \in trusted : /\ req' = [req EXCEPT ![r].pc = "reserve", ![r].pub = p]
                            /\ ~ciQuarantined(config) /\ r \in log'
  BY DEF Recheck, AuditIntent
<1>3. trusted \subseteq Publishers
  BY DEF matchingPublishers, Publishers, StateInv
<1> QED
  BY <1>1, <1>2, <1>3, ReplyMoves, TrustMoves

\* The steps that are no handler's.
Outside ==
    \/ \E c \in Configs : LoadConfig(c)
    \/ Reload \/ Crash \/ Tick
    \/ \E kids \in SUBSET Kids : Rotate(kids)

\* Every step is one of those, or one outside the handlers.
LEMMA Steps ==
    Next <=> Outside \/ \E r \in Requests : Early(r) \/ Recheck(r) \/ Late(r)
  BY DEF Next, Handle, Early, Late, Outside

-----------------------------------------------------------------------------
(* The types, the trust and the cache.                                     *)

\* Every step keeps the states of the requests in order.
LEMMA NextState == ASSUME StateInv, TrustInv, Next PROVE StateInv'
<1>1. ASSUME NEW r \in Requests, Early(r) \/ Recheck(r) \/ Late(r) PROVE StateInv'
  <2>1. Moves(r) /\ UNCHANGED <<access, clock>> /\ fault' \in BOOLEAN
    BY <1>1, EarlyMoves, RecheckMoves, LateMoves DEF StateInv, audit
  <2> QED
    BY <2>1 DEF StateInv, Moves, access
<1>2. CASE \E c \in Configs : LoadConfig(c)
  BY <1>2 DEF LoadConfig, StateInv, audit
<1>3. CASE Reload
  BY <1>3 DEF Reload, StateInv
<1>4. CASE Crash
  BY <1>4, CrashMoves DEF Crash, StateInv
<1>5. CASE Tick
  BY <1>5, HubCIAssumption DEF Tick, StateInv, access, audit
<1>6. CASE \E kids \in SUBSET Kids : Rotate(kids)
  BY <1>6 DEF Rotate, StateInv, access, audit
<1> QED
  BY <1>1, <1>2, <1>3, <1>4, <1>5, <1>6, Steps DEF Outside

\* The part of TrustInv about one request.
TrustOf(r) ==
    /\ req[r].pc \notin {"idle", "done"} => req[r].token \in Tokens
    /\ req[r].pc \in Waiting \union Held => req[r].token.exp <= clock + Lifetime + Skew
    /\ req[r].pc \in Held =>
         /\ r \in log /\ ~ciQuarantined(config)
         /\ req[r].pub \in matchingPublishers(config, req[r].token.binding)

\* A request keeps the trust it was admitted under.
LEMMA TrustStays ==
    ASSUME TrustInv, NEW s \in Requests, req'[s] = req[s], log \subseteq log', UNCHANGED <<config, clock>>
    PROVE  TrustOf(s)'
  BY DEF TrustInv, TrustOf, ciQuarantined

\* Every step keeps what a request may rely on of its trust.
LEMMA NextTrust == ASSUME StateInv, TrustInv, Next PROVE TrustInv'
<1>1. TrustInv' <=> \A r \in Requests : TrustOf(r)'
  BY DEF TrustInv, TrustOf
<1>2. ASSUME NEW r \in Requests, Early(r) PROVE TrustInv'
  <2>1. \A s \in Requests \ {r} : TrustOf(s)'
    BY <1>2, EarlyMoves, TrustStays DEF Moves, access, audit
  <2>2. TrustOf(r)'
    BY <1>2, EarlyMoves DEF TrustOf, Waiting, Held
  <2> QED
    BY <1>1, <2>1, <2>2
<1>3. ASSUME NEW r \in Requests, Recheck(r) PROVE TrustInv'
  <2>1. \A s \in Requests \ {r} : TrustOf(s)'
    BY <1>3, RecheckMoves, TrustStays DEF Moves, access
  <2>2. TrustOf(r)'
    BY <1>3, RecheckMoves DEF TrustOf, TrustInv, Waiting, Held, access, ciQuarantined
  <2> QED
    BY <1>1, <2>1, <2>2
<1>4. ASSUME NEW r \in Requests, Late(r) PROVE TrustInv'
  <2>1. \A s \in Requests \ {r} : TrustOf(s)'
    BY <1>4, LateMoves, TrustStays DEF Moves, access
  <2>2. TrustOf(r)'
    BY <1>4, LateMoves DEF TrustOf, TrustInv, Waiting, Held, access, ciQuarantined, Keeps
  <2> QED
    BY <1>1, <2>1, <2>2
<1>5. CASE (\E c \in Configs : LoadConfig(c)) \/ \E kids \in SUBSET Kids : Rotate(kids)
  <2>1. UNCHANGED <<config, req, log, clock>>
    BY <1>5 DEF LoadConfig, Rotate, access, audit
  <2> QED
    BY <1>1, <2>1, TrustStays
<1>6. CASE Reload
  BY <1>6 DEF Reload, TrustInv, Waiting
<1>7. CASE Crash
  BY <1>1, <1>7, CrashMoves DEF TrustOf, Waiting, Held
<1>8. CASE Tick
  <2>1. clock' = clock + 1 /\ clock \in Nat /\ UNCHANGED <<config, req, log>>
    BY <1>8, HubCIAssumption DEF Tick, StateInv, access, audit
  <2>2. ~ciQuarantined(config) => ~ciQuarantined(config)'
    BY <2>1, HubCIAssumption DEF ciQuarantined, StateInv, Never
  <2>3. ASSUME NEW t \in Tokens, t.exp <= clock + Lifetime + Skew
        PROVE  t.exp <= clock' + Lifetime + Skew
    BY <2>1, <2>3, HubCIAssumption
  <2> QED
    BY <1>1, <2>1, <2>2, <2>3 DEF TrustInv, TrustOf, Waiting, Held
<1> QED
  BY <1>2, <1>3, <1>4, <1>5, <1>6, <1>7, <1>8, Steps DEF Outside

\* Every step keeps the key cache.
LEMMA NextCache == ASSUME StateInv, TrustInv, CacheInv, Next PROVE CacheInv'
<1>0. clock \in Nat /\ clock \in 1..MaxTime
  BY HubCIAssumption DEF StateInv
<1>1. ASSUME NEW r \in Requests, Moves(r), UNCHANGED <<cache, service, clock>>, req'[r].pc # "fetch"
      PROVE  CacheInv'
  BY <1>1 DEF CacheInv, Moves, service
<1>2. ASSUME NEW r \in Requests, Recheck(r) \/ Late(r) PROVE CacheInv'
  BY <1>1, <1>2, RecheckMoves, LateMoves
<1>3. ASSUME NEW r \in Requests, Early(r), UNCHANGED cache, req'[r].pc # "fetch" PROVE CacheInv'
  BY <1>1, <1>3, EarlyMoves DEF Moves, CacheInv, service
<1>4. ASSUME NEW r \in Requests, SigningKey(r) PROVE CacheInv'
  <2>1. CASE UNCHANGED cache /\ (Reply(r) \/ Step(r, "match"))
    BY <1>3, <1>4, <2>1, ReplyMoves, StepMoves DEF Early, Pcs, Waiting
  <2>2. CASE /\ cache' = [cache EXCEPT !.lastAttempt = clock]
             /\ req' = [req EXCEPT ![r].pc = "fetch", ![r].at = clock]
    <3>1. Moves(r) /\ req'[r].at = clock
      BY <2>2, StepAtMoves DEF Pcs, Waiting
    <3>2. UNCHANGED <<service, clock>>
      BY <1>4 DEF SigningKey
    <3>3. /\ cache' \in [keys : SUBSET Kids, fetched : Nat, lastAttempt : Nat]
          /\ cache'.keys = cache.keys /\ cache'.fetched = cache.fetched /\ cache'.lastAttempt = clock
      BY <1>0, <2>2 DEF CacheInv
    <3>4. cache.fetched \in Nat /\ cache.lastAttempt \in Nat
      BY DEF CacheInv
    <3>5. \A s \in Requests : req'[s].pc = "fetch" => req'[s].at <= clock
      <4>1. \A s \in Requests : req[s].at \in Nat
        BY DEF StateInv, Handlers
      <4> QED
        BY <1>0, <3>1, <3>4, <4>1 DEF CacheInv, Moves
    <3> QED
      BY <1>0, <3>2, <3>3, <3>4, <3>5 DEF CacheInv, service
  <2> QED
    BY <1>4, <2>1, <2>2 DEF SigningKey
<1>5. ASSUME NEW r \in Requests, FetchKeys(r) PROVE CacheInv'
  <2>1. /\ cache' = [cache EXCEPT !.keys = published, !.fetched = req[r].at]
        /\ UNCHANGED <<service, clock>> /\ req[r].pc = "fetch"
    BY <1>5 DEF FetchKeys
  <2>2. req[r].at \in Nat
    BY DEF StateInv, Handlers
  <2>3. /\ cache' \in [keys : SUBSET Kids, fetched : Nat, lastAttempt : Nat]
        /\ cache'.keys = published /\ cache'.fetched = req[r].at
        /\ cache'.lastAttempt = cache.lastAttempt
    BY <2>1, <2>2 DEF CacheInv
  <2>4. Moves(r) /\ req'[r].pc # "fetch"
    BY <1>5, ReplyMoves, StepMoves DEF FetchKeys, Pcs, Waiting
  <2> QED
    BY <2>1, <2>3, <2>4 DEF CacheInv, Moves, service
<1>6. ASSUME NEW r \in Requests, Early(r) PROVE CacheInv'
  <2>1. CASE SigningKey(r) \/ FetchKeys(r)
    BY <1>4, <1>5, <2>1
  <2>2. CASE \E t \in Tokens : Enter(r, t)
    BY <1>3, <1>6, <2>2, EnterMoves DEF Enter
  <2>3. CASE VerifyClaims(r) \/ FetchFails(r) \/ Match(r) \/ Refused(r) \/ ReadBody(r)
    <3>1. UNCHANGED cache /\ (Reply(r) \/ Step(r, "sign") \/ Step(r, "body") \/ Step(r, "recheck"))
      BY <2>3 DEF VerifyClaims, FetchFails, Match, Refused, ReadBody
    <3> QED
      BY <1>3, <1>6, <3>1, ReplyMoves, StepMoves DEF Pcs, Waiting
  <2> QED
    BY <1>6, <2>1, <2>2, <2>3 DEF Early
<1>7. CASE Reload \/ \E c \in Configs : LoadConfig(c)
  BY <1>7 DEF Reload, LoadConfig, CacheInv, service
<1>8. CASE Crash
  <2>1. cache' = EmptyCache /\ UNCHANGED <<published, gone, clock>>
    BY <1>8 DEF Crash, service
  <2>2. /\ cache' \in [keys : SUBSET Kids, fetched : Nat, lastAttempt : Nat]
        /\ cache'.keys = {} /\ cache'.fetched = 0 /\ cache'.lastAttempt = 0
    BY <2>1 DEF EmptyCache
  <2>3. \A r \in Requests : req'[r].pc # "fetch"
    BY <1>8, CrashMoves
  <2> QED
    BY <1>0, <2>1, <2>2, <2>3 DEF CacheInv
<1>9. CASE Tick
  <2>1. clock' = clock + 1 /\ UNCHANGED <<cache, published, gone, req>>
    BY <1>9 DEF Tick, service
  <2>2. cache.lastAttempt \in Nat
    BY DEF CacheInv
  <2> QED
    BY <1>0, <2>1, <2>2 DEF CacheInv
<1>10. ASSUME NEW kids \in SUBSET Kids, Rotate(kids) PROVE CacheInv'
  <2>1. /\ published' = kids /\ UNCHANGED <<cache, req, clock>>
        /\ gone' = [k \in Kids |-> IF k \in published \ kids THEN clock ELSE gone[k]]
    BY <1>10 DEF Rotate
  <2>2. gone' \in [Kids -> 0..MaxTime]
    BY <1>0, <2>1 DEF CacheInv
  <2>3. cache.fetched \in Nat /\ cache.lastAttempt \in Nat /\ cache.keys \subseteq Kids
    BY DEF CacheInv
  <2>4. \A k \in cache.keys : k \in published' \/ cache.fetched <= gone'[k]
    BY <1>0, <2>1, <2>3 DEF CacheInv
  <2> QED
    BY <2>1, <2>2, <2>3, <2>4 DEF CacheInv
<1> QED
  BY <1>2, <1>6, <1>7, <1>8, <1>9, <1>10, Steps DEF Outside

-----------------------------------------------------------------------------
(* The ledger.                                                             *)

\* Entries that are no longer live may go, and time may pass.
LEMMA LedgerShrinks ==
    ASSUME StateInv, LedgerInv, ledger' \subseteq ledger, clock' \in Nat, clock <= clock'
    PROVE  LedgerInv'
<1>0. clock \in Nat
  BY HubCIAssumption DEF StateInv
<1>1. IsFiniteSet(ledger') /\ \A e \in ledger' : e.exp \in Nat
  BY FS_Subset DEF LedgerInv
<1>2. LedgerReadable'
  BY <1>0, HubCIAssumption DEF LedgerInv, LedgerReadable
<1>3. LiveEntries' \subseteq LiveEntries /\ IsFiniteSet(LiveEntries)
  <2>1. LiveEntries' \subseteq LiveEntries
    BY <1>0 DEF LedgerInv, LiveEntries
  <2> QED
    BY <2>1, FS_Subset DEF LedgerInv, LiveEntries
<1>4. Cardinality(LiveEntries') <= Capacity
  BY <1>3, FS_Subset, FS_CardinalityType, HubCIAssumption DEF LedgerInv
<1>5. ASSUME NEW e \in ledger' PROVE Cardinality(Of(e.publisher)') <= PerPublisher
  <2>1. Of(e.publisher)' \subseteq Of(e.publisher) /\ IsFiniteSet(Of(e.publisher))
    BY <1>3, FS_Subset DEF Of
  <2> QED
    BY <2>1, FS_Subset, FS_CardinalityType, HubCIAssumption DEF LedgerInv
<1> QED
  BY <1>1, <1>2, <1>4, <1>5 DEF LedgerInv

\* A reservation: the limits were looked at with the same clock.
LEMMA ReserveLedger ==
    ASSUME StateInv, TrustInv, LedgerInv, NEW r \in Requests, req[r].pc = "reserve",
           MayReserve(r), ledger' = Reserved(r), clock' = clock
    PROVE  LedgerInv'
<1> DEFINE t == req[r].token
           n == [jti |-> t.jti, publisher |-> req[r].pub.subject, exp |-> t.exp]
<1>0. clock \in Nat /\ t \in Tokens /\ t.exp \in Nat /\ t.exp <= clock + Lifetime + Skew
  BY HubCIAssumption DEF StateInv, TrustInv, Held
<1>1. ledger' = LiveEntries \union {n} /\ n.exp = t.exp /\ n.publisher = req[r].pub.subject
  BY DEF Reserved
<1> HIDE DEF n
<1>2. IsFiniteSet(LiveEntries) /\ LiveEntries \subseteq ledger
  BY FS_Subset DEF LedgerInv, LiveEntries
<1>3. ASSUME NEW S \in SUBSET LiveEntries
      PROVE  /\ IsFiniteSet(S) /\ Cardinality(S) \in Nat
             /\ IsFiniteSet(S \union {n}) /\ Cardinality(S \union {n}) \in Nat
             /\ Cardinality(S \union {n}) <= Cardinality(S) + 1
  <2>1. IsFiniteSet(S) /\ Cardinality(S) \in Nat
    BY <1>2, FS_Subset, FS_CardinalityType
  <2>2. IsFiniteSet(S \union {n}) /\ Cardinality(S \union {n}) \in {Cardinality(S), Cardinality(S) + 1}
    BY <2>1, FS_AddElement
  <2> QED
    BY <2>1, <2>2
<1>4. IsFiniteSet(ledger') /\ \A e \in ledger' : e.exp \in Nat
  BY <1>0, <1>1, <1>2, <1>3 DEF LedgerInv
<1>5. LedgerReadable'
  BY <1>0, <1>1, <1>2, HubCIAssumption DEF LedgerInv, LedgerReadable
<1>6. LiveEntries' \subseteq LiveEntries \union {n}
  BY <1>1 DEF LiveEntries
<1>7. Cardinality(LiveEntries) < Capacity
      /\ Cardinality(Of(req[r].pub.subject)) < PerPublisher
  BY DEF MayReserve, Of
<1>8. Cardinality(LiveEntries') <= Capacity
  <2>1. Cardinality(LiveEntries') \in Nat /\ Cardinality(LiveEntries') <= Cardinality(LiveEntries \union {n})
    BY <1>3, <1>6, FS_Subset, FS_CardinalityType
  <2> QED
    BY <1>3, <1>7, <2>1, HubCIAssumption
<1>9. ASSUME NEW e \in ledger' PROVE Cardinality(Of(e.publisher)') <= PerPublisher
  <2>1. CASE e.publisher = req[r].pub.subject
    <3>1. Of(e.publisher) \subseteq LiveEntries /\ Of(e.publisher)' \subseteq Of(e.publisher) \union {n}
      BY <1>6 DEF Of
    <3>2. /\ Cardinality(Of(e.publisher)') \in Nat
          /\ Cardinality(Of(e.publisher)') <= Cardinality(Of(e.publisher) \union {n})
      BY <1>3, <3>1, FS_Subset, FS_CardinalityType
    <3> QED
      BY <1>3, <1>7, <2>1, <3>1, <3>2, HubCIAssumption
  <2>2. CASE e.publisher # req[r].pub.subject
    <3>1. e \in ledger /\ Of(e.publisher)' \subseteq Of(e.publisher) /\ Of(e.publisher) \subseteq LiveEntries
      BY <1>1, <1>2, <1>6, <2>2 DEF Of
    <3>2. /\ Cardinality(Of(e.publisher)') \in Nat /\ Cardinality(Of(e.publisher)) \in Nat
          /\ Cardinality(Of(e.publisher)') <= Cardinality(Of(e.publisher))
      BY <1>3, <3>1, FS_Subset, FS_CardinalityType
    <3> QED
      BY <3>1, <3>2, HubCIAssumption DEF LedgerInv
  <2> QED
    BY <2>1, <2>2
<1> QED
  BY <1>4, <1>5, <1>8, <1>9 DEF LedgerInv

\* Every step keeps the replay ledger.
LEMMA NextLedger == ASSUME StateInv, TrustInv, LedgerInv, Next PROVE LedgerInv'
<1>0. clock \in Nat
  BY HubCIAssumption DEF StateInv
<1>1. ASSUME UNCHANGED <<ledger, clock>> PROVE LedgerInv'
  BY <1>0, <1>1, LedgerShrinks
<1>2. ASSUME NEW r \in Requests, Early(r) \/ Recheck(r) PROVE LedgerInv'
  BY <1>1, <1>2, EarlyMoves, RecheckMoves DEF files
<1>3. ASSUME NEW r \in Requests, Late(r) PROVE LedgerInv'
  <2>1. \/ UNCHANGED <<ledger, clock>>
        \/ req[r].pc = "reserve" /\ MayReserve(r) /\ ledger' = Reserved(r) /\ clock' = clock
    BY <1>3 DEF Late, Consume, ConsumeFails, CreateVerified, CreateFails, Complete, files
  <2> QED
    BY <1>1, <2>1, ReserveLedger
<1>4. CASE Tick
  BY <1>0, <1>4, LedgerShrinks DEF Tick, files
<1>5. CASE Outside /\ ~Tick
  BY <1>1, <1>5 DEF Outside, LoadConfig, Reload, Crash, Rotate, files
<1> QED
  BY <1>2, <1>3, <1>4, <1>5, Steps

-----------------------------------------------------------------------------
(* The uses of a token.                                                    *)

\* No new use, and what is still live stays in the ledger.
LEMMA UsesShrink ==
    ASSUME StateInv, UseInv, Uses' \subseteq Uses, clock' \in Nat, clock <= clock',
           \A e \in ledger : e.exp > clock => e \in ledger'
    PROVE  UseInv'
<1>0. clock \in Nat
  BY HubCIAssumption DEF StateInv
<1>1. ASSUME NEW x \in Uses', NEW t \in Tokens, Counts(x, t), clock' < t.exp
      PROVE  \E e \in ledger' : e.jti = t.jti /\ e.exp = t.exp
  <2>1. clock < t.exp /\ x \in Uses
    BY <1>0, <1>1, HubCIAssumption
  <2>2. PICK e \in ledger : e.jti = t.jti /\ e.exp = t.exp
    BY <1>1, <2>1 DEF UseInv
  <2> QED
    BY <1>0, <2>1, <2>2
<1> QED
  BY <1>1 DEF UseInv, Counts

\* A step of one handler that leaves the reports alone, and is not a reservation.
LEMMA NotStored ==
    ASSUME StateInv, NEW r \in Requests, Moves(r), UNCHANGED reports, req'[r].pc # "store"
    PROVE  Uses' \subseteq Uses
  BY DEF Uses, Report, Moves

\* Storing a report uses no token that its request had not used before.
LEMMA Stored ==
    ASSUME StateInv, NEW r \in Requests, req[r].pc = "store", Moves(r), req'[r].pc # "store",
           reports' \in {reports, reports \union {Report(r)}}
    PROVE  Uses' \subseteq Uses
  BY DEF Uses, Report, Moves

\* A reservation: while the token lives, no use of it was there before.
LEMMA ReserveUse ==
    ASSUME StateInv, TrustInv, UseInv, NEW r \in Requests, req[r].pc = "reserve", MayReserve(r),
           ledger' = Reserved(r), Moves(r), Keeps(r), req'[r].pc = "store", req'[r].at = clock,
           UNCHANGED <<reports, clock>>
    PROVE  UseInv'
<1> DEFINE u == Report(r)'
           n == [jti |-> req[r].token.jti, publisher |-> req[r].pub.subject, exp |-> req[r].token.exp]
<1>0. clock \in Nat /\ req[r].token \in Tokens /\ req[r].token.exp \in Nat
  BY HubCIAssumption DEF StateInv, TrustInv, Held
<1>1. u.id = r /\ u.jti = req[r].token.jti /\ u.reservedAt = clock
  BY DEF Report, Keeps
<1>2. Uses' \subseteq Uses \union {u}
  BY DEF Uses, Report, Moves
<1>3. ledger' = LiveEntries \union {n} /\ n.jti = req[r].token.jti /\ n.exp = req[r].token.exp
  BY DEF Reserved
<1> HIDE DEF u, n
<1>4. ASSUME NEW t \in Tokens, Counts(u, t) PROVE t = req[r].token /\ clock < t.exp
  BY <1>0, <1>1, <1>4, HubCIAssumption DEF Counts
<1>5. ASSUME NEW x \in Uses, NEW t \in Tokens, Counts(x, t), clock < t.exp
      PROVE  \E e \in LiveEntries : e.jti = t.jti /\ e.exp = t.exp
  BY <1>5 DEF UseInv, LiveEntries
<1>6. ASSUME NEW x \in Uses, NEW t \in Tokens, Counts(x, t), Counts(u, t) PROVE FALSE
  BY <1>4, <1>5, <1>6 DEF MayReserve
<1>7. \A x \in Uses', t \in Tokens : Counts(x, t) /\ clock' < t.exp =>
        \E e \in ledger' : e.jti = t.jti /\ e.exp = t.exp
  BY <1>2, <1>3, <1>4, <1>5
<1>8. \A x, y \in Uses', t \in Tokens : Counts(x, t) /\ Counts(y, t) => x = y
  BY <1>2, <1>6 DEF UseInv
<1>9. \A x \in Uses' : x.id \in Requests
  BY <1>1, <1>2 DEF UseInv
<1> QED
  BY <1>7, <1>8, <1>9 DEF UseInv, Counts

\* Every step keeps the record of uses.
LEMMA NextUse == ASSUME StateInv, TrustInv, UseInv, Next PROVE UseInv'
<1>0. clock \in Nat
  BY HubCIAssumption DEF StateInv
<1>1. ASSUME Uses' \subseteq Uses, UNCHANGED clock, \A e \in ledger : e.exp > clock => e \in ledger'
      PROVE  UseInv'
  BY <1>0, <1>1, UsesShrink
<1>2. ASSUME NEW r \in Requests, Early(r) \/ Recheck(r) PROVE UseInv'
  <2>1. Moves(r) /\ UNCHANGED <<ledger, reports, clock>> /\ req'[r].pc # "store"
    BY <1>2, EarlyMoves, RecheckMoves DEF files, Waiting
  <2> QED
    BY <1>1, <2>1, NotStored
<1>3. ASSUME NEW r \in Requests, Late(r) PROVE UseInv'
  <2>1. Moves(r) /\ UNCHANGED clock
    BY <1>3, LateMoves
  <2>2. CASE Consume(r) /\ MayReserve(r)
    BY <2>1, <2>2, ReserveUse, StepAtMoves DEF Consume, Pcs, Held
  <2>3. CASE \/ Consume(r) /\ ~MayReserve(r)
             \/ ConsumeFails(r) \/ Complete(r)
    <3>1. Reply(r) /\ UNCHANGED reports /\ ledger' \in {ledger, Reserved(r)}
      BY <2>3 DEF Consume, ConsumeFails, Complete, files
    <3>2. \A e \in ledger : e.exp > clock => e \in ledger'
      BY <3>1 DEF Reserved, LiveEntries
    <3> QED
      BY <1>1, <2>1, <3>1, <3>2, NotStored, ReplyMoves
  <2>4. CASE CreateVerified(r) \/ CreateFails(r)
    <3>1. /\ req[r].pc = "store" /\ UNCHANGED ledger
          /\ reports' \in {reports, reports \union {Report(r)}}
          /\ Reply(r) \/ Step(r, "complete")
      BY <2>4 DEF CreateVerified, CreateFails
    <3>2. req'[r].pc # "store"
      BY <3>1, ReplyMoves, StepMoves DEF Pcs, Held
    <3> QED
      BY <1>1, <2>1, <3>1, <3>2, Stored
  <2> QED
    BY <1>3, <2>2, <2>3, <2>4 DEF Late
<1>4. CASE Outside
  <2>1. CASE Crash
    <3>1. Uses' \subseteq Uses
      BY <2>1, CrashMoves DEF Crash, Uses, files
    <3> QED
      BY <1>1, <2>1, <3>1 DEF Crash, files
  <2>2. CASE Outside /\ ~Crash
    <3>1. UNCHANGED <<req, reports, ledger>> /\ clock' \in {clock, clock + 1}
      BY <2>2 DEF Outside, LoadConfig, Reload, Tick, Rotate, files
    <3>2. Uses' = Uses
      BY <3>1 DEF Uses, Report
    <3> QED
      BY <1>0, <3>1, <3>2, UsesShrink
  <2> QED
    BY <1>4, <2>1, <2>2
<1> QED
  BY <1>2, <1>3, <1>4, Steps

-----------------------------------------------------------------------------
(* The theorems.                                                           *)

\* A stutter keeps everything.
LEMMA StutterInv == CIInv /\ UNCHANGED vars => CIInv'
<1> SUFFICES ASSUME CIInv, UNCHANGED vars PROVE CIInv'
  OBVIOUS
<1>1. UNCHANGED <<config, main, loaded, published, gone, cache, req, ledger, reports, log, fault, clock>>
  BY DEF vars, access, service, files, audit
<1>2. StateInv' /\ TrustInv' /\ CacheInv'
  BY <1>1 DEF CIInv, StateInv, TrustInv, CacheInv, ciQuarantined
<1>3. UseInv'
  BY <1>1 DEF CIInv, UseInv, Uses, Report
<1>4. LedgerInv'
  BY <1>1 DEF CIInv, LedgerInv, LedgerReadable, LiveEntries, Of
<1> QED
  BY <1>2, <1>3, <1>4 DEF CIInv

\* The invariant of CI publishing (oidc.go: verify, signingKey, handleCI and
\* consume): trust under the read lock, the age of cached keys, one use of a
\* token, and the limits of the ledger.
THEOREM CIInvariant == Spec => []CIInv
<1>1. CIInv /\ [Next]_vars => CIInv'
  BY NextState, NextTrust, NextCache, NextUse, NextLedger, StutterInv DEF CIInv
<1> QED
  BY <1>1, InitInv, PTL DEF Spec

\* The handlers and the configuration keep their types for every instance.
THEOREM CITypes == Spec => []TypeOK
<1>1. CIInv => TypeOK
  <2> SUFFICES ASSUME CIInv PROVE TypeOK
    OBVIOUS
  <2>1. \A r \in Requests : req[r].pc \in Pcs
    BY DEF CIInv, StateInv, Handlers
  <2>2. \A x \in reports : x.id \in Requests
    BY DEF CIInv, UseInv, Uses
  <2>3. cache.keys \subseteq Kids /\ cache.fetched <= cache.lastAttempt
    BY DEF CIInv, CacheInv
  <2> QED
    BY <2>1, <2>2, <2>3 DEF CIInv, StateInv, CacheInv, TypeOK, Pcs, Waiting
<1> QED
  BY <1>1, CIInvariant, PTL

\* A token is worth one report (consume, oidc.go), for any tokens and lifetimes,
\* through failed writes and restarts.
THEOREM TokensAreUsedOnce == Spec => []TokenUsedOnce
<1>1. CIInv => TokenUsedOnce
  <2> SUFFICES ASSUME CIInv, NEW t \in Tokens
               PROVE  Cardinality({x \in reports : x.jti = t.jti /\ x.reservedAt < t.exp}) <= 1
    BY DEF TokenUsedOnce
  <2> DEFINE S == {x \in reports : x.jti = t.jti /\ x.reservedAt < t.exp}
  <2>1. \A x, y \in S : x = y
    BY DEF CIInv, UseInv, Uses, Counts
  <2>2. CASE S = {}
    BY <2>2, FS_EmptySet
  <2>3. CASE S # {}
    <3>1. PICK x : S = {x}
      BY <2>1, <2>3
    <3> QED
      BY <3>1, FS_Singleton
  <2> QED
    BY <2>2, <2>3
<1> QED
  BY <1>1, CIInvariant, PTL

\* The replay ledger keeps its limits and stays readable for any capacity,
\* lifetime and clock skew: what verify accepts, consume can record.
THEOREM LedgerIsSound == Spec => []LedgerSound
<1>1. CIInv => LedgerSound
  BY DEF CIInv, LedgerInv, LedgerSound, Of
<1> QED
  BY <1>1, CIInvariant, PTL

\* A report is stored under the trust of that moment (the recheck in handleCI).
THEOREM TrustHolds == Spec => StoredWhileTrusted
<1> DEFINE Trusted == \A x \in reports' \ reports :
             /\ x.id \in log
             /\ ~ciQuarantined(config)
             /\ \E p \in matchingPublishers(config, req[x.id].token.binding) : p.ws = x.ws
<1>1. CIInv /\ [Next]_vars => Trusted
  <2> SUFFICES ASSUME CIInv, [Next]_vars, NEW x \in reports' \ reports PROVE Trusted
    OBVIOUS
  <2>1. CASE UNCHANGED vars
    BY <2>1 DEF vars, files
  <2>2. CASE Next
    <3>1. PICK r \in Requests : Late(r)
      BY <2>2, EarlyMoves, RecheckMoves, Steps
         DEF CIInv, Outside, LoadConfig, Reload, Crash, Tick, Rotate, files
    <3>2. req[r].pc = "store" /\ reports' \in {reports, reports \union {Report(r)}}
      BY <3>1 DEF Late, Consume, ConsumeFails, CreateVerified, CreateFails, Complete, files
    <3>3. /\ r \in log /\ ~ciQuarantined(config)
          /\ req[r].pub \in matchingPublishers(config, req[r].token.binding)
      BY <3>2 DEF CIInv, TrustInv, Held
    <3> QED
      BY <3>2, <3>3 DEF Report
  <2> QED
    BY <2>1, <2>2
<1> QED
  BY <1>1, CIInvariant, PTL DEF Spec, StoredWhileTrusted

\* A withdrawn key is trusted for less than the lifetime of the cache
\* (signingKey), whoever fetches and whenever the answer comes.
THEOREM WithdrawnKeysExpire == Spec => WithdrawnKeyExpires
<1> DEFINE Fresh == \A r \in Requests :
             req[r].pc \in {"sign", "fetch"} /\ req'[r].pc = "match" =>
               \/ req[r].token.kid \in published
               \/ clock - gone[req[r].token.kid] < KeyTTL
<1>1. CIInv /\ [Next]_vars => Fresh
  <2> SUFFICES ASSUME CIInv, [Next]_vars, NEW r \in Requests,
                      req[r].pc \in {"sign", "fetch"}, req'[r].pc = "match"
               PROVE  req[r].token.kid \in published \/ clock - gone[req[r].token.kid] < KeyTTL
    OBVIOUS
  <2>1. CASE UNCHANGED vars
    BY <2>1 DEF vars
  <2>2. CASE Next
    <3>1. req' # req /\ ~Crash
      BY CrashMoves DEF CIInv
    <3>2. PICK s \in Requests : Early(s) \/ Recheck(s) \/ Late(s)
      BY <2>2, <3>1, Steps DEF Outside, LoadConfig, Reload, Tick, Rotate
    <3>3. s = r
      BY <3>2, EarlyMoves, RecheckMoves, LateMoves DEF CIInv, Moves
    <3>4. CASE SigningKey(r)
      <4>1. Cached(req[r].token.kid) \/ req'[r].pc # "match"
        BY <3>4, ReplyMoves, StepAtMoves DEF SigningKey, CIInv, Pcs, Waiting
      <4>2. req[r].token.kid \in cache.keys /\ clock - cache.fetched < KeyTTL
        BY <4>1 DEF Cached
      <4>3. /\ clock \in Nat /\ cache.fetched \in Nat
            /\ req[r].token.kid \in Kids /\ gone[req[r].token.kid] \in Nat
        BY <4>2, HubCIAssumption DEF CIInv, StateInv, CacheInv
      <4> QED
        BY <4>2, <4>3, HubCIAssumption DEF CIInv, CacheInv
    <3>5. CASE FetchKeys(r)
      BY <3>5, ReplyMoves DEF FetchKeys, CIInv
    <3>6. CASE ~SigningKey(r) /\ ~FetchKeys(r)
      <4>1. FetchFails(r)
        BY <3>2, <3>3, <3>6, LateMoves, RecheckMoves
           DEF CIInv, Early, Held, Enter, VerifyClaims, Match, Refused, ReadBody, Recheck
      <4> QED
        BY <4>1, ReplyMoves DEF FetchFails, CIInv
    <3> QED
      BY <3>4, <3>5, <3>6
  <2> QED
    BY <2>1, <2>2
<1> QED
  BY <1>1, CIInvariant, PTL DEF Spec, WithdrawnKeyExpires
=============================================================================
