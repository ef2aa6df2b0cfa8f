---------------------------- MODULE HubServerProof ---------------------------
(***************************************************************************)
(* The hub's guarantees for any number of requests, callers, workspaces,   *)
(* configurations, reloads and restarts: what is revoked does not commit,  *)
(* nothing happens to a report that the audit log does not announce, the   *)
(* limits of a workspace, of the requests in progress and of a caller are  *)
(* kept, and a new credential changes nothing for the callers there are.   *)
(*                                                                         *)
(* The first invariant is about each request by itself.  A request inside  *)
(* the store holds the read lock, so the configuration it was authorized   *)
(* under is the active one, and its intent is in the log, which only grows.*)
(***************************************************************************)
EXTENDS HubServer, FiniteSetTheorems, TLAPS

ReqFields == {"pc", "token", "kind", "id", "ws", "slot", "mayWrite", "charged", "told"}
Ended == {"idle", "done", "lost"}

\* What holds of the record q of request r, under configuration c and log l.
ReqInv(q, r, c, l) ==
    /\ DOMAIN q = ReqFields
    /\ q.pc \in InProgress => q.kind \in Routes
    /\ q.kind \in Routes \union {"bad"}
    /\ q.pc = "operate" /\ q.kind # "session" => Grants(c, q.token, ScopeOf(q.kind), q.ws)
    /\ q.pc \in Held => Entry(r, "intent") \in l
    /\ q.pc = "done" /\ q.told => {Entry(r, "intent"), Entry(r, "completed")} \subseteq l

ServerInv ==
    /\ DOMAIN req = Requests
    /\ \A r \in Requests : ReqInv(req[r], r, config, log)
    /\ status = "down" => \A r \in Requests : req[r].pc \in Ended

-----------------------------------------------------------------------------
(* A step of one request.                                                  *)

\* The configuration stays and the log grows: a request that did not move keeps
\* what holds of it.
LEMMA OneRequestMoves ==
    ASSUME ServerInv, NEW r \in Requests, NEW q,
           req' = [req EXCEPT ![r] = q], ReqInv(q, r, config, log'),
           config' = config, log \subseteq log', status' = status,
           status = "down" => q.pc \in Ended
    PROVE  ServerInv'
<1>1. DOMAIN req' = Requests /\ req'[r] = q /\ \A s \in Requests \ {r} : req'[s] = req[s]
  BY DEF ServerInv
<1>2. \A s \in Requests : ReqInv(req[s], s, config, log')
  BY DEF ServerInv, ReqInv
<1>3. \A s \in Requests : ReqInv(req'[s], s, config', log')
  BY <1>1, <1>2
<1> QED
  BY <1>1, <1>3 DEF ServerInv

\* The log only grows.
LEMMA AppendGrows ==
    ASSUME NEW e, NEW ok \in BOOLEAN, AuditAppend(e, ok)
    PROVE  log \subseteq log' /\ (ok => e \in log')
  BY DEF AuditAppend

\* A request that is answered without success.
LEMMA AnswerFails ==
    ASSUME ServerInv, NEW r \in Requests, NEW q, DOMAIN q = ReqFields,
           q.pc = "done", q.told = FALSE, q.kind = "bad",
           req' = [req EXCEPT ![r] = q], config' = config, log \subseteq log', status' = status
    PROVE  ServerInv'
<1>1. ReqInv(q, r, config, log')
  BY DEF ReqInv, InProgress, Held
<1> QED
  BY <1>1, OneRequestMoves DEF Ended

\* An error reply keeps every request in order.
LEMMA ReplyFails ==
    ASSUME ServerInv, NEW r \in Requests, NEW code, code \notin Success, Reply(r, code),
           config' = config, log \subseteq log', status' = status
    PROVE  ServerInv'
<1>1. (code \in Success) = FALSE
  OBVIOUS
<1>2. req' = [req EXCEPT ![r] = [Idle EXCEPT !.pc = "done", !.told = FALSE,
                                 !.token = req[r].token, !.charged = req[r].charged]]
  BY <1>1, Zenon DEF Reply
<1> QED
  BY <1>2, AnswerFails DEF Idle, ReqFields

\* A refused credential ends its request.
LEMMA AuthFailureInv ==
    ASSUME ServerInv, NEW r \in Requests, authFailure(r), config' = config, status' = status
    PROVE  ServerInv'
<1>1. Reply(r, 401) \/ Reply(r, 503)
  BY DEF authFailure
<1>2. log' = log
  BY DEF authFailure, AuditNote, audit
<1> QED
  BY <1>1, <1>2, ReplyFails DEF Success

-----------------------------------------------------------------------------
(* The handler, one step after the other.                                  *)

\* Authentication keeps the record of the request in order.
LEMMA AuthenticateInv ==
    ASSUME ServerInv, NEW r \in Requests, NEW token, NEW kind \in Kinds, NEW id,
           Authenticate(r, token, kind, id)
    PROVE  ServerInv'
<1> DEFINE key == authenticate(config, token)
           q == [Idle EXCEPT !.pc = "admit", !.token = token, !.kind = kind, !.id = id,
                             !.slot = <<key.ws, gens[key.ws]>>, !.mayWrite = Write \in keyScopes(key)]
<1>1. config' = config /\ status' = status /\ status = "serving"
  BY DEF Authenticate, access, process
<1>2. CASE principalForKey(config, key, clock)
  <2>1. req' = [req EXCEPT ![r] = q] /\ log' = log
    BY <1>2 DEF Authenticate, audit
  <2>2. DOMAIN q = ReqFields /\ q.pc = "admit" /\ q.kind = kind
    BY DEF Idle, ReqFields
  <2> HIDE DEF q
  <2>3. ReqInv(q, r, config, log')
    BY <2>2, HubServerAssumption DEF ReqInv, InProgress, Held
  <2> QED
    BY <1>1, <2>1, <2>3, OneRequestMoves
<1>3. CASE ~principalForKey(config, key, clock)
  BY <1>1, <1>3, AuthFailureInv DEF Authenticate
<1> QED
  BY <1>2, <1>3

\* A request that moves on with what it has, and is not in the store.
LEMMA MovesOn ==
    ASSUME ServerInv, NEW r \in Requests, NEW q, req' = [req EXCEPT ![r] = q],
           DOMAIN q = ReqFields, q.pc \in {"global", "body", "authorize"},
           q.kind \in Routes \union {"bad"}, q.pc # "global" => q.kind \in Routes,
           config' = config, log' = log, status' = status, status # "down"
    PROVE  ServerInv'
<1>1. ReqInv(q, r, config, log')
  BY DEF ReqInv, InProgress, Held
<1> QED
  BY <1>1, OneRequestMoves

\* So does admission.
LEMMA AdmitInv ==
    ASSUME ServerInv, NEW r \in Requests, Admit(r) \/ AdmitGlobally(r) \/ ReadSubmission(r)
    PROVE  ServerInv'
<1>1. config' = config /\ status' = status /\ log' = log /\ status # "down"
  BY DEF Admit, AdmitGlobally, ReadSubmission, access, process, audit, ServerInv, Ended
<1>2. DOMAIN req = Requests /\ DOMAIN req[r] = ReqFields /\ req[r].kind \in Routes \union {"bad"}
      /\ (req[r].pc = "body" => req[r].kind \in Routes)
  BY DEF ServerInv, ReqInv, InProgress
<1>3. CASE Admit(r)
  <2>1. CASE req' = [req EXCEPT ![r].pc = "global", ![r].charged = TRUE]
    <3> DEFINE q == [req[r] EXCEPT !.pc = "global", !.charged = TRUE]
    <3>1. req' = [req EXCEPT ![r] = q]
      BY <1>2, <2>1
    <3>2. DOMAIN q = ReqFields /\ q.pc = "global" /\ q.kind = req[r].kind
      BY <1>2 DEF ReqFields
    <3> HIDE DEF q
    <3> QED
      BY <1>1, <1>2, <3>1, <3>2, MovesOn
  <2>2. ASSUME NEW c,
               req' = [req EXCEPT ![r] = [Idle EXCEPT !.pc = "done", !.token = req[r].token,
                                                      !.charged = c]]
        PROVE  ServerInv'
    BY <1>1, <2>2, AnswerFails DEF Idle, ReqFields
  <2> QED
    BY <1>3, <2>1, <2>2 DEF Admit
<1>4. ASSUME NEW p \in {"body", "authorize"}, req[r].kind \in Routes,
             req' = [req EXCEPT ![r].pc = p]
      PROVE  ServerInv'
  <2> DEFINE q == [req[r] EXCEPT !.pc = p]
  <2>1. req' = [req EXCEPT ![r] = q]
    BY <1>2, <1>4
  <2>2. DOMAIN q = ReqFields /\ q.pc = p /\ q.kind = req[r].kind
    BY <1>2 DEF ReqFields
  <2> HIDE DEF q
  <2> QED
    BY <1>1, <1>2, <1>4, <2>1, <2>2, MovesOn
<1>5. CASE AdmitGlobally(r)
  <2>1. CASE Reply(r, 503) \/ Reply(r, 400)
    BY <1>1, <2>1, ReplyFails DEF Success
  <2>2. CASE ~(Reply(r, 503) \/ Reply(r, 400))
    <3>1. req[r].kind \in Routes
      BY <1>2, <1>5, <2>2 DEF AdmitGlobally
    <3> QED
      BY <1>4, <1>5, <2>2, <3>1 DEF AdmitGlobally
  <2> QED
    BY <2>1, <2>2
<1>6. CASE ReadSubmission(r)
  <2>1. CASE Reply(r, 400)
    BY <1>1, <2>1, ReplyFails DEF Success
  <2> QED
    BY <1>2, <1>4, <1>6, <2>1 DEF ReadSubmission
<1> QED
  BY <1>3, <1>5, <1>6

\* Every route but the session's asks for a scope.
LEMMA ScopeAsked ==
    ASSUME NEW kind \in Routes, kind # "session"
    PROVE  ScopeOf(kind) # "none"
  BY DEF Routes, ScopeOf, Read, Write, Delete

\* authorized: the store is entered only with the scope granted by the active
\* configuration and with the intent in the log.
LEMMA AuthorizeInv ==
    ASSUME ServerInv, NEW r \in Requests, Authorize(r)
    PROVE  ServerInv'
<1> DEFINE key == authenticate(config, req[r].token)
           scope == ScopeOf(req[r].kind)
<1>1. config' = config /\ status' = status /\ status # "down"
  BY DEF Authorize, access, process, ServerInv, Ended
<1>2. DOMAIN req = Requests /\ DOMAIN req[r] = ReqFields /\ req[r].kind \in Routes
  BY DEF ServerInv, ReqInv, InProgress, Authorize
<1>3. CASE ~principalForKey(config, key, clock)
  BY <1>1, <1>3, AuthFailureInv DEF Authorize
<1>4. CASE principalForKey(config, key, clock)
  <2>1. CASE scope \notin keyScopes(key) \union {"none"}
    <3>1. PICK ok \in BOOLEAN : AuditAppend(Entry(r, "denied"), ok) /\ Reply(r, IF ok THEN 403 ELSE 503)
      BY <1>4, <2>1 DEF Authorize
    <3>2. log \subseteq log'
      BY <3>1, AppendGrows
    <3>3. Reply(r, 403) \/ Reply(r, 503)
      BY <3>1
    <3> QED
      BY <1>1, <3>2, <3>3, ReplyFails DEF Success
  <2>2. CASE scope \in keyScopes(key) \union {"none"}
    <3>1. CASE Reply(r, 403) /\ UNCHANGED audit
      BY <1>1, <3>1, ReplyFails DEF Success, audit
    <3>2. ASSUME NEW ok \in BOOLEAN, AuditAppend(Entry(r, "intent"), ok),
                 IF ok THEN req' = [req EXCEPT ![r].pc = "operate", ![r].ws = key.ws]
                 ELSE Reply(r, 503)
          PROVE  ServerInv'
      <4>1. log \subseteq log' /\ (ok => Entry(r, "intent") \in log')
        BY <3>2, AppendGrows
      <4>2. CASE ~ok
        BY <1>1, <3>2, <4>1, <4>2, ReplyFails DEF Success
      <4>3. CASE ok
        <5> DEFINE q == [req[r] EXCEPT !.pc = "operate", !.ws = key.ws]
        <5>1. req' = [req EXCEPT ![r] = q]
          BY <1>2, <3>2, <4>3
        <5>2. DOMAIN q = ReqFields /\ q.pc = "operate" /\ q.ws = key.ws
              /\ q.kind = req[r].kind /\ q.token = req[r].token
          BY <1>2 DEF ReqFields
        <5>3. req[r].kind # "session" => Grants(config, req[r].token, scope, key.ws)
          BY <1>2, <1>4, <2>2, ScopeAsked DEF Grants, principalForKey
        <5> HIDE DEF q
        <5>4. ReqInv(q, r, config, log')
          BY <1>2, <4>1, <4>3, <5>2, <5>3 DEF ReqInv, Held, InProgress
        <5> QED
          BY <1>1, <4>1, <5>1, <5>4, OneRequestMoves
      <4> QED
        BY <4>2, <4>3
    <3> QED
      BY <1>4, <2>2, <3>1, <3>2 DEF Authorize
  <2> QED
    BY <2>1, <2>2
<1> QED
  BY <1>3, <1>4

\* The operation leaves the lock held and the intent where it is.
LEMMA OperateInv ==
    ASSUME ServerInv, NEW r \in Requests, Operate(r) \/ OperateFails(r)
    PROVE  ServerInv'
<1>1. config' = config /\ status' = status /\ log' = log /\ status # "down" /\ req[r].pc = "operate"
  BY DEF Operate, OperateFails, access, process, audit, ServerInv, Ended
<1>2. PICK code : Operated(r, code)
  BY DEF Operate, OperateFails
<1>3. DOMAIN req = Requests /\ ReqInv(req[r], r, config, log)
  BY DEF ServerInv
<1> DEFINE q == [req[r] EXCEPT !.pc = "complete", !.told = code \in Success]
<1>4. req' = [req EXCEPT ![r] = q]
  BY <1>2, <1>3 DEF Operated
<1>5. DOMAIN q = ReqFields /\ q.pc = "complete" /\ q.kind = req[r].kind
  BY <1>3 DEF ReqFields, ReqInv
<1> HIDE DEF q
<1>6. ReqInv(q, r, config, log')
  BY <1>1, <1>3, <1>5 DEF ReqInv, Held, InProgress
<1> QED
  BY <1>1, <1>4, <1>6, OneRequestMoves

\* The caller is told of success only when the completion is recorded.
LEMMA CompleteInv ==
    ASSUME ServerInv, NEW r \in Requests, Complete(r)
    PROVE  ServerInv'
<1>1. config' = config /\ status' = status /\ status # "down"
  BY DEF Complete, access, process, ServerInv, Ended
<1>2. Entry(r, "intent") \in log
  BY DEF ServerInv, ReqInv, Complete, Held
<1>3. PICK ok \in BOOLEAN : /\ AuditAppend(Entry(r, "completed"), ok)
                           /\ Reply(r, IF ok /\ req[r].told THEN 200 ELSE 503)
  BY DEF Complete
<1>4. log \subseteq log' /\ (ok => Entry(r, "completed") \in log')
  BY <1>3, AppendGrows
<1>5. CASE ~(ok /\ req[r].told)
  BY <1>1, <1>3, <1>4, <1>5, ReplyFails DEF Success
<1>6. CASE ok /\ req[r].told
  <2> DEFINE q == [Idle EXCEPT !.pc = "done", !.told = 200 \in Success,
                               !.token = req[r].token, !.charged = req[r].charged]
  <2>1. req' = [req EXCEPT ![r] = q]
    BY <1>3, <1>6 DEF Reply
  <2>2. DOMAIN q = ReqFields /\ q.pc = "done" /\ q.kind = "bad"
    BY DEF Idle, ReqFields
  <2> HIDE DEF q
  <2>3. ReqInv(q, r, config, log')
    BY <1>2, <1>4, <1>6, <2>2 DEF ReqInv, Held, InProgress
  <2> QED
    BY <1>1, <1>4, <2>1, <2>2, <2>3, OneRequestMoves
<1> QED
  BY <1>5, <1>6

-----------------------------------------------------------------------------
(* The server, the operator and the clock.                                 *)

\* Nothing happens to a request.
LEMMA NothingMoves ==
    ASSUME ServerInv, req' = req, config' = config, log' = log,
           status' = "down" => status = "down"
    PROVE  ServerInv'
  BY DEF ServerInv

\* And the work in the store.
LEMMA ProcessInv ==
    ASSUME ServerInv,
           \/ LoadConfig \/ Reload \/ Sweep \/ Shutdown \/ ShutdownTimeout \/ Exit \/ Start
           \/ (\E c \in Configs : EditConfig(c))
           \/ (\E d \in Credentials : ProvisionCredential(d))
           \/ Tick
    PROVE  ServerInv'
<1>1. CASE \/ LoadConfig \/ Sweep \/ Shutdown \/ ShutdownTimeout
           \/ (\E c \in Configs : EditConfig(c))
           \/ (\E d \in Credentials : ProvisionCredential(d))
           \/ Tick
  <2>1. req' = req /\ config' = config /\ log' = log
    BY <1>1 DEF LoadConfig, Sweep, Shutdown, ShutdownTimeout, EditConfig, ProvisionCredential, Tick,
                access, audit, AuditNote
  <2>2. status' \in {status, "stopping", "closed"}
    BY <1>1 DEF LoadConfig, Sweep, Shutdown, ShutdownTimeout, EditConfig, ProvisionCredential, Tick,
                process
  <2> QED
    BY <2>1, <2>2, NothingMoves
<1>2. CASE Reload
  <2>1. req' = req /\ log' = log /\ status' = status /\ \A r \in Requests : req[r].pc \notin Held
    BY <1>2 DEF Reload, AuditNote
  <2>2. \A r \in Requests : ReqInv(req[r], r, config', log)
    BY <2>1 DEF ServerInv, ReqInv, Held
  <2> QED
    BY <2>1, <2>2 DEF ServerInv
<1>3. CASE Start
  <2>1. req' = req /\ log' = log /\ \A r \in Requests : req[r].pc \in Ended
    BY <1>3 DEF Start, audit, ServerInv
  <2>2. \A r \in Requests : ReqInv(req[r], r, config', log)
    BY <2>1 DEF ServerInv, ReqInv, Ended
  <2> QED
    BY <2>1, <2>2 DEF ServerInv
<1>4. CASE Exit
  <2> DEFINE gone(r) == [Idle EXCEPT !.pc = IF req[r].pc = "done" THEN "done" ELSE "lost"]
  <2>1. /\ req' = [r \in Requests |-> IF req[r].pc = "idle" THEN Idle ELSE gone(r)]
        /\ log' = log /\ config' = config
    BY <1>4 DEF Exit, access
  <2>2. ASSUME NEW r \in Requests
        PROVE  ReqInv(req'[r], r, config', log') /\ req'[r].pc \in Ended
    <3>1. DOMAIN Idle = ReqFields /\ Idle.pc = "idle" /\ Idle.kind = "bad"
      BY DEF Idle, ReqFields
    <3>2. DOMAIN gone(r) = ReqFields /\ gone(r).pc \in {"done", "lost"} /\ gone(r).kind = "bad"
          /\ gone(r).told = FALSE
      BY DEF Idle, ReqFields
    <3>3. req'[r] = Idle \/ req'[r] = gone(r)
      BY <2>1
    <3> QED
      BY <3>1, <3>2, <3>3 DEF ReqInv, InProgress, Held, Ended
  <2> QED
    BY <2>1, <2>2 DEF ServerInv
<1> QED
  BY <1>1, <1>2, <1>3, <1>4

-----------------------------------------------------------------------------

\* No request is under way at first.
LEMMA InitServerInv == Init => ServerInv
<1> SUFFICES ASSUME Init PROVE ServerInv
  OBVIOUS
<1>1. req = [r \in Requests |-> Idle] /\ status = "serving"
  BY DEF Init
<1>2. DOMAIN Idle = ReqFields /\ Idle.pc = "idle" /\ Idle.kind = "bad"
  BY DEF Idle, ReqFields
<1> QED
  BY <1>1, <1>2 DEF ServerInv, ReqInv, InProgress, Held

\* Every step keeps every request in order.
LEMMA NextServerInv == ServerInv /\ [Next]_vars => ServerInv'
<1> SUFFICES ASSUME ServerInv, [Next]_vars PROVE ServerInv'
  OBVIOUS
<1>1. ASSUME NEW r \in Requests, Handle(r) PROVE ServerInv'
  BY <1>1, AdmitInv, AuthorizeInv, OperateInv, CompleteInv DEF Handle
<1>2. CASE UNCHANGED vars
  <2>1. UNCHANGED <<req, config, log, status>>
    BY <1>2 DEF vars, access, process, audit
  <2> QED
    BY <2>1, NothingMoves
<1> QED
  BY <1>1, <1>2, AuthenticateInv, ProcessInv DEF Next

\* The invariant of every request, through reloads, failures and restarts.
THEOREM ServerInvariant == Spec => []ServerInv
  BY InitServerInv, NextServerInv, PTL DEF Spec

-----------------------------------------------------------------------------
(* What is revoked does not commit.                                        *)

\* A request leaves the store under the configuration that let it in.
LEMMA StepRevoked ==
    ASSUME ServerInv, NEW r \in Requests, req[r].pc = "operate", req[r].kind # "session"
    PROVE  Grants(config, req[r].token, ScopeOf(req[r].kind), req[r].ws)
  BY DEF ServerInv, ReqInv

\* A body whose credential was revoked while it was read does not commit,
\* whatever is reloaded when, for every instance.
THEOREM RevocationHolds == Spec => RevokedNeverCommits
<1>1. ServerInv /\ [Next]_vars =>
        [\A r \in Requests :
           /\ req[r].pc = "operate" /\ req'[r].pc = "complete"
           /\ req[r].kind # "session"
           => Grants(config, req[r].token, ScopeOf(req[r].kind), req[r].ws)]_vars
  BY StepRevoked
<1> QED
  BY <1>1, ServerInvariant, PTL DEF Spec, RevokedNeverCommits

-----------------------------------------------------------------------------
(* Every effect is announced.                                              *)

\* The reports change in three places: in the operation of a request that
\* announced itself, in a sweep and at a start.
LEMMA ReportsChange ==
    ASSUME ServerInv, Next
    PROVE  \/ reports' = reports
           \/ Sweep \/ Start
           \/ \E r \in Requests : Operate(r) \/ OperateFails(r)
<1>1. ASSUME NEW r \in Requests, NEW token \in Tokens, NEW kind \in Kinds, NEW id,
             Authenticate(r, token, kind, id)
      PROVE  reports' = reports
  BY <1>1 DEF Authenticate
<1>2. ASSUME NEW r \in Requests, Handle(r), ~(Operate(r) \/ OperateFails(r))
      PROVE  reports' = reports
  BY <1>2 DEF Handle, Admit, AdmitGlobally, ReadSubmission, Authorize, Complete
<1>3. CASE LoadConfig \/ Reload \/ Shutdown \/ ShutdownTimeout \/ Exit \/ Tick
           \/ (\E c \in Configs : EditConfig(c))
           \/ (\E d \in Credentials : ProvisionCredential(d))
  BY <1>3 DEF LoadConfig, Reload, Shutdown, ShutdownTimeout, Exit, Tick, EditConfig,
              ProvisionCredential
<1> QED
  BY <1>1, <1>2, <1>3 DEF Next

\* What an operation takes away of the live reports is what it names, and what
\* it adds is its own.
LEMMA OutcomeOf ==
    ASSUME NEW r \in Requests, req[r].kind \in Routes, req[r].kind # "session"
    PROVE  /\ \A x \in Outcome(r).left \ Live(req[r].ws) : x.id = r
           /\ \A x \in Live(req[r].ws) \ Outcome(r).left : x.id = req[r].id
  BY DEF Outcome, Found, Routes

\* A step changes a report only under a recorded intent.
LEMMA StepRecorded ==
    ASSUME ServerInv, Next, ServerInv'
    PROVE  /\ \A x \in reports' \ reports : Entry(x.id, "intent") \in log
           /\ \A x \in reports \ reports' :
                \/ Expired(x) \/ status = "down"
                \/ \E r \in Requests : /\ req[r].pc = "operate" /\ req[r].id = x.id
                                       /\ Entry(r, "intent") \in log
           /\ \A r \in Requests : req'[r].told /\ req'[r].pc = "done"
                => {Entry(r, "intent"), Entry(r, "completed")} \subseteq log'
<1> DEFINE Announced ==
             /\ \A x \in reports' \ reports : Entry(x.id, "intent") \in log
             /\ \A x \in reports \ reports' :
                  \/ Expired(x) \/ status = "down"
                  \/ \E r \in Requests : /\ req[r].pc = "operate" /\ req[r].id = x.id
                                         /\ Entry(r, "intent") \in log
<1>1. ASSUME NEW r \in Requests, Operate(r) \/ OperateFails(r) PROVE Announced
  <2> DEFINE ws == req[r].ws
  <2>1. req[r].pc = "operate" /\ Entry(r, "intent") \in log /\ req[r].kind \in Routes
    BY <1>1 DEF Operate, OperateFails, ServerInv, ReqInv, Held, InProgress
  <2>2. CASE reports' = reports
    BY <2>2
  <2>3. CASE req[r].kind # "session" /\ reports' = (reports \ In(ws)) \union Outcome(r).left
    <3>1. \A x \in reports' \ reports : x.id = r
      BY <2>1, <2>3, OutcomeOf DEF Live, In
    <3>2. \A x \in reports \ reports' : Expired(x) \/ x.id = req[r].id
      BY <2>1, <2>3, OutcomeOf DEF Live, In
    <3> QED
      BY <2>1, <3>1, <3>2
  <2>4. ASSUME NEW S \in SUBSET (In(ws) \ Live(ws)), reports' = reports \ S
        PROVE  Announced
    BY <2>4 DEF Live, In
  <2> QED
    BY <1>1, <2>2, <2>3, <2>4 DEF Operate, OperateFails
<1>2. Sweep => Announced
  BY DEF Sweep
<1>3. Start => Announced
  BY DEF Start
<1>4. reports' = reports => Announced
  OBVIOUS
<1>5. Announced
  BY <1>1, <1>2, <1>3, <1>4, ReportsChange
<1>6. \A r \in Requests : req'[r].told /\ req'[r].pc = "done"
        => {Entry(r, "intent"), Entry(r, "completed")} \subseteq log'
  BY DEF ServerInv, ReqInv, Entry
<1> QED
  BY <1>5, <1>6

\* Nothing happens to a report that no committed entry announces, and success is
\* reported only with its completion recorded, for every instance.
THEOREM EffectsAreRecorded == Spec => EffectsRecorded
<1> DEFINE Good == /\ \A x \in reports' \ reports : Entry(x.id, "intent") \in log
                   /\ \A x \in reports \ reports' :
                        \/ Expired(x) \/ status = "down"
                        \/ \E r \in Requests : /\ req[r].pc = "operate" /\ req[r].id = x.id
                                               /\ Entry(r, "intent") \in log
                   /\ \A r \in Requests : req'[r].told /\ req'[r].pc = "done"
                        => {Entry(r, "intent"), Entry(r, "completed")} \subseteq log'
<1>1. ServerInv /\ [Next]_vars => [Good]_vars
  BY NextServerInv, StepRecorded
<1> QED
  BY <1>1, ServerInvariant, PTL DEF Spec, EffectsRecorded

-----------------------------------------------------------------------------
(* Limits.  A slot is counted on the channel the request looked up, so     *)
(* that a channel never has more than its capacity; a workspace has one    *)
(* channel for as long as it stays configured.  A caller's admissions so   *)
(* far and what its bucket holds are at most what the burst and the time   *)
(* allow.                                                                  *)

\* A configuration file has its fields.
Shaped(c) == DOMAIN c = ConfigFields /\ c.quota \in Int

FileInv == Shaped(file) /\ Shaped(config) /\ Shaped(loaded) /\ IsFiniteSet(reports)

TokensOf(c) == {k.token : k \in c.keys}
OnChannel == {"admit", "global"} \union InProgress

\* Requests on their channels, and the channels of the workspaces.
SlotInv ==
    /\ IsFiniteSet(Busy) /\ Cardinality(Busy) <= GlobalSlots
    /\ \A s : IsFiniteSet(OnSlot(s)) /\ Cardinality(OnSlot(s)) <= SlotLimit
    /\ \A r \in Requests : req[r].pc \in OnChannel /\ req[r].slot[1] \in Workspaces \ removed =>
         /\ req[r].slot[1] \in ConfiguredWorkspaces(config)
         /\ req[r].slot = <<req[r].slot[1], gens[req[r].slot[1]]>>

\* The admissions of a caller, and what its bucket can still give.
ChargedTo(t) == {r \in Requests : req[r].token = t /\ req[r].charged}

\* The admissions, with what the bucket can give at once, are within the burst
\* and the time since the start.
Within(S, tokens, now) == IsFiniteSet(S) /\ Cardinality(S) + tokens <= Burst + now - 1

Callers == Tokens \union {"anonymous"}

\* A limiter as it can be at time now.
Limiter(b, now) ==
    /\ DOMAIN b \subseteq Callers
    /\ \A k \in DOMAIN b : b[k] \in [tokens : Nat, updated : Nat] /\ b[k].updated <= now

RateInv ==
    /\ clock \in Nat \ {0} /\ Limiter(buckets, clock)
    /\ \A r \in Requests :
         /\ req[r].charged \in BOOLEAN
         /\ req[r].charged => req[r].pc # "idle" /\ status # "down"
         /\ req[r].pc = "admit" => req[r].token \in Tokens /\ ~req[r].charged
         /\ req[r].pc = "admit" \/ req[r].charged => req[r].token \in TokensOf(config) \union removed
    /\ \A t \in Tokens \ removed : Within(ChargedTo(t), Refilled(buckets, t, clock), clock)

\* One more member makes a finite set larger by one at most.
LEMMA AddOne ==
    ASSUME NEW S, NEW x, IsFiniteSet(S)
    PROVE  /\ IsFiniteSet(S \union {x}) /\ Cardinality(S \union {x}) \in Nat
           /\ Cardinality(S) \in Nat /\ Cardinality(S \union {x}) <= Cardinality(S) + 1
<1>1. IsFiniteSet(S \union {x}) /\ (x \in S \/ Cardinality(S \union {x}) = Cardinality(S) + 1)
  BY FS_AddElement
<1>2. Cardinality(S) \in Nat
  BY FS_CardinalityType
<1>3. x \in S => Cardinality(S \union {x}) = Cardinality(S)
  <2>1. x \in S => S \union {x} = S
    OBVIOUS
  <2> QED
    BY <2>1, Zenon
<1> QED
  BY <1>1, <1>2, <1>3

-----------------------------------------------------------------------------
(* Files, quota and credentials.                                           *)

\* The credential command keeps the other fields of the file.
LEMMA ProvisionedShape ==
    ASSUME NEW c, Shaped(c), NEW key, NEW kind, NEW role
    PROVE  /\ Shaped(Provisioned(c, key, kind, role))
           /\ Provisioned(c, key, kind, role).version = c.version
           /\ Provisioned(c, key, kind, role).subjects
                = Added(c.subjects, key.subject, [kind |-> kind, disabled |-> FALSE])
           /\ Provisioned(c, key, kind, role).members = Added(c.members, <<key.subject, key.ws>>, role)
           /\ Provisioned(c, key, kind, role).keys = c.keys \union {key}
BY DEF Shaped, Provisioned, ConfigFields

\* What an operation leaves is a finite set when there was one.
LEMMA OutcomeFinite ==
    ASSUME NEW r \in Requests, req[r].kind \in Routes, req[r].kind # "session",
           IsFiniteSet(reports)
    PROVE  IsFiniteSet(Outcome(r).left) /\ IsFiniteSet(Live(req[r].ws))
<1>1. IsFiniteSet(Live(req[r].ws))
  BY FS_Subset DEF Live, In
<1>2. \A x : IsFiniteSet(Live(req[r].ws) \union {x})
  BY <1>1, FS_AddElement
<1>3. IsFiniteSet(Live(req[r].ws) \ Found(r))
  BY <1>1, FS_Difference
<1>4. \/ Outcome(r).left = Live(req[r].ws)
      \/ Outcome(r).left = Live(req[r].ws) \ Found(r)
      \/ \E x : Outcome(r).left = Live(req[r].ws) \union {x}
  BY DEF Outcome, Routes
<1> QED
  BY <1>1, <1>2, <1>3, <1>4

\* The three ways in which the reports change.
LEMMA ReportsFinite ==
    ASSUME ServerInv, Next, IsFiniteSet(reports)
    PROVE  IsFiniteSet(reports')
<1>1. ASSUME NEW r \in Requests, Operate(r) \/ OperateFails(r) PROVE IsFiniteSet(reports')
  <2>1. req[r].kind \in Routes
    BY <1>1 DEF Operate, OperateFails, ServerInv, ReqInv, InProgress, Held
  <2>2. CASE reports' \subseteq reports
    BY <2>2, FS_Subset
  <2>3. CASE req[r].kind # "session" /\ reports' = (reports \ In(req[r].ws)) \union Outcome(r).left
    <3>1. IsFiniteSet(reports \ In(req[r].ws)) /\ IsFiniteSet(Outcome(r).left)
      BY <2>1, <2>3, OutcomeFinite, FS_Difference
    <3> QED
      BY <2>3, <3>1, FS_Union
  <2> QED
    BY <1>1, <2>2, <2>3 DEF Operate, OperateFails
<1>2. CASE Sweep \/ Start
  <2>1. reports' \subseteq reports
    BY <1>2 DEF Sweep, Start
  <2> QED
    BY <2>1, FS_Subset
<1> QED
  BY <1>1, <1>2, ReportsChange

\* The file of the start is one of the configurations.
LEMMA InitFileInv == Init => FileInv
BY HubServerAssumption, FS_EmptySet DEF Init, FileInv, Shaped

\* Files and reports keep their shape.
LEMMA NextFileInv == ServerInv /\ FileInv /\ [Next]_vars => FileInv'
<1> SUFFICES ASSUME ServerInv, FileInv, [Next]_vars PROVE FileInv'
  OBVIOUS
<1>1. IsFiniteSet(reports')
  <2>1. CASE UNCHANGED vars
    BY <2>1 DEF vars, FileInv
  <2> QED
    BY <2>1, ReportsFinite DEF FileInv
<1>2. Shaped(file')
  <2>1. CASE \E c \in Configs : EditConfig(c)
    BY <2>1, HubServerAssumption DEF EditConfig, Shaped
  <2>2. CASE \E d \in Credentials : ProvisionCredential(d)
    <3>1. PICK d \in Credentials : file' = Provisioned(file, d.key, d.kind, d.role)
      BY <2>2 DEF ProvisionCredential
    <3>2. Shaped(Provisioned(file, d.key, d.kind, d.role))
      BY ProvisionedShape DEF FileInv
    <3> QED
      BY <3>1, <3>2
  <2>3. CASE file' = file
    BY <2>3 DEF FileInv
  <2>4. \A r \in Requests : Handle(r) => file' = file
    BY DEF Handle, Admit, AdmitGlobally, ReadSubmission, Authorize, Complete, Operate, OperateFails, operator
  <2> QED
    BY <2>1, <2>2, <2>3, <2>4 DEF Next, vars, operator, Authenticate, LoadConfig, Reload, Sweep, Shutdown,
         ShutdownTimeout, Exit, Start, Tick
<1>3. Shaped(config') /\ Shaped(loaded')
  <2>1. CASE Reload
    BY <2>1 DEF Reload, FileInv, access
  <2>2. CASE LoadConfig \/ Start \/ Exit
    BY <2>2 DEF LoadConfig, Start, Exit, FileInv, access
  <2>3. CASE config' = config /\ loaded' = loaded
    BY <2>3 DEF FileInv
  <2>4. \A r \in Requests : Handle(r) => config' = config /\ loaded' = loaded
    BY DEF Handle, Admit, AdmitGlobally, ReadSubmission, Authorize, Complete, Operate, OperateFails,
           access, process
  <2> QED
    BY <2>1, <2>2, <2>3, <2>4 DEF Next, vars, access, process, Authenticate, Sweep, Shutdown,
         ShutdownTimeout, EditConfig, ProvisionCredential, Tick
<1> QED
  BY <1>1, <1>2, <1>3 DEF FileInv

\* Files and reports always have their shape.
LEMMA FileInvariant == Spec => [](ServerInv /\ FileInv)
<1>1. Init => ServerInv /\ FileInv
  BY InitServerInv, InitFileInv
<1>2. ServerInv /\ FileInv /\ [Next]_vars => (ServerInv /\ FileInv)'
  BY NextServerInv, NextFileInv
<1> QED
  BY <1>1, <1>2, PTL DEF Spec

\* A workspace that got a report has at most the quota of reports.
LEMMA StepQuota ==
    ASSUME ServerInv, FileInv, Next, NEW w \in Workspaces,
           {x \in reports' : x.ws = w} \ reports # {}
    PROVE  Cardinality({x \in reports' : x.ws = w}) <= config.quota
<1>1. PICK y \in reports' \ reports : y.ws = w
  OBVIOUS
<1>2. PICK r \in Requests : Operate(r) \/ OperateFails(r)
  BY <1>1, ReportsChange DEF Sweep, Start
<1>3. req[r].kind \in Routes
  BY <1>2 DEF Operate, OperateFails, ServerInv, ReqInv, InProgress, Held
<1>4. req[r].kind # "session" /\ reports' = (reports \ In(req[r].ws)) \union Outcome(r).left
  BY <1>1, <1>2 DEF Operate, OperateFails
<1> DEFINE ws == req[r].ws
           new == [id |-> r, ws |-> ws, token |-> req[r].token, created |-> clock]
<1>5. y \in Outcome(r).left \ Live(ws)
  BY <1>1, <1>4 DEF Live, In
<1>6. req[r].kind = "create" /\ ~QuotaFull(ws) /\ Outcome(r).left = Live(ws) \union {new}
  BY <1>3, <1>4, <1>5 DEF Outcome, Routes
<1>7. new.ws = ws
  OBVIOUS
<1>8. w = ws
  BY <1>1, <1>5, <1>6, <1>7
<1>9. {x \in reports' : x.ws = w} = Live(ws) \union {new}
  BY <1>4, <1>6, <1>7, <1>8 DEF Live, In
<1> HIDE DEF new
<1>10. IsFiniteSet(Live(ws))
  BY <1>3, <1>4, OutcomeFinite DEF FileInv
<1>11. /\ Cardinality(Live(ws)) \in Nat /\ Cardinality(Live(ws) \union {new}) \in Nat
       /\ Cardinality(Live(ws) \union {new}) <= Cardinality(Live(ws)) + 1
  BY <1>10, AddOne
<1>12. config.quota \in Int /\ ~(Cardinality(Live(ws)) >= config.quota)
  BY <1>6 DEF QuotaFull, FileInv, Shaped
<1>13. Cardinality({x \in reports' : x.ws = w}) = Cardinality(Live(ws) \union {new})
  BY <1>9, Zenon
<1> QED
  BY <1>11, <1>12, <1>13

\* QuotaKept for every instance: Store.Create counts what is live under its lock
\* against the quota of the configuration that is active then.
THEOREM QuotaHolds == Spec => QuotaKept
<1> DEFINE Good == \A w \in Workspaces :
                     {x \in reports' : x.ws = w} \ reports # {} =>
                       Cardinality({x \in reports' : x.ws = w}) <= config.quota
<1>1. ServerInv /\ FileInv /\ [Next]_vars => [Good]_vars
  BY StepQuota
<1> QED
  BY <1>1, FileInvariant, PTL DEF Spec, QuotaKept

\* The two configurations find the same key for a token the file had before.
LEMMA SameKey ==
    ASSUME NEW c, NEW e, c.keys \subseteq e.keys,
           \A k, l \in e.keys : k.token = l.token => k = l,
           NEW k \in c.keys
    PROVE  authenticate(c, k.token) = k /\ authenticate(e, k.token) = k
<1>1. \A l \in e.keys : l.token = k.token => l = k
  OBVIOUS
<1>2. (CHOOSE l \in c.keys : l.token = k.token) = k
  BY <1>1
<1>3. (CHOOSE l \in e.keys : l.token = k.token) = k
  BY <1>1
<1> QED
  BY <1>2, <1>3 DEF authenticate

\* ProvisioningAdds for every instance: ProvisionCredential only appends, and a
\* key that there is keeps its subject, its membership and its scopes.
THEOREM ProvisioningHolds == Spec => ProvisioningAdds
<1> DEFINE Good == \A d \in Credentials : ProvisionCredential(d) =>
                     \A t \in {k.token : k \in file.keys}, s \in Scopes, w \in Workspaces :
                       Grants(file, t, s, w) <=> Grants(file', t, s, w)
<1>1. ASSUME FileInv, NEW d \in Credentials, ProvisionCredential(d),
             NEW k \in file.keys, NEW s \in Scopes, NEW w \in Workspaces
      PROVE  Grants(file, k.token, s, w) <=> Grants(file', k.token, s, w)
  <2> DEFINE e == Provisioned(file, d.key, d.kind, d.role)
  <2>1. file' = e /\ Validate(file) /\ Validate(e) /\ file.version = 2
    BY <1>1 DEF ProvisionCredential, ProvisionAllowed
  <2>2. /\ e.version = file.version
        /\ e.subjects = Added(file.subjects, d.key.subject, [kind |-> d.kind, disabled |-> FALSE])
        /\ e.members = Added(file.members, <<d.key.subject, d.key.ws>>, d.role)
        /\ e.keys = file.keys \union {d.key}
    BY <1>1, ProvisionedShape DEF FileInv
  <2> HIDE DEF e
  <2>3. authenticate(file, k.token) = k /\ authenticate(e, k.token) = k
    <3>1. file.keys \subseteq e.keys /\ \A l, m \in e.keys : l.token = m.token => l = m
      BY <2>1, <2>2 DEF Validate
    <3> QED
      BY <3>1, SameKey
  <2>4. k.subject \in DOMAIN file.subjects /\ <<k.subject, k.ws>> \in DOMAIN file.members
    BY <2>1 DEF Validate, validateAccessConfig
  <2>5. k.subject \in DOMAIN e.subjects /\ e.subjects[k.subject] = file.subjects[k.subject]
    BY <2>2, <2>4 DEF Added
  <2>6. <<k.subject, k.ws>> \in DOMAIN e.members
        /\ e.members[<<k.subject, k.ws>>] = file.members[<<k.subject, k.ws>>]
    BY <2>2, <2>4 DEF Added
  <2>7. Active(file, k) <=> Active(e, k)
    BY <2>1, <2>2, <2>4, <2>5, <2>6 DEF Active, membershipScopes
  <2>8. Grants(file, k.token, s, w) <=> Grants(e, k.token, s, w)
    BY <2>3, <2>7 DEF Grants
  <2> QED
    BY <2>1, <2>8
<1>2. FileInv => Good
  BY <1>1
<1>3. ServerInv /\ FileInv /\ [Next]_vars => [Good]_vars
  BY <1>2
<1> QED
  BY <1>3, FileInvariant, PTL DEF Spec, ProvisioningAdds

-----------------------------------------------------------------------------
(* What a step of a request changes of what the limits count.              *)

SameCount(p, q) == q.slot = p.slot /\ q.token = p.token /\ q.charged = p.charged

Answered(p, q) == q.pc = "done" /\ q.token = p.token /\ q.charged = p.charged

Arrives(p, q) ==
    /\ p.pc = "idle" /\ q.pc = "admit" /\ q.charged = FALSE /\ q.token \in Tokens
    /\ \E k \in config.keys : k.token = q.token /\ q.slot = <<k.ws, gens[k.ws]>>

Rated(p, q) ==
    /\ p.pc = "admit" /\ q.token = p.token
    /\ \E c \in Charged(buckets, p.token, clock) : q.charged = c.ok /\ buckets' = c.buckets
    /\ \/ q.pc = "done"
       \/ q.pc = "global" /\ q.slot = p.slot /\ Cardinality(OnSlot(p.slot)) < SlotLimit

GoesOn(p, q) ==
    /\ SameCount(p, q) /\ q.pc \in InProgress
    /\ p.pc \in InProgress \/ (p.pc = "global" /\ ~(Cardinality(Busy) >= GlobalSlots))

\* The limiter is charged for the caller, for an unknown one, or not at all.
BucketsStep(p, q) ==
    \/ Rated(p, q)
    \/ buckets' = buckets
    \/ \E c \in Charged(buckets, "anonymous", clock) : buckets' = c.buckets

RequestMoves(r, q) ==
    /\ req' = [req EXCEPT ![r] = q]
    /\ Answered(req[r], q) \/ Arrives(req[r], q) \/ Rated(req[r], q) \/ GoesOn(req[r], q)
    /\ BucketsStep(req[r], q)
    /\ UNCHANGED <<config, gens, removed, status, clock>>
    /\ status # "down"

\* A reply keeps the caller and what it was charged.
LEMMA ReplyMoves ==
    ASSUME NEW r \in Requests, NEW code, Reply(r, code)
    PROVE  \E q : req' = [req EXCEPT ![r] = q] /\ Answered(req[r], q)
<1> DEFINE q == [Idle EXCEPT !.pc = "done", !.told = code \in Success,
                             !.token = req[r].token, !.charged = req[r].charged]
<1>1. req' = [req EXCEPT ![r] = q]
  BY DEF Reply
<1>2. Answered(req[r], q)
  BY DEF Answered, Idle
<1> QED
  BY <1>1, <1>2

\* A failed authentication charges the anonymous bucket.
LEMMA AuthFailureMoves ==
    ASSUME NEW r \in Requests, authFailure(r),
           UNCHANGED <<config, gens, removed, status, clock>>, status # "down"
    PROVE  \E q : RequestMoves(r, q)
<1>1. PICK q : req' = [req EXCEPT ![r] = q] /\ Answered(req[r], q)
  BY ReplyMoves DEF authFailure
<1>2. \E c \in Charged(buckets, "anonymous", clock) : buckets' = c.buckets
  BY DEF authFailure
<1> QED
  BY <1>1, <1>2 DEF RequestMoves, BucketsStep

\* An arriving request takes the channel its workspace has now.
LEMMA AuthenticateMoves ==
    ASSUME ServerInv, NEW r \in Requests, NEW token \in Tokens, NEW kind, NEW id,
           Authenticate(r, token, kind, id)
    PROVE  \E q : RequestMoves(r, q)
<1> DEFINE key == authenticate(config, token)
           q == [Idle EXCEPT !.pc = "admit", !.token = token, !.kind = kind, !.id = id,
                             !.slot = <<key.ws, gens[key.ws]>>, !.mayWrite = Write \in keyScopes(key)]
<1>1. UNCHANGED <<config, gens, removed, status, clock>> /\ status # "down" /\ req[r].pc = "idle"
  BY DEF Authenticate, access, process
<1>2. CASE principalForKey(config, key, clock)
  <2>1. req' = [req EXCEPT ![r] = q] /\ buckets' = buckets
    BY <1>2 DEF Authenticate
  <2>2. key \in config.keys /\ key.token = token
    <3>1. key # NoKey
      BY <1>2 DEF principalForKey
    <3>2. \E k \in config.keys : k.token = token
      BY <3>1 DEF authenticate
    <3> QED
      BY <3>2 DEF authenticate
  <2> HIDE DEF key
  <2>3. q.pc = "admit" /\ q.charged = FALSE /\ q.token = token /\ q.slot = <<key.ws, gens[key.ws]>>
    BY DEF Idle
  <2> HIDE DEF q
  <2>4. Arrives(req[r], q)
    BY <1>1, <2>2, <2>3 DEF Arrives
  <2> QED
    BY <1>1, <2>1, <2>4 DEF RequestMoves, BucketsStep
<1>3. CASE ~principalForKey(config, key, clock)
  BY <1>1, <1>3, AuthFailureMoves DEF Authenticate
<1> QED
  BY <1>2, <1>3

\* The other steps of a handler.
LEMMA HandleMoves ==
    ASSUME ServerInv, NEW r \in Requests, Handle(r)
    PROVE  \E q : RequestMoves(r, q)
<1>1. UNCHANGED <<config, gens, removed, status, clock>>
  BY DEF Handle, Admit, AdmitGlobally, ReadSubmission, Authorize, Operate, OperateFails, Complete, access, process
<1>2. status # "down"
  <2>1. req[r].pc \notin Ended
    BY DEF Handle, Admit, AdmitGlobally, ReadSubmission, Authorize, Operate, OperateFails, Complete, Ended
  <2> QED
    BY <2>1 DEF ServerInv
<1>3. DOMAIN req = Requests /\ DOMAIN req[r] = ReqFields
  BY DEF ServerInv, ReqInv
<1>4. ASSUME NEW code, Reply(r, code), buckets' = buckets PROVE \E q : RequestMoves(r, q)
  <2>1. PICK q : req' = [req EXCEPT ![r] = q] /\ Answered(req[r], q)
    BY <1>4, ReplyMoves
  <2> QED
    BY <1>1, <1>2, <1>4, <2>1 DEF RequestMoves, BucketsStep
<1>5. ASSUME NEW q, req' = [req EXCEPT ![r] = q], GoesOn(req[r], q), buckets' = buckets
      PROVE  \E x : RequestMoves(r, x)
  BY <1>1, <1>2, <1>5 DEF RequestMoves, BucketsStep
<1>6. ASSUME NEW p \in {"body", "authorize"}, req' = [req EXCEPT ![r].pc = p], buckets' = buckets,
             req[r].pc \in InProgress \/ (req[r].pc = "global" /\ ~(Cardinality(Busy) >= GlobalSlots))
      PROVE  \E q : RequestMoves(r, q)
  <2> DEFINE q == [req[r] EXCEPT !.pc = p]
  <2>1. req' = [req EXCEPT ![r] = q]
    BY <1>3, <1>6
  <2>2. q.pc = p /\ SameCount(req[r], q)
    BY <1>3 DEF SameCount, ReqFields
  <2> HIDE DEF q
  <2>3. GoesOn(req[r], q)
    BY <1>6, <2>2 DEF GoesOn, InProgress
  <2> QED
    BY <1>5, <1>6, <2>1, <2>3
<1>7. CASE Admit(r)
  <2>1. PICK c \in Charged(buckets, req[r].token, clock) :
          /\ buckets' = c.buckets
          /\ IF c.ok /\ Cardinality(OnSlot(req[r].slot)) < SlotLimit
             THEN req' = [req EXCEPT ![r].pc = "global", ![r].charged = TRUE]
             ELSE req' = [req EXCEPT ![r] = [Idle EXCEPT !.pc = "done", !.token = req[r].token,
                                                         !.charged = c.ok]]
    BY <1>7 DEF Admit
  <2>2. req[r].pc = "admit"
    BY <1>7 DEF Admit
  <2>3. ASSUME NEW q, req' = [req EXCEPT ![r] = q], q.token = req[r].token, q.charged = c.ok,
               \/ q.pc = "done"
               \/ q.pc = "global" /\ q.slot = req[r].slot /\ Cardinality(OnSlot(req[r].slot)) < SlotLimit
        PROVE  \E x : RequestMoves(r, x)
    <3>1. Rated(req[r], q)
      BY <2>1, <2>2, <2>3 DEF Rated
    <3> QED
      BY <1>1, <1>2, <2>3, <3>1 DEF RequestMoves, BucketsStep
  <2>4. CASE c.ok /\ Cardinality(OnSlot(req[r].slot)) < SlotLimit
    <3> DEFINE q == [req[r] EXCEPT !.pc = "global", !.charged = TRUE]
    <3>1. req' = [req EXCEPT ![r] = q]
      BY <1>3, <2>1, <2>4
    <3>2. q.pc = "global" /\ q.charged = TRUE /\ q.slot = req[r].slot /\ q.token = req[r].token
      BY <1>3 DEF ReqFields
    <3>3. c.ok = TRUE
      BY <2>4 DEF Charged
    <3> HIDE DEF q
    <3> QED
      BY <2>3, <2>4, <3>1, <3>2, <3>3
  <2>5. CASE ~(c.ok /\ Cardinality(OnSlot(req[r].slot)) < SlotLimit)
    <3> DEFINE q == [Idle EXCEPT !.pc = "done", !.token = req[r].token, !.charged = c.ok]
    <3>1. req' = [req EXCEPT ![r] = q]
      BY <2>1, <2>5
    <3>2. q.pc = "done" /\ q.charged = c.ok /\ q.token = req[r].token
      BY DEF Idle
    <3> HIDE DEF q
    <3> QED
      BY <2>3, <3>1, <3>2
  <2> QED
    BY <2>4, <2>5
<1>8. CASE AdmitGlobally(r)
  <2>1. buckets' = buckets /\ req[r].pc = "global"
    BY <1>8 DEF AdmitGlobally
  <2>2. CASE Cardinality(Busy) >= GlobalSlots \/ req[r].kind = "bad"
    BY <1>4, <1>8, <2>1, <2>2 DEF AdmitGlobally
  <2>3. CASE ~(Cardinality(Busy) >= GlobalSlots) /\ req[r].kind # "bad"
    BY <1>6, <1>8, <2>1, <2>3 DEF AdmitGlobally
  <2> QED
    BY <2>2, <2>3
<1>9. CASE ReadSubmission(r)
  BY <1>4, <1>6, <1>9 DEF ReadSubmission, InProgress
<1>10. CASE Authorize(r)
  <2> DEFINE key == authenticate(config, req[r].token)
  <2>1. CASE ~principalForKey(config, key, clock)
    BY <1>1, <1>2, <1>10, <2>1, AuthFailureMoves DEF Authorize
  <2>2. CASE principalForKey(config, key, clock)
    <3>1. buckets' = buckets /\ req[r].pc = "authorize"
      BY <1>10, <2>2 DEF Authorize
    <3>2. \/ \E code : Reply(r, code)
          \/ req' = [req EXCEPT ![r].pc = "operate", ![r].ws = key.ws]
      BY <1>10, <2>2 DEF Authorize
    <3>3. CASE req' = [req EXCEPT ![r].pc = "operate", ![r].ws = key.ws]
      <4> DEFINE q == [req[r] EXCEPT !.pc = "operate", !.ws = key.ws]
      <4>1. req' = [req EXCEPT ![r] = q]
        BY <1>3, <3>3
      <4>2. q.pc = "operate" /\ SameCount(req[r], q)
        BY <1>3 DEF SameCount, ReqFields
      <4> HIDE DEF q
      <4>3. GoesOn(req[r], q)
        BY <3>1, <4>2 DEF GoesOn, InProgress, Held
      <4> QED
        BY <1>5, <3>1, <4>1, <4>3
    <3> QED
      BY <1>4, <3>1, <3>2, <3>3
  <2> QED
    BY <2>1, <2>2
<1>11. CASE Operate(r) \/ OperateFails(r)
  <2>1. PICK code : Operated(r, code)
    BY <1>11 DEF Operate, OperateFails
  <2>2. buckets' = buckets /\ req[r].pc = "operate"
    BY <1>11 DEF Operate, OperateFails
  <2> DEFINE q == [req[r] EXCEPT !.pc = "complete", !.told = code \in Success]
  <2>3. req' = [req EXCEPT ![r] = q]
    BY <1>3, <2>1 DEF Operated
  <2>4. q.pc = "complete" /\ SameCount(req[r], q)
    BY <1>3 DEF SameCount, ReqFields
  <2> HIDE DEF q
  <2>5. GoesOn(req[r], q)
    BY <2>2, <2>4 DEF GoesOn, InProgress, Held
  <2> QED
    BY <1>5, <2>2, <2>3, <2>5
<1>12. CASE Complete(r)
  BY <1>4, <1>12 DEF Complete
<1> QED
  BY <1>7, <1>8, <1>9, <1>10, <1>11, <1>12 DEF Handle

-----------------------------------------------------------------------------
(* Slots.                                                                  *)

\* A channel, or the hub, with room takes one more.
LEMMA RoomForOne ==
    ASSUME NEW S, NEW T, NEW x, NEW limit \in Nat, IsFiniteSet(S), Cardinality(S) <= limit,
           \/ T \subseteq S
           \/ T \subseteq S \union {x} /\ ~(Cardinality(S) >= limit)
    PROVE  IsFiniteSet(T) /\ Cardinality(T) <= limit
<1>1. /\ IsFiniteSet(S \union {x}) /\ Cardinality(S \union {x}) \in Nat
      /\ Cardinality(S) \in Nat /\ Cardinality(S \union {x}) <= Cardinality(S) + 1
  BY AddOne
<1>2. CASE T \subseteq S
  <2>1. IsFiniteSet(T) /\ Cardinality(T) <= Cardinality(S) /\ Cardinality(T) \in Nat
    BY <1>2, FS_Subset, FS_CardinalityType
  <2> QED
    BY <1>1, <2>1
<1>3. CASE T \subseteq S \union {x} /\ ~(Cardinality(S) >= limit)
  <2>1. IsFiniteSet(T) /\ Cardinality(T) <= Cardinality(S \union {x})
    BY <1>1, <1>3, FS_Subset
  <2>2. Cardinality(T) \in Nat
    BY <2>1, FS_CardinalityType
  <2> QED
    BY <1>1, <1>3, <2>1, <2>2
<1> QED
  BY <1>2, <1>3

\* A channel, and the hub, are entered only while they have room.
LEMMA MovesSlotInv ==
    ASSUME ServerInv, SlotInv, NEW r \in Requests, NEW q, RequestMoves(r, q)
    PROVE  SlotInv'
<1>1. DOMAIN req' = Requests /\ req'[r] = q /\ \A s \in Requests \ {r} : req'[s] = req[s]
  BY DEF ServerInv, RequestMoves
<1>2. UNCHANGED <<config, gens, removed>>
  BY DEF RequestMoves
<1>3. SlotLimit \in Nat /\ GlobalSlots \in Nat
  BY HubServerAssumption
<1>4. \/ Answered(req[r], q)
      \/ Arrives(req[r], q)
      \/ Rated(req[r], q)
      \/ GoesOn(req[r], q)
  BY DEF RequestMoves
<1>5. IsFiniteSet(Busy') /\ Cardinality(Busy') <= GlobalSlots
  <2>1. \/ Busy' \subseteq Busy
        \/ Busy' \subseteq Busy \union {r} /\ ~(Cardinality(Busy) >= GlobalSlots)
    <3>1. CASE GoesOn(req[r], q)
      BY <1>1, <3>1 DEF Busy, GoesOn
    <3>2. CASE Answered(req[r], q) \/ Arrives(req[r], q) \/ Rated(req[r], q)
      <4>1. q.pc \notin InProgress
        BY <3>2 DEF Answered, Arrives, Rated, InProgress, Held
      <4> QED
        BY <1>1, <4>1 DEF Busy
    <3> QED
      BY <1>4, <3>1, <3>2
  <2> QED
    BY <1>3, <2>1, RoomForOne DEF SlotInv
<1>6. ASSUME NEW s PROVE IsFiniteSet(OnSlot(s)') /\ Cardinality(OnSlot(s)') <= SlotLimit
  <2>1. OnSlot(s)' = {x \in Requests : req'[x].slot = s /\ req'[x].pc \in {"global"} \union InProgress}
    BY DEF OnSlot, InProgress, Held
  <2>2. IsFiniteSet(OnSlot(s)) /\ Cardinality(OnSlot(s)) <= SlotLimit /\ Cardinality(OnSlot(s)) \in Nat
    BY FS_CardinalityType DEF SlotInv
  <2>3. \/ OnSlot(s)' \subseteq OnSlot(s)
        \/ OnSlot(s)' \subseteq OnSlot(s) \union {r} /\ ~(Cardinality(OnSlot(s)) >= SlotLimit)
    <3>1. CASE GoesOn(req[r], q)
      BY <1>1, <2>1, <3>1 DEF OnSlot, GoesOn, SameCount
    <3>2. CASE q.pc \in {"done", "admit"}
      <4>1. q.pc \notin {"global"} \union InProgress
        BY <3>2 DEF InProgress, Held
      <4> QED
        BY <1>1, <2>1, <4>1 DEF OnSlot
    <3>3. CASE q.pc = "global" /\ q.slot = req[r].slot /\ Cardinality(OnSlot(req[r].slot)) < SlotLimit
      <4>1. CASE s = req[r].slot
        BY <1>1, <1>3, <2>1, <2>2, <3>3, <4>1 DEF OnSlot
      <4>2. CASE s # req[r].slot
        BY <1>1, <2>1, <3>3, <4>2 DEF OnSlot
      <4> QED
        BY <4>1, <4>2
    <3> QED
      BY <1>4, <3>1, <3>2, <3>3 DEF Answered, Arrives, Rated
  <2> QED
    BY <1>3, <2>2, <2>3, RoomForOne
<1>7. ASSUME NEW x \in Requests, req'[x].pc \in OnChannel, req'[x].slot[1] \in Workspaces \ removed
      PROVE  /\ req'[x].slot[1] \in ConfiguredWorkspaces(config)
             /\ req'[x].slot = <<req'[x].slot[1], gens[req'[x].slot[1]]>>
  <2>1. CASE req'[x].slot = req[x].slot /\ req[x].pc \in OnChannel
    BY <1>7, <2>1 DEF SlotInv
  <2>2. CASE x = r /\ Arrives(req[r], q)
    <3>1. PICK k \in config.keys : q.slot = <<k.ws, gens[k.ws]>>
      BY <2>2 DEF Arrives
    <3>2. q.slot[1] = k.ws
      BY <3>1
    <3> QED
      BY <1>1, <2>2, <3>1, <3>2 DEF ConfiguredWorkspaces
  <2>3. CASE x = r /\ ~Arrives(req[r], q)
    <3>1. (Rated(req[r], q) /\ q.pc = "global") \/ GoesOn(req[r], q)
      BY <1>1, <1>4, <1>7, <2>3 DEF Answered, Rated, OnChannel, InProgress, Held
    <3> QED
      BY <1>1, <2>1, <2>3, <3>1 DEF Rated, GoesOn, SameCount, OnChannel
  <2> QED
    BY <1>1, <1>7, <2>1, <2>2, <2>3
<1> QED
  BY <1>2, <1>5, <1>6, <1>7 DEF SlotInv

\* A workspace that stays configured keeps its channel.
LEMMA ReloadSlotInv ==
    ASSUME ServerInv, SlotInv, Reload
    PROVE  SlotInv'
<1>1. req' = req
  BY DEF Reload
<1>2. Busy' = Busy /\ \A s : OnSlot(s)' = OnSlot(s)
  BY <1>1 DEF Busy, OnSlot
<1>3. ASSUME NEW x \in Requests, req[x].pc \in OnChannel, req[x].slot[1] \in Workspaces \ removed'
      PROVE  /\ req[x].slot[1] \in ConfiguredWorkspaces(config')
             /\ req[x].slot = <<req[x].slot[1], gens'[req[x].slot[1]]>>
  <2>1. CASE UNCHANGED access
    BY <1>3, <2>1 DEF SlotInv, access
  <2>2. CASE /\ config' = loaded /\ gens' = NewSlots(loaded)
             /\ removed' = removed
                  \union (ConfiguredWorkspaces(config) \ ConfiguredWorkspaces(loaded))
                  \union ({k.token : k \in config.keys} \ {k.token : k \in loaded.keys})
    <3>1. req[x].slot[1] \in Workspaces \ removed
      BY <1>3, <2>2
    <3>2. /\ req[x].slot[1] \in ConfiguredWorkspaces(config)
          /\ req[x].slot = <<req[x].slot[1], gens[req[x].slot[1]]>>
      BY <1>3, <3>1 DEF SlotInv
    <3>3. req[x].slot[1] \in ConfiguredWorkspaces(loaded)
      BY <1>3, <2>2, <3>2
    <3>4. gens'[req[x].slot[1]] = gens[req[x].slot[1]]
      BY <1>3, <2>2, <3>2 DEF NewSlots
    <3> QED
      BY <2>2, <3>2, <3>3, <3>4
  <2> QED
    BY <2>1, <2>2 DEF Reload
<1> QED
  BY <1>1, <1>2, <1>3 DEF SlotInv

\* Nobody is in progress.
LEMMA NobodySlotInv ==
    ASSUME \A r \in Requests : req'[r].pc \in Ended
    PROVE  SlotInv'
<1>1. \A r \in Requests : req'[r].pc \notin OnChannel
  BY DEF Ended, OnChannel, InProgress, Held
<1>2. Busy' = {}
  BY <1>1 DEF Busy, OnChannel, InProgress, Held
<1>3. \A s : OnSlot(s)' = {}
  BY <1>1 DEF OnSlot, OnChannel, InProgress, Held
<1>4. SlotLimit \in Nat /\ GlobalSlots \in Nat
  BY HubServerAssumption
<1> QED
  BY <1>1, <1>2, <1>3, <1>4, FS_EmptySet DEF SlotInv

\* The steps that touch neither requests nor configuration.
LEMMA OtherSteps ==
    ASSUME \/ LoadConfig \/ Sweep \/ Shutdown \/ ShutdownTimeout
           \/ (\E c \in Configs : EditConfig(c))
           \/ (\E d \in Credentials : ProvisionCredential(d))
           \/ Tick \/ UNCHANGED vars
    PROVE  /\ UNCHANGED <<req, config, gens, removed, buckets>>
           /\ clock' = clock \/ clock' = clock + 1
           /\ status' = status \/ status' # "down"
BY DEF LoadConfig, Sweep, Shutdown, ShutdownTimeout, EditConfig, ProvisionCredential, Tick, vars,
       access, operator, process

\* Slots, through every step.
LEMMA NextSlotInv == ServerInv /\ SlotInv /\ [Next]_vars => SlotInv'
<1> SUFFICES ASSUME ServerInv, SlotInv, [Next]_vars PROVE SlotInv'
  OBVIOUS
<1>1. ASSUME NEW r \in Requests, \E q : RequestMoves(r, q) PROVE SlotInv'
  BY <1>1, MovesSlotInv
<1>2. ASSUME NEW r \in Requests, Handle(r) PROVE SlotInv'
  BY <1>1, <1>2, HandleMoves
<1>3. ASSUME NEW r \in Requests, NEW token \in Tokens, NEW kind, NEW id, Authenticate(r, token, kind, id)
      PROVE  SlotInv'
  BY <1>1, <1>3, AuthenticateMoves
<1>4. CASE Exit
  <2>1. \A r \in Requests : req'[r].pc \in Ended
    BY <1>4 DEF Exit, Idle, Ended
  <2> QED
    BY <2>1, NobodySlotInv
<1>5. CASE Start
  <2>1. \A r \in Requests : req'[r].pc \in Ended
    BY <1>5 DEF Start, ServerInv
  <2> QED
    BY <2>1, NobodySlotInv
<1>6. CASE UNCHANGED <<req, config, gens, removed>>
  <2>1. Busy' = Busy /\ \A s : OnSlot(s)' = OnSlot(s)
    BY <1>6 DEF Busy, OnSlot
  <2> QED
    BY <1>6, <2>1 DEF SlotInv
<1>7. CASE Next
  BY <1>2, <1>3, <1>4, <1>5, <1>6, <1>7, ReloadSlotInv, OtherSteps DEF Next
<1> QED
  BY <1>6, <1>7, OtherSteps

\* No request at the start.
LEMMA InitSlotInv == Init => SlotInv
<1> SUFFICES ASSUME Init PROVE SlotInv
  OBVIOUS
<1>1. \A r \in Requests : req[r].pc = "idle"
  BY DEF Init, Idle
<1>2. Busy = {} /\ \A s : OnSlot(s) = {}
  BY <1>1 DEF Busy, OnSlot, InProgress, Held
<1>3. SlotLimit \in Nat /\ GlobalSlots \in Nat
  BY HubServerAssumption
<1> QED
  BY <1>1, <1>2, <1>3, FS_EmptySet DEF SlotInv, OnChannel, InProgress, Held

\* RequestsBounded for every instance: however often the configuration is
\* reloaded, the channels of Server.slots bound the requests in progress.
THEOREM SlotsHold == Spec => []RequestsBounded
<1>1. Init => ServerInv /\ SlotInv
  BY InitServerInv, InitSlotInv
<1>2. ServerInv /\ SlotInv /\ [Next]_vars => (ServerInv /\ SlotInv)'
  BY NextServerInv, NextSlotInv
<1>3. SlotInv => RequestsBounded
  <2> SUFFICES ASSUME SlotInv, NEW w \in Workspaces \ removed
               PROVE  Cardinality({r \in Busy : req[r].slot[1] = w}) <= SlotLimit
    BY DEF RequestsBounded, SlotInv
  <2> DEFINE s == <<w, gens[w]>>
  <2>1. {r \in Busy : req[r].slot[1] = w} \subseteq OnSlot(s)
    BY DEF SlotInv, Busy, OnSlot, OnChannel
  <2>2. IsFiniteSet(OnSlot(s)) /\ Cardinality(OnSlot(s)) <= SlotLimit /\ SlotLimit \in Nat
    BY HubServerAssumption DEF SlotInv
  <2> HIDE DEF s
  <2> QED
    BY <2>1, <2>2, RoomForOne
<1> QED
  BY <1>1, <1>2, <1>3, PTL DEF Spec

-----------------------------------------------------------------------------
(* The rate limit, when every caller can have a bucket: server.go keeps    *)
(* 128, and a configuration has at most 100 keys.                          *)

RoomForAll == IsFiniteSet(Callers) /\ Cardinality(Callers) <= MaxBuckets

\* What a bucket holds, and by how much it grows.
LEMMA RefilledType ==
    ASSUME NEW now \in Nat, NEW b, Limiter(b, now), NEW k
    PROVE  /\ Refilled(b, k, now) \in Nat /\ Refilled(b, k, now) <= Burst
           /\ Refilled(b, k, now + 1) \in Nat /\ Refilled(b, k, now + 1) <= Refilled(b, k, now) + 1
BY RateLimiterAssumption DEF Limiter, Refilled, Smaller

\* No bucket is taken from a caller for another.
LEMMA NoEviction ==
    ASSUME RoomForAll, NEW now, NEW b, Limiter(b, now), NEW k \in Callers
    PROVE  Kept(b, k) = {DOMAIN b}
<1>1. CASE k \in DOMAIN b
  BY <1>1 DEF Kept
<1>2. CASE k \notin DOMAIN b
  <2>1. /\ IsFiniteSet(DOMAIN b) /\ Cardinality(DOMAIN b) <= Cardinality(Callers)
        /\ Cardinality(Callers) = Cardinality(DOMAIN b) => Callers = DOMAIN b
    BY FS_Subset DEF RoomForAll, Limiter
  <2>2. Cardinality(DOMAIN b) # Cardinality(Callers)
    BY <1>2, <2>1
  <2>3. Cardinality(DOMAIN b) \in Nat /\ Cardinality(Callers) \in Nat
    BY <2>1, FS_CardinalityType DEF RoomForAll
  <2>4. Cardinality(DOMAIN b) < MaxBuckets
    BY <2>1, <2>2, <2>3, RateLimiterAssumption DEF RoomForAll
  <2> QED
    BY <2>4 DEF Kept
<1> QED
  BY <1>1, <1>2

\* A charge takes one token of the caller's bucket, or finds none there.
LEMMA ChargeOnce ==
    ASSUME RoomForAll, NEW now \in Nat, NEW b, Limiter(b, now), NEW k \in Callers,
           NEW c \in Charged(b, k, now)
    PROVE  /\ Limiter(c.buckets, now)
           /\ c.ok \in BOOLEAN
           /\ \A t : t # k => Refilled(c.buckets, t, now) = Refilled(b, t, now)
           /\ Refilled(c.buckets, k, now) =
                IF c.ok THEN Refilled(b, k, now) - 1 ELSE Refilled(b, k, now)
<1> DEFINE tokens == Refilled(b, k, now)
           left == [tokens |-> IF tokens >= 1 THEN tokens - 1 ELSE tokens, updated |-> now]
           after == [l \in DOMAIN b \union {k} |-> IF l = k THEN left ELSE b[l]]
<1>1. c = [ok |-> tokens >= 1, buckets |-> after]
  BY NoEviction DEF Charged
<1>2. tokens \in Nat /\ tokens <= Burst /\ Burst \in Nat
  BY RefilledType, RateLimiterAssumption
<1> HIDE DEF tokens
<1>3. /\ left \in [tokens : Nat, updated : Nat] /\ left.updated = now
      /\ left.tokens = IF tokens >= 1 THEN tokens - 1 ELSE tokens
  BY <1>2
<1> HIDE DEF left
<1>4. DOMAIN after = DOMAIN b \union {k} /\ after[k] = left /\ \A t \in DOMAIN b : t # k => after[t] = b[t]
  OBVIOUS
<1> HIDE DEF after
<1>5. c.buckets = after /\ c.ok = (tokens >= 1)
  BY <1>1
<1>6. Limiter(after, now)
  <2>1. DOMAIN after \subseteq Callers
    BY <1>4 DEF Limiter
  <2>2. ASSUME NEW t \in DOMAIN after
        PROVE  after[t] \in [tokens : Nat, updated : Nat] /\ after[t].updated <= now
    <3>1. CASE t = k
      BY <1>3, <1>4, <3>1
    <3>2. CASE t # k
      BY <1>4, <2>2, <3>2 DEF Limiter
    <3> QED
      BY <3>1, <3>2
  <2> QED
    BY <2>1, <2>2 DEF Limiter
<1>7. \A t : t # k => Refilled(after, t, now) = Refilled(b, t, now)
  BY <1>4 DEF Refilled
<1>8. Refilled(after, k, now) = IF tokens >= 1 THEN tokens - 1 ELSE tokens
  <2>1. Refilled(after, k, now) = Smaller(Burst, left.tokens + (now - left.updated))
    BY <1>4 DEF Refilled
  <2>2. left.tokens + (now - left.updated) = IF tokens >= 1 THEN tokens - 1 ELSE tokens
    BY <1>2, <1>3
  <2> QED
    BY <1>2, <2>1, <2>2 DEF Smaller
<1>9. c.ok \in BOOLEAN /\ (c.ok <=> tokens >= 1)
  <2>1. (tokens >= 1) \in BOOLEAN
    BY <1>2
  <2> QED
    BY <1>5, <2>1, Zenon
<1>10. Refilled(after, k, now) = IF c.ok THEN tokens - 1 ELSE tokens
  BY <1>8, <1>9
<1>11. tokens = Refilled(b, k, now)
  BY DEF tokens
<1> QED
  BY <1>5, <1>6, <1>7, <1>9, <1>10, <1>11

\* Fewer admissions, fewer tokens, more time: within all the same.
LEMMA WithinLess ==
    ASSUME NEW S, NEW T, NEW m \in Nat, NEW n \in Nat, NEW now \in Nat, NEW later \in Nat,
           Within(S, m, now), T \subseteq S, n - m <= later - now
    PROVE  Within(T, n, later)
<1>1. /\ IsFiniteSet(T) /\ Cardinality(T) <= Cardinality(S)
      /\ Cardinality(S) \in Nat /\ Cardinality(T) \in Nat
  BY FS_Subset, FS_CardinalityType DEF Within
<1> QED
  BY <1>1, RateLimiterAssumption DEF Within

\* One more admission for one token.
LEMMA WithinOne ==
    ASSUME NEW S, NEW T, NEW x, NEW m \in Nat \ {0}, NEW now \in Nat,
           Within(S, m, now), T \subseteq S \union {x}
    PROVE  Within(T, m - 1, now)
<1>1. /\ IsFiniteSet(S \union {x}) /\ Cardinality(S \union {x}) \in Nat
      /\ Cardinality(S) \in Nat /\ Cardinality(S \union {x}) <= Cardinality(S) + 1
  BY AddOne DEF Within
<1>2. IsFiniteSet(T) /\ Cardinality(T) <= Cardinality(S \union {x}) /\ Cardinality(T) \in Nat
  BY <1>1, FS_Subset, FS_CardinalityType
<1> QED
  BY <1>1, <1>2, RateLimiterAssumption DEF Within

\* Nobody was admitted yet.
LEMMA WithinNone ==
    ASSUME NEW n \in Nat, n <= Burst, NEW now \in Nat \ {0}
    PROVE  Within({}, n, now)
BY FS_EmptySet, RateLimiterAssumption DEF Within

\* An admission costs its caller a token of its bucket.
LEMMA MovesRateInv ==
    ASSUME RoomForAll, ServerInv, RateInv, NEW r \in Requests, NEW q, RequestMoves(r, q)
    PROVE  RateInv'
<1>1. DOMAIN req' = Requests /\ req'[r] = q /\ \A s \in Requests \ {r} : req'[s] = req[s]
  BY DEF ServerInv, RequestMoves
<1>2. UNCHANGED <<config, removed, status, clock>> /\ status # "down"
  BY DEF RequestMoves
<1>3. \/ Answered(req[r], q)
      \/ Arrives(req[r], q)
      \/ Rated(req[r], q)
      \/ GoesOn(req[r], q)
  BY DEF RequestMoves
<1>t. clock \in Nat \ {0} /\ Limiter(buckets, clock) /\ "anonymous" \in Callers
  BY DEF RateInv, Callers
<1>4. CASE Rated(req[r], q)
  <2>1. PICK c \in Charged(buckets, req[r].token, clock) : q.charged = c.ok /\ buckets' = c.buckets
    BY <1>4 DEF Rated
  <2>2. /\ req[r].pc = "admit" /\ q.token = req[r].token /\ q.pc \in {"done", "global"}
        /\ q.token \in Tokens /\ ~req[r].charged /\ q.token \in TokensOf(config) \union removed
    BY <1>4 DEF Rated, RateInv
  <2>3. /\ Limiter(c.buckets, clock) /\ c.ok \in BOOLEAN
        /\ \A t : t # q.token => Refilled(c.buckets, t, clock) = Refilled(buckets, t, clock)
        /\ Refilled(c.buckets, q.token, clock) =
             IF c.ok THEN Refilled(buckets, q.token, clock) - 1 ELSE Refilled(buckets, q.token, clock)
    BY <1>t, <2>2, ChargeOnce DEF Callers
  <2>4. /\ Refilled(c.buckets, q.token, clock) \in Nat
        /\ \A t : Refilled(buckets, t, clock) \in Nat
    BY <1>t, <2>3, RefilledType
  <2>5. ASSUME NEW t \in Tokens \ removed
        PROVE  Within(ChargedTo(t)', Refilled(c.buckets, t, clock), clock)
    <3>1. Within(ChargedTo(t), Refilled(buckets, t, clock), clock)
      BY DEF RateInv
    <3>2. ChargedTo(t)' = {x \in Requests : req'[x].token = t /\ req'[x].charged}
      BY DEF ChargedTo
    <3>3. CASE t # q.token
      <4>1. ChargedTo(t)' \subseteq ChargedTo(t)
        BY <1>1, <3>2, <3>3 DEF ChargedTo
      <4> QED
        BY <1>t, <2>3, <2>4, <3>1, <3>3, <4>1, WithinLess
    <3>4. CASE t = q.token /\ ~c.ok
      <4>1. ChargedTo(t)' \subseteq ChargedTo(t)
        BY <1>1, <2>1, <3>2, <3>4 DEF ChargedTo
      <4>2. Refilled(c.buckets, t, clock) = Refilled(buckets, t, clock)
        BY <2>3, <3>4
      <4> QED
        BY <1>t, <2>4, <3>1, <4>1, <4>2, WithinLess
    <3>5. CASE t = q.token /\ c.ok
      <4>1. ChargedTo(t)' \subseteq ChargedTo(t) \union {r}
        BY <1>1, <3>2 DEF ChargedTo
      <4>2. Refilled(c.buckets, t, clock) = Refilled(buckets, t, clock) - 1
        BY <2>3, <3>5
      <4>3. Refilled(buckets, t, clock) \in Nat \ {0}
        BY <2>4, <3>5, <4>2
      <4>4. Within(ChargedTo(t)', Refilled(buckets, t, clock) - 1, clock)
        BY <1>t, <3>1, <4>1, <4>3, WithinOne
      <4> QED
        BY <4>2, <4>4
    <3> QED
      BY <2>3, <3>3, <3>4, <3>5
  <2>6. \A t \in Tokens \ removed' : Within(ChargedTo(t)', Refilled(buckets', t, clock'), clock')
    BY <1>2, <2>1, <2>5
  <2>7. clock' \in Nat \ {0} /\ Limiter(buckets', clock')
    BY <1>2, <1>t, <2>1, <2>3
  <2>8. ASSUME NEW x \in Requests
        PROVE  /\ req'[x].charged \in BOOLEAN
               /\ req'[x].charged => req'[x].pc # "idle" /\ status' # "down"
               /\ req'[x].pc = "admit" => req'[x].token \in Tokens /\ ~req'[x].charged
               /\ req'[x].pc = "admit" \/ req'[x].charged => req'[x].token \in TokensOf(config) \union removed
    <3>1. CASE x = r
      BY <1>1, <1>2, <2>1, <2>2, <2>3, <3>1
    <3>2. CASE x # r
      BY <1>1, <1>2, <3>2 DEF RateInv
    <3> QED
      BY <3>1, <3>2
  <2> QED
    BY <1>2, <2>6, <2>7, <2>8 DEF RateInv
<1>5. CASE ~Rated(req[r], q)
  <2>1. \A t : ChargedTo(t)' \subseteq ChargedTo(t)
    <3>1. q.charged => q.token = req[r].token /\ req[r].charged
      BY <1>3, <1>5 DEF Answered, Arrives, GoesOn, SameCount
    <3> QED
      BY <1>1, <3>1 DEF ChargedTo
  <2>2. /\ Limiter(buckets', clock)
        /\ \A t : /\ Refilled(buckets', t, clock) \in Nat /\ Refilled(buckets, t, clock) \in Nat
                  /\ Refilled(buckets', t, clock) <= Refilled(buckets, t, clock)
    <3>1. CASE buckets' = buckets
      BY <1>t, <3>1, RefilledType
    <3>2. CASE \E c \in Charged(buckets, "anonymous", clock) : buckets' = c.buckets
      <4>1. PICK c \in Charged(buckets, "anonymous", clock) : buckets' = c.buckets
        BY <3>2
      <4>2. /\ Limiter(c.buckets, clock) /\ c.ok \in BOOLEAN
            /\ \A t : t # "anonymous" => Refilled(c.buckets, t, clock) = Refilled(buckets, t, clock)
            /\ Refilled(c.buckets, "anonymous", clock) =
                 IF c.ok THEN Refilled(buckets, "anonymous", clock) - 1
                 ELSE Refilled(buckets, "anonymous", clock)
        BY <1>t, ChargeOnce
      <4>3. \A t : Refilled(c.buckets, t, clock) \in Nat /\ Refilled(buckets, t, clock) \in Nat
        BY <1>t, <4>2, RefilledType
      <4>4. ASSUME NEW t PROVE Refilled(c.buckets, t, clock) <= Refilled(buckets, t, clock)
        BY <4>2, <4>3
      <4> QED
        BY <4>1, <4>2, <4>3, <4>4
    <3> QED
      BY <1>5, <3>1, <3>2 DEF RequestMoves, BucketsStep
  <2>3. ASSUME NEW t \in Tokens \ removed
        PROVE  Within(ChargedTo(t)', Refilled(buckets', t, clock), clock)
    <3>1. Within(ChargedTo(t), Refilled(buckets, t, clock), clock)
      BY DEF RateInv
    <3> QED
      BY <1>t, <2>1, <2>2, <3>1, WithinLess
  <2>4. ASSUME NEW x \in Requests
        PROVE  /\ req'[x].charged \in BOOLEAN
               /\ req'[x].charged => req'[x].pc # "idle" /\ status' # "down"
               /\ req'[x].pc = "admit" => req'[x].token \in Tokens /\ ~req'[x].charged
               /\ req'[x].pc = "admit" \/ req'[x].charged => req'[x].token \in TokensOf(config) \union removed
    <3>1. CASE x = r /\ Arrives(req[r], q)
      BY <1>1, <1>2, <3>1 DEF Arrives, TokensOf
    <3>2. CASE x = r /\ ~Arrives(req[r], q)
      <4>1. /\ q.token = req[r].token /\ q.charged = req[r].charged
            /\ q.pc # "idle" /\ q.pc # "admit"
        BY <1>3, <1>5, <3>2 DEF Answered, GoesOn, SameCount, InProgress, Held
      <4> QED
        BY <1>1, <1>2, <3>2, <4>1 DEF RateInv
    <3>3. CASE x # r
      BY <1>1, <1>2, <3>3 DEF RateInv
    <3> QED
      BY <3>1, <3>2, <3>3
  <2> QED
    BY <1>2, <1>t, <2>2, <2>3, <2>4 DEF RateInv
<1> QED
  BY <1>4, <1>5

\* retain keeps the buckets of the callers that stay.
LEMMA ReloadRateInv ==
    ASSUME ServerInv, RateInv, Reload
    PROVE  RateInv'
<1>1. req' = req /\ clock' = clock /\ status' = status
  BY DEF Reload
<1>2. \A t : ChargedTo(t)' = ChargedTo(t)
  BY <1>1 DEF ChargedTo
<1>3. CASE UNCHANGED <<access, buckets>>
  BY <1>1, <1>2, <1>3 DEF RateInv, access
<1>4. CASE /\ config' = loaded
           /\ removed' = removed
                \union (ConfiguredWorkspaces(config) \ ConfiguredWorkspaces(loaded))
                \union ({k.token : k \in config.keys} \ {k.token : k \in loaded.keys})
           /\ buckets' = KeptBuckets(loaded)
  <2> DEFINE keep == {"anonymous"} \union TokensOf(loaded)
  <2>1. /\ DOMAIN buckets' = DOMAIN buckets \intersect keep
        /\ \A k \in DOMAIN buckets' : buckets'[k] = buckets[k]
    BY <1>4 DEF KeptBuckets, Retained, TokensOf
  <2>2. clock \in Nat \ {0} /\ Limiter(buckets, clock)
    BY DEF RateInv
  <2>3. Limiter(buckets', clock)
    BY <2>1, <2>2 DEF Limiter
  <2>4. TokensOf(config) \union removed \subseteq TokensOf(config') \union removed'
    BY <1>4 DEF TokensOf
  <2>5. ASSUME NEW t \in Tokens \ removed'
        PROVE  Within(ChargedTo(t), Refilled(buckets', t, clock), clock)
    <3>1. t \notin removed
      BY <1>4
    <3>2. CASE t \in TokensOf(loaded)
      <4>1. Refilled(buckets', t, clock) = Refilled(buckets, t, clock)
        BY <2>1, <3>2 DEF Refilled
      <4> QED
        BY <3>1, <4>1 DEF RateInv
    <3>3. CASE t \notin TokensOf(loaded)
      <4>1. t \notin TokensOf(config)
        BY <1>4, <3>3 DEF TokensOf
      <4>2. ChargedTo(t) = {}
        BY <3>1, <4>1 DEF RateInv, ChargedTo
      <4>3. Refilled(buckets', t, clock) \in Nat /\ Refilled(buckets', t, clock) <= Burst
        BY <2>2, <2>3, RefilledType
      <4> QED
        BY <2>2, <4>2, <4>3, WithinNone
    <3> QED
      BY <3>2, <3>3
  <2> QED
    BY <1>1, <1>2, <2>2, <2>3, <2>4, <2>5 DEF RateInv
<1> QED
  BY <1>3, <1>4 DEF Reload

\* A process that ends, or starts, has admitted nobody.
LEMMA NobodyRateInv ==
    ASSUME clock' \in Nat \ {0}, Limiter(buckets', clock'),
           \A r \in Requests : req'[r].charged = FALSE /\ req'[r].pc # "admit"
    PROVE  RateInv'
<1>1. \A t : ChargedTo(t)' = {}
  BY DEF ChargedTo
<1>2. \A t : Refilled(buckets', t, clock') \in Nat /\ Refilled(buckets', t, clock') <= Burst
  BY RefilledType
<1>3. \A t : Within(ChargedTo(t)', Refilled(buckets', t, clock'), clock')
  BY <1>1, <1>2, WithinNone
<1> QED
  BY <1>3 DEF RateInv

\* Buckets, through every step.
LEMMA NextRateInv ==
    ASSUME RoomForAll, ServerInv, RateInv, [Next]_vars
    PROVE  RateInv'
<1>1. ASSUME NEW r \in Requests, Handle(r) PROVE RateInv'
  BY <1>1, HandleMoves, MovesRateInv
<1>2. ASSUME NEW r \in Requests, NEW token \in Tokens, NEW kind, NEW id, Authenticate(r, token, kind, id)
      PROVE  RateInv'
  BY <1>2, AuthenticateMoves, MovesRateInv
<1>t. clock \in Nat \ {0} /\ Limiter(buckets, clock)
  BY DEF RateInv
<1>3. CASE Exit
  <2>1. clock' = clock /\ buckets' = [k \in {} |-> 0]
    BY <1>3 DEF Exit
  <2>2. \A r \in Requests : req'[r].charged = FALSE /\ req'[r].pc # "admit"
    BY <1>3 DEF Exit, Idle
  <2>3. Limiter(buckets', clock')
    BY <2>1 DEF Limiter
  <2> QED
    BY <1>t, <2>1, <2>2, <2>3, NobodyRateInv
<1>4. CASE Start
  <2>1. clock' = clock /\ buckets' = buckets /\ req' = req /\ status = "down"
    BY <1>4 DEF Start
  <2>2. \A r \in Requests : req[r].pc # "admit"
    BY <2>1 DEF ServerInv, Ended
  <2>3. \A r \in Requests : req[r].charged = FALSE
    BY <2>1 DEF RateInv
  <2> QED
    BY <1>t, <2>1, <2>2, <2>3, NobodyRateInv
<1>5. CASE /\ UNCHANGED <<req, config, removed, buckets>>
           /\ clock' = clock \/ clock' = clock + 1
           /\ status' = status \/ status' # "down"
  <2>1. \A t : ChargedTo(t)' = ChargedTo(t)
    BY <1>5 DEF ChargedTo
  <2>2. clock' \in Nat \ {0} /\ Limiter(buckets', clock')
    BY <1>t, <1>5 DEF Limiter
  <2>3. ASSUME NEW t \in Tokens \ removed
        PROVE  Within(ChargedTo(t), Refilled(buckets, t, clock'), clock')
    <3>1. Within(ChargedTo(t), Refilled(buckets, t, clock), clock)
      BY DEF RateInv
    <3>2. /\ Refilled(buckets, t, clock) \in Nat
          /\ Refilled(buckets, t, clock + 1) \in Nat
          /\ Refilled(buckets, t, clock + 1) <= Refilled(buckets, t, clock) + 1
      BY <1>t, RefilledType
    <3>3. CASE clock' = clock
      BY <3>1, <3>3
    <3>4. CASE clock' = clock + 1
      <4>1. Within(ChargedTo(t), Refilled(buckets, t, clock + 1), clock + 1)
        BY <1>t, <3>1, <3>2, WithinLess
      <4> QED
        BY <3>4, <4>1
    <3> QED
      BY <1>5, <3>3, <3>4
  <2>4. ASSUME NEW x \in Requests
        PROVE  /\ req[x].charged \in BOOLEAN
               /\ req[x].charged => req[x].pc # "idle" /\ status' # "down"
               /\ req[x].pc = "admit" => req[x].token \in Tokens /\ ~req[x].charged
               /\ req[x].pc = "admit" \/ req[x].charged => req[x].token \in TokensOf(config) \union removed
    BY <1>5 DEF RateInv
  <2> QED
    BY <1>5, <2>1, <2>2, <2>3, <2>4 DEF RateInv
<1>6. CASE Next
  BY <1>1, <1>2, <1>3, <1>4, <1>5, <1>6, ReloadRateInv, OtherSteps DEF Next
<1> QED
  BY <1>5, <1>6, OtherSteps

\* No bucket at the start.
LEMMA InitRateInv == Init => RateInv
<1> SUFFICES ASSUME Init PROVE RateInv
  OBVIOUS
<1>1. clock \in Nat \ {0} /\ Limiter(buckets, clock)
  BY DEF Init, Limiter
<1>2. \A r \in Requests : req[r].charged = FALSE /\ req[r].pc # "admit"
  BY DEF Init, Idle
<1>3. \A t : ChargedTo(t) = {}
  BY <1>2 DEF ChargedTo
<1>4. \A t : Refilled(buckets, t, clock) \in Nat /\ Refilled(buckets, t, clock) <= Burst
  BY <1>1, RefilledType
<1>5. \A t : Within(ChargedTo(t), Refilled(buckets, t, clock), clock)
  BY <1>1, <1>3, <1>4, WithinNone
<1> QED
  BY <1>1, <1>2, <1>5 DEF RateInv

\* BurstKept for any number of requests and reloads, as long as every caller can
\* have a bucket: retain forgets no caller that stays configured.
THEOREM BurstHolds ==
    ASSUME RoomForAll
    PROVE  Spec => []BurstKept
<1>1. Init => ServerInv /\ RateInv
  BY InitServerInv, InitRateInv
<1>2. ServerInv /\ RateInv /\ [Next]_vars => (ServerInv /\ RateInv)'
  BY NextServerInv, NextRateInv
<1>3. RateInv => BurstKept
  <2> SUFFICES ASSUME RateInv, NEW t \in Tokens \ removed
               PROVE  Cardinality(ChargedTo(t)) <= Burst + clock - 1
    BY DEF BurstKept, ChargedTo
  <2>1. Within(ChargedTo(t), Refilled(buckets, t, clock), clock) /\ clock \in Nat \ {0}
    BY DEF RateInv
  <2>2. Refilled(buckets, t, clock) \in Nat
    BY <2>1, RefilledType DEF RateInv
  <2>3. Cardinality(ChargedTo(t)) \in Nat
    BY <2>1, FS_CardinalityType DEF Within
  <2> QED
    BY <2>1, <2>2, <2>3, RateLimiterAssumption DEF Within
<1> QED
  BY <1>1, <1>2, <1>3, PTL DEF Spec
=============================================================================
