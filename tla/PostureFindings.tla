---------------------------- MODULE PostureFindings ----------------------------
(***************************************************************************)
(* Posture: the findings and waivers of a certificate and its risk score   *)
(* (internal/posture/recompute.go, internal/store/findings.go,             *)
(* internal/store/waivers.go, internal/api/handlers_posture.go).           *)
(*                                                                         *)
(* A recompute reads the certificate, evaluates the rules, asks for a      *)
(* waiver rule by rule, writes the findings in one transaction, lists the  *)
(* open ones and writes the score.  Several run at once: after a scan,     *)
(* after a waiver, after an enrichment.  The transaction takes a row lock  *)
(* per finding, first in the order of the rules, then in table order for   *)
(* the rows it resolves, so two of them may deadlock; PostgreSQL aborts    *)
(* one.                                                                    *)
(***************************************************************************)
EXTENDS CompliancePacks

CONSTANTS
  Certs,              \* certificates
  Procs,              \* requests and scan workers that recompute
  Shapes,             \* what discovery may have seen of a certificate
  Waivable,           \* rules that are waived
  Patches,            \* enrichments: owner and tags (set or emptied), env; NULL: not given
  Hours,              \* values the time to expiry may take
  ExpiringSoonDays,   \* configuration
  NULL,
  MaxWaivers,         \* bound: waivers
  MaxOps              \* bound: requests, outside changes and faults

ASSUME PostureNumbers == MaxWaivers \in Nat /\ MaxOps \in Nat /\ ExpiringSoonDays \in Nat
ASSUME PostureNull == NULL \notin Certs /\ NULL \notin Rules

VARIABLES
  cert,     \* what the rules read of each certificate, NULL when deleted
  risk,     \* risk_score of each certificate
  finding,  \* findings of each certificate: rule, severity, waived, open or not
  waiver,   \* waivers by number
  proc,     \* the recomputes under way
  ops,      \* requests, outside changes and faults so far
  fresh     \* history: the posture of the certificate is up to date

vars == <<cert, risk, finding, waiver, proc, ops, fresh>>

Wids == 1 .. MaxWaivers
NoWaiver == [cert |-> NULL, rule |-> "", state |-> "none"]
Idle == [pc |-> "idle", queue |-> {}, cert |-> NULL, todo |-> {}, expired |-> {},
         cur |-> <<>>, waived |-> {}, n |-> 1, cand |-> {}, want |-> NULL, locked |-> {},
         score |-> 0, dirty |-> FALSE]

Max0(S) == Max(S \cup {0})
Open(c) == {f \in finding[c] : f.open}
Alive(c) == cert[c] # NULL

TypeOK ==
  /\ \A c \in Certs : Alive(c) => DOMAIN cert[c] = {"nb", "life", "left", "key", "bits",
       "sha1", "chain", "san", "status", "managed", "scope", "env", "owner", "tags"}
  /\ risk \in [Certs -> {0} \cup {ScoreSeverity[s] : s \in Severities}]
  /\ \A c \in Certs : \A f, g \in finding[c] :
       /\ f.rule \in Rules /\ f.sev \in Severities /\ f.waived \in BOOLEAN /\ f.open \in BOOLEAN
       /\ f.rule = g.rule => f = g
  /\ \A w \in Wids : /\ waiver[w].cert \in Certs \cup {NULL}
                     /\ waiver[w].state \in {"none", "active", "expired", "revoked"}
  /\ \A p \in Procs : /\ proc[p].pc \in {"idle", "next", "waivers", "upsert", "resolve",
                                         "list", "risk"}
                      /\ proc[p].queue \subseteq Certs
                      /\ proc[p].n \in 1 .. Len(proc[p].cur) + 1
  /\ ops \in 0 .. MaxOps
  /\ fresh \in [Certs -> BOOLEAN]

\* A certificate as UpsertCertificate stores it.
Discovered(s) ==
  [nb |-> s.nb, life |-> s.life, left |-> s.left, key |-> s.key, bits |-> s.bits,
   sha1 |-> s.sha1, chain |-> s.chain, san |-> s.san,
   status |-> Compute(s.left, ExpiringSoonDays), managed |-> "unmanaged",
   scope |-> ClassifyScope(s.chain, s.issuer, s.host), env |-> NULL,
   owner |-> FALSE, tags |-> FALSE]

Init ==
  /\ cert \in [Certs -> {Discovered(s) : s \in Shapes}]
  /\ risk = [c \in Certs |-> 0] /\ finding = [c \in Certs |-> {}]
  /\ waiver = [w \in Wids |-> NoWaiver]
  /\ proc = [p \in Procs |-> Idle] /\ ops = 0
  /\ fresh = [c \in Certs |-> FALSE]

-----------------------------------------------------------------------------
(* Helpers.                                                                *)

Op == ops < MaxOps /\ ops' = ops + 1

\* History: what the recomputes of c under way have read is out of date, or
\* has been overwritten by one that was.
Dirtied(P, c) ==
  [q \in Procs |-> IF P[q].cert = c THEN [P[q] EXCEPT !.dirty = TRUE] ELSE P[q]]
Outdated(c) == fresh' = [fresh EXCEPT ![c] = FALSE]

\* Row locks: of the findings upserted so far, and of those being resolved.
Held(p) == {proc[p].cur[i].rule : i \in 1 .. proc[p].n - 1} \cup proc[p].locked
Wanted(p) ==
  IF proc[p].pc = "upsert" /\ proc[p].n <= Len(proc[p].cur) THEN proc[p].cur[proc[p].n].rule
  ELSE proc[p].want
WaitsFor(p, q) == p # q /\ proc[p].cert = proc[q].cert /\ proc[p].cert # NULL /\ Wanted(p) \in Held(q)
Blocked(p) == \E q \in Procs : WaitsFor(p, q)

\* Mutant: an error return leaves the transaction open.
Rollback_LeftOpen(p) ==
  proc' = [proc EXCEPT ![p] = [@ EXCEPT !.pc = "idle", !.want = NULL, !.queue = {}]]
\* The recompute, and the pass it is part of, end with an error (only
\* logged); defer tx.Rollback drops what the transaction wrote.
Rollback(p) == proc' = [proc EXCEPT ![p] = Idle]

Start(P, p, Q) == [P EXCEPT ![p] = [Idle EXCEPT !.pc = "next", !.queue = Q]]

-----------------------------------------------------------------------------
(* Who recomputes.                                                         *)

\* handleCreateCertWaiver: the waiver, then a recompute.
CreateWaiver(p) ==
  /\ proc[p].pc = "idle" /\ Op
  /\ \E w \in Wids, c \in Certs, r \in Waivable :
       /\ waiver[w].state = "none" /\ \A v \in 1 .. w - 1 : waiver[v].state # "none"
       /\ Alive(c)
       /\ waiver' = [waiver EXCEPT ![w] = [cert |-> c, rule |-> r, state |-> "active"]]
       /\ proc' = Start(Dirtied(proc, c), p, {c}) /\ Outdated(c)
  /\ UNCHANGED <<cert, risk, finding>>

\* handleRevokeWaiver; one already revoked, or gone with its certificate, is
\* not found.
RevokeWaiver(p) ==
  /\ proc[p].pc = "idle" /\ Op
  /\ \E w \in Wids :
       /\ waiver[w].state \in {"active", "expired"}
       /\ waiver' = [waiver EXCEPT ![w].state = "revoked"]
       /\ proc' = Start(Dirtied(proc, waiver[w].cert), p, {waiver[w].cert})
       /\ Outdated(waiver[w].cert)
  /\ UNCHANGED <<cert, risk, finding>>

\* COALESCE: what a request gives replaces the column, an empty owner or list
\* empties it, what it leaves out is kept.
Given(new, old) == IF new # NULL THEN new ELSE old

\* handlePatchCertificate: owner, environment and tags, where given.
UpdateCertificateEnrichment(p) ==
  /\ proc[p].pc = "idle" /\ Op
  /\ \E c \in Certs, u \in Patches :
       /\ Alive(c)
       /\ cert' = [cert EXCEPT ![c].owner = Given(u.owner, @), ![c].tags = Given(u.tags, @),
                               ![c].env = Given(u.env, @)]
       /\ proc' = Start(Dirtied(proc, c), p, {c}) /\ Outdated(c)
  /\ UNCHANGED <<risk, finding, waiver>>

\* RecomputeScan: loadScanCerts, then one after the other until one fails.
RecomputeScan(p) ==
  /\ proc[p].pc = "idle"
  /\ \E Q \in SUBSET {c \in Certs : Alive(c)} :
       proc' = IF Q = {} THEN proc ELSE Start(proc, p, Q)
  /\ UNCHANGED <<cert, risk, finding, waiver, ops, fresh>>

-----------------------------------------------------------------------------
(* RecomputeCert.                                                          *)

\* GetCertificate, CurrentOpsPolicyVersionID, EvaluateCertAll; now is taken.
ReadCert(p) ==
  /\ proc[p].pc = "next"
  /\ \E c \in proc[p].queue :
       IF ~Alive(c) THEN Rollback(p)
       ELSE LET cur == EvaluateCertAll(cert[c])
                todo == {f.rule : f \in Range(cur)} \cap Waivable
            IN proc' = [proc EXCEPT ![p] = [Idle EXCEPT
                 !.pc = IF todo = {} THEN "upsert" ELSE "waivers",
                 !.queue = proc[p].queue \ {c}, !.cert = c, !.cur = cur, !.todo = todo,
                 !.expired = {w \in Wids : waiver[w].state = "expired"}]]
  /\ UNCHANGED <<cert, risk, finding, waiver, ops, fresh>>

\* Not revoked, and not expired when the recompute took the time.
ActiveWaiver(c, rule, expired) ==
  \E w \in Wids \ expired :
    waiver[w].cert = c /\ waiver[w].rule = rule /\ waiver[w].state \in {"active", "expired"}

\* One query per finding, in order; for a rule that is never waived it finds
\* nothing whenever it runs, and needs no step.
ReadWaiver(p) ==
  LET i == CHOOSE j \in DOMAIN proc[p].cur :
             /\ proc[p].cur[j].rule \in proc[p].todo
             /\ \A k \in 1 .. j - 1 : proc[p].cur[k].rule \notin proc[p].todo
      r == proc[p].cur[i].rule IN
  /\ proc[p].pc = "waivers"
  /\ proc' = [proc EXCEPT
       ![p].todo = @ \ {r}, ![p].pc = IF proc[p].todo = {r} THEN "upsert" ELSE "waivers",
       ![p].waived = IF ActiveWaiver(proc[p].cert, r, proc[p].expired) THEN @ \cup {r} ELSE @]
  /\ UNCHANGED <<cert, risk, finding, waiver, ops, fresh>>

\* INSERT ... ON CONFLICT (cert_id, rule_id): waits for a transaction that has
\* the row; refused by the foreign key when the certificate is gone.
UpsertFinding(p) ==
  /\ proc[p].pc = "upsert" /\ proc[p].n <= Len(proc[p].cur) /\ ~Blocked(p)
  /\ IF Alive(proc[p].cert) THEN proc' = [proc EXCEPT ![p].n = @ + 1] ELSE Rollback(p)
  /\ UNCHANGED <<cert, risk, finding, waiver, ops, fresh>>

Seen(p) == {f.rule : f \in Range(proc[p].cur)}
Pick(S) == IF S = {} THEN {NULL} ELSE S

\* Mutant: only the rules a recompute still reports are written.
Stale_None(p) == {}
\* The UPDATE that resolves: rows open when the statement starts.
Stale(p) == {f.rule : f \in Open(proc[p].cert)} \ Seen(p)

StartResolve(p) ==
  /\ proc[p].pc = "upsert" /\ proc[p].n > Len(proc[p].cur)
  /\ \E r \in Pick(Stale(p)) :
       proc' = [proc EXCEPT ![p].pc = "resolve", ![p].cand = Stale(p), ![p].want = r]
  /\ UNCHANGED <<cert, risk, finding, waiver, ops, fresh>>

\* It locks them one by one, in no particular order.
ResolveFinding(p) ==
  /\ proc[p].pc = "resolve" /\ proc[p].want # NULL /\ ~Blocked(p)
  /\ \E r \in Pick(proc[p].cand \ {proc[p].want}) :
       proc' = [proc EXCEPT ![p].locked = @ \cup {proc[p].want},
                            ![p].cand = @ \ {proc[p].want}, ![p].want = r]
  /\ UNCHANGED <<cert, risk, finding, waiver, ops, fresh>>

\* The committed rows: current ones (MapFindingForPersist) open, locked ones resolved.
Written(p) ==
  {[f EXCEPT !.open = @ /\ f.rule \notin proc[p].locked] :
     f \in {g \in finding[proc[p].cert] : g.rule \notin Seen(p)}}
  \cup {[rule |-> f.rule, sev |-> MapPackSeverity(f.pack, f.sev),
         waived |-> f.rule \in proc[p].waived, open |-> TRUE] : f \in Range(proc[p].cur)}

Commit(p) ==
  LET c == proc[p].cert
      P == [proc EXCEPT ![p].pc = "list", ![p].n = 1, ![p].cur = <<>>,
                          ![p].waived = {}, ![p].locked = {}, ![p].expired = {}] IN
  /\ proc[p].pc = "resolve" /\ proc[p].want = NULL
  /\ finding' = [finding EXCEPT ![c] = Written(p)]
  /\ IF proc[p].dirty THEN proc' = Dirtied(P, c) /\ Outdated(c)
                      ELSE proc' = P /\ UNCHANGED fresh
  /\ UNCHANGED <<cert, risk, waiver, ops>>

\* Mutant: waived findings count.
scoreFromFindings_Waived(rows) == Max0({ScoreSeverity[f.sev] : f \in rows})
scoreFromFindings(rows) == Max0({ScoreSeverity[f.sev] : f \in {g \in rows : ~g.waived}})

ListOpenFindings(p) ==
  /\ proc[p].pc = "list"
  /\ proc' = [proc EXCEPT ![p].pc = "risk", ![p].score = scoreFromFindings(Open(proc[p].cert))]
  /\ UNCHANGED <<cert, risk, finding, waiver, ops, fresh>>

\* UpdateCertificateRisk, not found when the certificate is gone; the read of
\* the certificate that follows may fail as well.
UpdateCertificateRisk(p) ==
  LET c == proc[p].cert
      P == [proc EXCEPT ![p] = IF @.queue = {} THEN Idle
                               ELSE [Idle EXCEPT !.pc = "next", !.queue = proc[p].queue]] IN
  /\ proc[p].pc = "risk"
  /\ IF ~Alive(c) THEN Rollback(p) /\ UNCHANGED <<risk, fresh, ops>>
     ELSE /\ risk' = [risk EXCEPT ![c] = proc[p].score]
          /\ fresh' = [fresh EXCEPT ![c] = ~proc[p].dirty]
          /\ LET D(Q) == IF proc[p].dirty THEN Dirtied(Q, c) ELSE Q IN
             \/ proc' = D(P) /\ UNCHANGED ops
             \/ proc' = D([proc EXCEPT ![p] = Idle]) /\ Op
  /\ UNCHANGED <<cert, finding, waiver>>

\* A statement fails, the request is cancelled, or the 2 minutes after a scan
\* are over.
Fail(p) ==
  /\ proc[p].pc # "idle" /\ Op /\ Rollback(p)
  /\ UNCHANGED <<cert, risk, finding, waiver, fresh>>

\* PostgreSQL aborts a transaction of a cycle.
DeadlockVictim(p) ==
  /\ \E S \in SUBSET Procs : p \in S /\ \A q \in S : \E r \in S : WaitsFor(q, r)
  /\ Rollback(p)
  /\ UNCHANGED <<cert, risk, finding, waiver, ops, fresh>>

-----------------------------------------------------------------------------
(* What changes the inputs without a recompute.                            *)

Changed(c, row) ==
  /\ cert' = [cert EXCEPT ![c] = row] /\ cert' # cert
  /\ proc' = Dirtied(proc, c) /\ Outdated(c)
  /\ UNCHANGED <<risk, finding, waiver>>

\* Time passes.
Elapse ==
  /\ Op
  /\ \E c \in Certs, h \in Hours :
       Alive(c) /\ h < cert[c].left /\ Changed(c, [cert[c] EXCEPT !.left = h])

\* Another scan, a revocation check or a reconcile pass writes the row.
InventoryWrite ==
  /\ Op
  /\ \E c \in Certs :
       /\ Alive(c)
       /\ \/ Changed(c, [cert[c] EXCEPT !.status = Compute(cert[c].left, ExpiringSoonDays)])
          \/ Changed(c, [cert[c] EXCEPT !.status = "revoked"])
          \/ Changed(c, [cert[c] EXCEPT !.managed = "managed_in_vault"])

WaiverExpires ==
  /\ Op
  /\ \E w \in Wids :
       /\ waiver[w].state = "active" /\ waiver' = [waiver EXCEPT ![w].state = "expired"]
       /\ proc' = Dirtied(proc, waiver[w].cert) /\ Outdated(waiver[w].cert)
  /\ UNCHANGED <<cert, risk, finding>>

\* DeleteCertificate waits for transactions that lock its findings; findings
\* and waivers go with it.
DeleteCertificate ==
  /\ Op
  /\ \E c \in Certs :
       /\ Alive(c) /\ \A q \in Procs : proc[q].cert = c => Held(q) = {}
       /\ cert' = [cert EXCEPT ![c] = NULL]
       /\ risk' = [risk EXCEPT ![c] = 0] /\ finding' = [finding EXCEPT ![c] = {}]
       /\ waiver' = [w \in Wids |-> IF waiver[w].cert = c
                                    THEN [waiver[w] EXCEPT !.state = "revoked"] ELSE waiver[w]]
       /\ proc' = Dirtied(proc, c) /\ Outdated(c)

Recompute(p) ==
  \/ ReadCert(p) \/ ReadWaiver(p) \/ UpsertFinding(p) \/ StartResolve(p) \/ ResolveFinding(p)
  \/ Commit(p) \/ ListOpenFindings(p) \/ UpdateCertificateRisk(p) \/ DeadlockVictim(p)

Next ==
  \/ \E p \in Procs : \/ CreateWaiver(p) \/ RevokeWaiver(p) \/ UpdateCertificateEnrichment(p)
                      \/ RecomputeScan(p) \/ Recompute(p) \/ Fail(p)
  \/ Elapse \/ InventoryWrite \/ WaiverExpires \/ DeleteCertificate

Spec == Init /\ [][Next]_vars
\* A goroutine goes on, PostgreSQL resolves deadlocks, and it queues those who
\* wait for a row: strong fairness.
FairSpec == Spec /\ \A p \in Procs : SF_vars(Recompute(p))

-----------------------------------------------------------------------------
(* Properties.                                                             *)

\* The score is the maximum over the open findings that are not waived
\* (internal/compliance/severity.go), once a recompute has ended whose inputs
\* nobody changed meanwhile, whatever other recomputes ran beside it.
RiskIsMax ==
  \A c \in Certs : fresh[c] =>
    risk[c] = Max0({ScoreSeverity[f.sev] : f \in {g \in Open(c) : ~g.waived}})

\* The open findings are then exactly what the rules say of the certificate,
\* each waived if and only if a waiver is in force: no finding of an earlier
\* state is left open, and no waiver is missed.
FindingsMatch ==
  \A c \in Certs : fresh[c] =>
    {<<f.rule, f.sev, f.waived>> : f \in Open(c)} =
    {<<f.rule, MapPackSeverity(f.pack, f.sev),
       ActiveWaiver(c, f.rule, {w \in Wids : waiver[w].state = "expired"})>> :
         f \in Range(EvaluateCertAll(cert[c]))}

\* An expiry the inventory knows of (the stored status is up to date) is
\* reported by exactly one open finding above info, SC-081's or the
\* operational one: neither twice nor not at all.
ExpiryReportedOnce ==
  \A c \in Certs :
    fresh[c] /\ cert[c].status = Compute(cert[c].left, ExpiringSoonDays) /\ cert[c].status # "valid"
      => Cardinality({f \in Open(c) : /\ f.rule \in ExpiryRules \cup {"ops.expired", "ops.expiring_soon"}
                                      /\ f.sev # "info"}) = 1

\* Every recompute ends, two that lock each other's findings included.
RecomputesEnd == \A p \in Procs : proc[p].pc # "idle" ~> proc[p].pc = "idle"

=============================================================================
