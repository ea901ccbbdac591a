------------------------- MODULE CertificateInventory -------------------------
(***************************************************************************)
(* The inventory: the certificates and issuers tables                      *)
(* (internal/store/store.go, internal/store/certificates.go) and everyone  *)
(* who writes them: probes and collectors through UpsertCertificate, the   *)
(* revocation check, Vault reconcile, catalog import, CA import and        *)
(* deletion (internal/api, internal/vault, internal/revocation).           *)
(*                                                                         *)
(* One action is one SQL statement (or transaction) or one call to Vault   *)
(* or to a revocation responder.  A certificate is known by its            *)
(* fingerprint; deleting its row and inserting it again gives a new id.    *)
(***************************************************************************)
EXTENDS Integers, FiniteSets

CONSTANTS
  Certs,      \* fingerprints
  Mounts,     \* PKI mounts of Vault
  Writers,    \* probes and collector items in hand at a time
  NULL,       \* SQL NULL
  MaxRows,    \* bound: rows inserted for one fingerprint
  MaxOps      \* bound: requests, outside events and faults

ASSUME InventoryNumbers ==
  MaxRows \in Nat \ {0} /\ MaxOps \in Nat
ASSUME InventoryNull ==
  /\ NULL \notin Certs /\ NULL \notin Mounts /\ NULL \notin Int
  /\ NULL \notin {"", "id", "ok", "partial", "failed", "in_vault", "via_check"}

VARIABLES
  cert,     \* the certificates table
  born,     \* per fingerprint: rows inserted so far
  issuer,   \* the issuers table: the row of the issuing CA, and whether
            \* another CA with a common name of its DN is stored
  age,      \* the time: what lifecycle.Compute says of the certificate now
  revoked,  \* certificates their CA has revoked
  pki,      \* Vault: what each mount holds of each certificate
  vaultCA,  \* Vault: the issuing CA has been imported
  up,       \* per writer: the upsert under way, with what it has read
  check,    \* the revocation check request
  rec,      \* the reconcile pass
  catalog,  \* the catalog import request
  import,   \* the CA import request
  ops,      \* requests, outside events and faults (failed statements and calls) so far
  events,   \* outbox: events appended, by kind, certificate and row id
  hist      \* history for the properties

world == <<age, revoked, pki>>
requests == <<check, rec, catalog, import>>
vars == <<cert, born, issuer, world, vaultCA, up, requests, ops, events, hist>>

Status == {"valid", "expiring_soon", "expired", "revoked"}
Row == [id : 0 .. MaxRows, status : Status,
        rev : {NULL, "in_vault", "via_check"},
        managed : {"unmanaged", "imported", "managed_in_vault"}, cfg : BOOLEAN]
RowKey == Certs \X (0 .. MaxRows)
Rank == [discovered |-> 1, blind_spot |-> 2, expiring |-> 3, revoked |-> 4]
Events == (DOMAIN Rank) \X Certs \X (1 .. MaxRows)

Upsert == [pc : {"idle", "lookup", "insert", "observe", "events", "staple", "issuer"},
           cert : Certs \cup {NULL}, status : Status, old : 0 .. MaxRows, prev : Status,
           id : 0 .. MaxRows, staple : BOOLEAN]

TypeOK ==
  /\ cert \in [Certs -> Row]
  /\ born \in [Certs -> 0 .. MaxRows]
  /\ \A c \in Certs : cert[c].id \in {0, born[c]}
  /\ issuer \in [in : BOOLEAN, ref : {NULL, "", "id"}, other : BOOLEAN]
  /\ age \in [Certs -> Status \ {"revoked"}]
  /\ revoked \subseteq Certs
  /\ pki \in [Mounts -> [Certs -> {"none", "issued", "revoked"}]]
  /\ vaultCA \in BOOLEAN
  /\ up \in [Writers -> Upsert]
  /\ check \in [pc : {"idle", "issuer", "ask", "mark"}, cert : Certs \cup {NULL},
                id : 0 .. MaxRows, known : {"none", "own", "other"}]
  /\ rec \in [pc : {"idle", "list", "read", "update"}, mounts : SUBSET Mounts,
              mount : Mounts \cup {NULL}, serials : SUBSET Certs,
              cur : Certs \cup {NULL}, rev : BOOLEAN, read : BOOLEAN, errs : BOOLEAN,
              status : {NULL, "ok", "partial", "failed"}, base : SUBSET RowKey]
  /\ catalog \in [pc : {"idle", "config"}, cert : Certs \cup {NULL}, id : 0 .. MaxRows]
  /\ import \in [pc : {"idle", "bundle", "record"}, ref : {"", "id"}, live : BOOLEAN]
  /\ ops \in 0 .. MaxOps
  /\ events \subseteq Events
  /\ hist \in [verified : SUBSET RowKey, vaultSaid : SUBSET RowKey]

NoRow == [id |-> 0, status |-> "valid", rev |-> NULL, managed |-> "unmanaged", cfg |-> FALSE]
NoUpsert == [pc |-> "idle", cert |-> NULL, status |-> "valid", old |-> 0,
             prev |-> "valid", id |-> 0, staple |-> FALSE]
NoCheck == [pc |-> "idle", cert |-> NULL, id |-> 0, known |-> "none"]
NoPass == [pc |-> "idle", mounts |-> {}, mount |-> NULL, serials |-> {}, cur |-> NULL,
           rev |-> FALSE, read |-> FALSE, errs |-> FALSE, status |-> NULL, base |-> {}]
NoCatalog == [pc |-> "idle", cert |-> NULL, id |-> 0]
NoImport == [pc |-> "idle", ref |-> "", live |-> TRUE]

Init ==
  /\ cert = [c \in Certs |-> NoRow] /\ born = [c \in Certs |-> 0]
  /\ issuer = [in |-> FALSE, ref |-> NULL, other |-> FALSE]
  /\ age \in [Certs -> {"valid", "expiring_soon"}] /\ revoked = {}
  /\ pki \in [Mounts -> [Certs -> {"none", "issued"}]]
  /\ vaultCA = FALSE /\ up = [w \in Writers |-> NoUpsert]
  /\ check = NoCheck /\ rec = NoPass /\ catalog = NoCatalog /\ import = NoImport
  /\ ops = 0 /\ events = {}
  /\ hist = [verified |-> {}, vaultSaid |-> {}]

-----------------------------------------------------------------------------
(* Helpers.                                                                *)

Op == ops < MaxOps /\ ops' = ops + 1
Fault == Op
NoFault == UNCHANGED ops
Exists(c) == cert[c].id # 0
Key(c) == <<c, cert[c].id>>
\* A row addressed by the id read earlier: gone once it has been deleted.
HasId(c, id) == id # 0 /\ cert[c].id = id

-----------------------------------------------------------------------------
(* Statements on the certificates table.                                   *)

\* ON CONFLICT (fingerprint_sha256): a row with a revocation marker keeps its
\* status, any other takes the one computed from the certificate.
KeptStatus(row, status) == IF row.rev \in {"in_vault", "via_check"} THEN row.status ELSE status

\* Mutant: a new row takes an id that is not counted.
InsertCertificate_NotCounted(c, status) ==
  /\ cert' = [cert EXCEPT ![c] = [NoRow EXCEPT !.id = born[c] + 1, !.status = status]]
  /\ UNCHANGED born

\* INSERT INTO certificates ... ON CONFLICT DO UPDATE.
InsertCertificate(c, status) ==
  IF Exists(c)
  THEN /\ cert' = [cert EXCEPT ![c].status = KeptStatus(cert[c], status)]
       /\ UNCHANGED born
  ELSE /\ born' = [born EXCEPT ![c] = @ + 1]
       /\ cert' = [cert EXCEPT ![c] = [NoRow EXCEPT !.id = born[c] + 1, !.status = status]]

\* emitDiscoveryCatalogueEvents: by what the lookup before the INSERT returned.
CatalogueEvents(c, id, existed, prev, status) ==
  {e \in Events : /\ e[2] = c /\ e[3] = id
                  /\ \/ e[1] \in {"discovered", "blind_spot"} /\ ~existed
                     \/ /\ e[1] = "expiring" /\ status = "expiring_soon"
                        /\ ~existed \/ prev # "expiring_soon"}
\* They are appended one by one, in this order, until one fails.
Prefixes(S) == {T \in SUBSET S : \A e \in T, f \in S : Rank[f[1]] < Rank[e[1]] => f \in T}

\* MarkRevoked: row and event in one transaction; not found without the row.
MarkRevoked(c, id) ==
  IF HasId(c, id)
  THEN /\ cert' = [cert EXCEPT ![c].status = "revoked", ![c].rev = "via_check"]
       /\ events' = events \cup {<<"revoked", c, id>>}
       /\ hist' = [hist EXCEPT !.verified = @ \cup {<<c, id>>}]
  ELSE UNCHANGED <<cert, events, hist>>

\* Mutant: a certificate Vault holds unrevoked loses every marker.
ReconciledRow_ClearsAll(row, rev) ==
  [row EXCEPT !.managed = "managed_in_vault",
              !.status = IF rev THEN "revoked" ELSE @,
              !.rev = IF rev THEN "in_vault" ELSE NULL]

\* UpdateManagedStatusByFingerprint: only reconcile's own marker is cleared.
ReconciledRow(row, rev) ==
  [row EXCEPT !.managed = "managed_in_vault",
              !.status = IF rev THEN "revoked" ELSE @,
              !.rev = IF rev THEN "in_vault" ELSE IF @ = "in_vault" THEN NULL ELSE @]
UpdateManagedStatus(c, rev) ==
  /\ cert' = IF Exists(c) THEN [cert EXCEPT ![c] = ReconciledRow(@, rev)] ELSE cert
  /\ hist' = IF Exists(c) /\ rev THEN [hist EXCEPT !.vaultSaid = @ \cup {Key(c)}] ELSE hist

\* SetManagedStatus: WHERE managed_status <> 'managed_in_vault'.
Importable(c) == Exists(c) /\ cert[c].managed # "managed_in_vault"

-----------------------------------------------------------------------------
(* A probe or a collector item: UpsertCertificate, statement by statement,  *)
(* and what a probe does after it.                                         *)

Others == <<world, vaultCA, requests>>
Goto(w, pc) == up' = [up EXCEPT ![w].pc = pc]
Return(w) == up' = [up EXCEPT ![w] = NoUpsert]

\* A certificate is presented, with a verified stapled OCSP answer or not (a
\* collector has none); its status is computed first of all.
StartUpsert(w) ==
  /\ up[w].pc = "idle"
  /\ \E c \in Certs, staple \in BOOLEAN :
       /\ staple => c \in revoked
       /\ up' = [up EXCEPT ![w] = [NoUpsert EXCEPT !.pc = "lookup", !.cert = c,
                                                  !.status = age[c], !.staple = staple]]
  /\ UNCHANGED <<cert, born, issuer, Others, ops, events, hist>>

\* SELECT id, status: the row, if any, as of now.
Lookup(w) ==
  LET c == up[w].cert IN
  /\ up[w].pc = "lookup"
  /\ \/ /\ up' = [up EXCEPT ![w].pc = "insert", ![w].old = cert[c].id,
                            ![w].prev = cert[c].status]
        /\ NoFault
     \/ Return(w) /\ Fault
  /\ UNCHANGED <<cert, born, issuer, Others, events, hist>>

\* INSERT ... ON CONFLICT.  When the row found by the lookup was deleted since,
\* the upsert writes a new row it believes to be the old: it does not announce it.
Insert(w) ==
  LET c == up[w].cert
      id == IF Exists(c) THEN cert[c].id ELSE born[c] + 1 IN
  /\ up[w].pc = "insert"
  /\ \/ /\ InsertCertificate(c, up[w].status)
        /\ up' = [up EXCEPT ![w].pc = "observe", ![w].id = id]
        /\ NoFault
     \/ Return(w) /\ UNCHANGED <<cert, born>> /\ Fault
  /\ UNCHANGED <<issuer, Others, events, hist>>

\* INSERT INTO certificate_observations: refused when the certificate was
\* deleted (foreign key), or the scan (as good as a fault); the upsert then
\* ends without its events.
Observe(w) ==
  LET there == HasId(up[w].cert, up[w].id) IN
  /\ up[w].pc = "observe"
  /\ \/ there /\ Goto(w, "events") /\ NoFault
     \/ Return(w) /\ (IF there THEN Fault ELSE NoFault)
  /\ UNCHANGED <<cert, born, issuer, Others, events, hist>>

\* emitDiscoveryCatalogueEvents goes by what the lookup returned.  The foreign
\* key of events.certificate_id refuses the first append once the row is gone.
EmitEvents(w) ==
  LET c == up[w].cert
      S == CatalogueEvents(c, up[w].id, up[w].old # 0, up[w].prev, up[w].status)
      there == HasId(c, up[w].id) IN
  /\ up[w].pc = "events"
  /\ \/ /\ there \/ S = {}
        /\ events' = events \cup S /\ Goto(w, "staple") /\ NoFault
     \/ /\ ~there /\ S # {}
        /\ UNCHANGED events /\ Return(w) /\ NoFault
     \/ /\ there /\ \E T \in Prefixes(S) \ {S} : events' = events \cup T
        /\ Return(w) /\ Fault
  /\ UNCHANGED <<cert, born, issuer, Others, hist>>

\* A verified stapled answer is recorded; an error is only logged.
Staple(w) ==
  /\ up[w].pc = "staple" /\ Goto(w, "issuer")
  /\ \/ up[w].staple /\ MarkRevoked(up[w].cert, up[w].id) /\ NoFault
     \/ UNCHANGED <<cert, events, hist>> /\ (IF up[w].staple THEN Fault ELSE NoFault)
  /\ UNCHANGED <<born, issuer, Others>>

\* UpsertIssuer for every CA of the chain that was presented, be it the one
\* that signed the leaf or not; an error is only logged.
UpsertIssuer(w) ==
  /\ up[w].pc = "issuer" /\ Return(w)
  /\ issuer' \in {issuer, [issuer EXCEPT !.in = TRUE], [issuer EXCEPT !.other = TRUE],
                  [issuer EXCEPT !.in = TRUE, !.other = TRUE]}
  /\ UNCHANGED <<cert, born, Others, ops, events, hist>>

-----------------------------------------------------------------------------
(* handleRevocationCheck.                                                  *)

\* CheckOCSP asks only with a known issuer and returns only what it verified;
\* CheckCRL reports what the first CRL says, verified or not.  Neither checks
\* that the known issuer signed the leaf.  What the leaf's own CA signed is
\* true of the leaf, though possibly old; what another CA of that name signed
\* is about its own certificate with that serial, and an unverified CRL may
\* say anything.
Results == [status : {"good", "revoked", "unknown"}, verified : BOOLEAN]
CheckOCSP(c, known) ==
  {r \in Results : /\ r.verified => known # "none"
                   /\ r.status # "unknown" => r.verified
                   /\ r.status = "revoked" /\ known = "own" => c \in revoked}
CheckCRL(c, known) ==
  {r \in Results : /\ r.verified => known # "none" /\ r.status # "unknown"
                   /\ r.verified /\ r.status = "revoked" /\ known = "own" => c \in revoked}
Check(c, known) == {r \in CheckOCSP(c, known) : r.status # "unknown"} \cup CheckCRL(c, known)

Recorded(r) == r.status = "revoked" /\ r.verified

CheckRead ==
  /\ check.pc = "idle" /\ Op
  /\ \E c \in Certs : /\ Exists(c)
                      /\ check' = [NoCheck EXCEPT !.pc = "issuer", !.cert = c, !.id = cert[c].id]
  /\ UNCHANGED <<cert, born, issuer, world, vaultCA, up, rec, catalog, import, events, hist>>

\* GetIssuerPEMForCert: of the stored CAs whose common name occurs in the
\* leaf's issuer DN the one with the latest not_after, whichever that is.
Candidates == {k \in {"own", "other"} : IF k = "own" THEN issuer.in ELSE issuer.other}
GetIssuerPEMForCert == IF Candidates = {} THEN {"none"} ELSE Candidates
CheckIssuer ==
  /\ check.pc = "issuer"
  /\ \/ /\ \E known \in GetIssuerPEMForCert :
             check' = [check EXCEPT !.pc = "ask", !.known = known]
        /\ NoFault
     \/ check' = NoCheck /\ Fault
  /\ UNCHANGED <<cert, born, issuer, world, vaultCA, up, rec, catalog, import, events, hist>>

CheckAsk ==
  /\ check.pc = "ask"
  /\ \E r \in Check(check.cert, check.known) :
       check' = IF Recorded(r) THEN [check EXCEPT !.pc = "mark"] ELSE NoCheck
  /\ UNCHANGED <<cert, born, issuer, world, vaultCA, up, rec, catalog, import, ops, events, hist>>

CheckMark ==
  /\ check.pc = "mark" /\ check' = NoCheck
  /\ \/ MarkRevoked(check.cert, check.id) /\ NoFault
     \/ UNCHANGED <<cert, events, hist>> /\ Fault
  /\ UNCHANGED <<born, issuer, world, vaultCA, up, rec, catalog, import>>

-----------------------------------------------------------------------------
(* Reconcile: mount by mount, certificate by certificate.                  *)

\* Mutant: a run that read something counts as complete.
reconcileStatus_ReadIsOk(read, errs) == IF read \/ ~errs THEN "ok" ELSE "failed"
reconcileStatus(read, errs) ==
  IF ~errs THEN "ok" ELSE IF ~read THEN "failed" ELSE "partial"

\* ListPKIMounts; an error ends the pass.  base: the rows this pass owes.
StartReconcile ==
  /\ rec.pc = "idle" /\ Op
  /\ \/ rec' = [NoPass EXCEPT !.pc = "list", !.mounts = Mounts,
                     !.base = {Key(c) : c \in {d \in Certs :
                                 Exists(d) /\ \E m \in Mounts : pki[m][d] # "none"}}]
     \/ rec' = NoPass
  /\ UNCHANGED <<cert, born, issuer, world, vaultCA, up, check, catalog, import, events, hist>>

ListCertSerials ==
  /\ rec.pc = "list" /\ rec.serials = {}
  /\ \E m \in rec.mounts :
       \/ rec' = [rec EXCEPT !.mounts = @ \ {m}, !.mount = m,
                    !.serials = {c \in Certs : pki[m][c] # "none"}] /\ NoFault
       \/ rec' = [rec EXCEPT !.mounts = @ \ {m}, !.errs = TRUE] /\ Fault
  /\ UNCHANGED <<cert, born, issuer, world, vaultCA, up, check, catalog, import, events, hist>>

\* ReadCert of the next serial; one that was tidied meanwhile is an error.
ReadCert ==
  /\ rec.pc = "list"
  /\ \E c \in rec.serials :
       \/ /\ pki[rec.mount][c] # "none" /\ NoFault
          /\ rec' = [rec EXCEPT !.pc = "update", !.serials = @ \ {c}, !.cur = c,
                       !.rev = pki[rec.mount][c] = "revoked", !.read = TRUE]
       \/ /\ rec' = [rec EXCEPT !.serials = @ \ {c}, !.errs = TRUE]
          /\ IF pki[rec.mount][c] = "none" THEN NoFault ELSE Fault
  /\ UNCHANGED <<cert, born, issuer, world, vaultCA, up, check, catalog, import, events, hist>>

ReconcileUpdate ==
  /\ rec.pc = "update"
  /\ \/ UpdateManagedStatus(rec.cur, rec.rev) /\ NoFault
        /\ rec' = [rec EXCEPT !.pc = "list", !.cur = NULL, !.rev = FALSE]
     \/ UNCHANGED <<cert, hist>> /\ Fault
        /\ rec' = [rec EXCEPT !.pc = "list", !.cur = NULL, !.rev = FALSE, !.errs = TRUE]
  /\ UNCHANGED <<born, issuer, world, vaultCA, up, check, catalog, import, events>>

\* CountByManagedStatus, then the status of the pass; an error leaves none.
EndReconcile ==
  /\ rec.pc = "list" /\ rec.mounts = {} /\ rec.serials = {}
  /\ \/ rec' = [NoPass EXCEPT !.status = reconcileStatus(rec.read, rec.errs),
                              !.base = rec.base] /\ NoFault
     \/ rec' = NoPass /\ Fault
  /\ UNCHANGED <<cert, born, issuer, world, vaultCA, up, check, catalog, import, events, hist>>

-----------------------------------------------------------------------------
(* handleCatalogImport.                                                    *)

\* SetManagedStatus; the renewal config is validated after it, so a bad one
\* is refused with the row already imported.
CatalogSet ==
  /\ catalog.pc = "idle" /\ Op
  /\ \E c \in Certs :
       /\ Importable(c)
       /\ cert' = [cert EXCEPT ![c].managed = "imported"]
       /\ catalog' \in {NoCatalog, [pc |-> "config", cert |-> c, id |-> cert[c].id]}
  /\ UNCHANGED <<born, issuer, world, vaultCA, up, check, rec, import, events, hist>>

SetRenewalConfig ==
  /\ catalog.pc = "config" /\ catalog' = NoCatalog
  /\ \/ /\ cert' = IF HasId(catalog.cert, catalog.id)
                   THEN [cert EXCEPT ![catalog.cert].cfg = TRUE] ELSE cert
        /\ NoFault
     \/ UNCHANGED cert /\ Fault
  /\ UNCHANGED <<born, issuer, world, vaultCA, up, check, rec, import, events, hist>>

-----------------------------------------------------------------------------
(* handleImportIssuer.                                                     *)

\* Mutant: the import is recorded before Vault has it.
ImportRead_RecordsFirst ==
  /\ import.pc = "idle" /\ issuer.in /\ Op
  /\ import' = [NoImport EXCEPT !.pc = "record", !.ref = "id"]
  /\ UNCHANGED <<cert, born, issuer, world, vaultCA, up, check, rec, catalog, events, hist>>

ImportRead ==
  /\ import.pc = "idle" /\ issuer.in /\ Op
  /\ import' = [NoImport EXCEPT !.pc = "bundle"]
  /\ UNCHANGED <<cert, born, issuer, world, vaultCA, up, check, rec, catalog, events, hist>>

\* Vault names the issuer only when it is new to the mount (firstIssuerRef
\* is empty otherwise); a lost answer leaves it imported and unrecorded.
ImportIssuerBundle ==
  /\ import.pc = "bundle"
  /\ \/ /\ vaultCA' = TRUE /\ NoFault
        /\ import' = [import EXCEPT !.pc = "record", !.ref = IF vaultCA THEN "" ELSE "id"]
     \/ vaultCA' \in {vaultCA, TRUE} /\ import' = NoImport /\ Fault
  /\ UNCHANGED <<cert, born, issuer, world, up, check, rec, catalog, events, hist>>

SetIssuerVaultRef ==
  /\ import.pc = "record" /\ import' = NoImport
  /\ \/ /\ issuer' = IF import.live THEN [issuer EXCEPT !.ref = import.ref] ELSE issuer
        /\ NoFault
     \/ UNCHANGED issuer /\ Fault
  /\ UNCHANGED <<cert, born, world, vaultCA, up, check, rec, catalog, events, hist>>

-----------------------------------------------------------------------------
(* Deletions, and what happens outside.                                    *)

DeleteCertificate ==
  /\ Op
  /\ \E c \in Certs : /\ Exists(c) /\ born[c] < MaxRows
                      /\ cert' = [cert EXCEPT ![c] = NoRow]
  /\ UNCHANGED <<born, issuer, world, vaultCA, up, requests, events, hist>>

DeleteIssuer ==
  /\ Op
  /\ \/ /\ issuer.in /\ issuer' = [issuer EXCEPT !.in = FALSE, !.ref = NULL]
        /\ import' = [import EXCEPT !.live = import.pc = "idle"]   \* the row it read is gone
     \/ issuer.other /\ issuer' = [issuer EXCEPT !.other = FALSE] /\ UNCHANGED import
  /\ UNCHANGED <<cert, born, world, vaultCA, up, check, rec, catalog, events, hist>>

\* lifecycle.Compute as time passes.
Later == [valid |-> "expiring_soon", expiring_soon |-> "expired"]
Elapse ==
  /\ Op
  /\ \E c \in Certs : age[c] # "expired" /\ age' = [age EXCEPT ![c] = Later[@]]
  /\ UNCHANGED <<cert, born, issuer, revoked, pki, vaultCA, up, requests, events, hist>>

\* A CA outside Vault revokes.
RevokeAtCA ==
  /\ Op
  /\ \E c \in Certs \ revoked : revoked' = revoked \cup {c}
  /\ UNCHANGED <<cert, born, issuer, age, pki, vaultCA, up, requests, events, hist>>

\* A mount of Vault revokes.
RevokeInVault ==
  /\ Op
  /\ \E m \in Mounts, c \in Certs :
       /\ pki[m][c] = "issued" /\ pki' = [pki EXCEPT ![m][c] = "revoked"]
       /\ revoked' = revoked \cup {c}
  /\ UNCHANGED <<cert, born, issuer, age, vaultCA, up, requests, events, hist>>

\* A mount of Vault is tidied; the pass no longer owes what is gone.
Tidy ==
  /\ Op
  /\ \E m \in Mounts, c \in Certs :
       /\ pki[m][c] # "none" /\ pki' = [pki EXCEPT ![m][c] = "none"]
       /\ rec' = [rec EXCEPT !.base = {k \in @ : k[1] # c}]
  /\ UNCHANGED <<cert, born, issuer, age, revoked, vaultCA, up, check, catalog, import,
                 events, hist>>

\* Steps of UpsertCertificate and of its caller.
UpsertStep(w) ==
  \/ StartUpsert(w) \/ Lookup(w) \/ Insert(w) \/ Observe(w) \/ EmitEvents(w)
  \/ Staple(w) \/ UpsertIssuer(w)

Next ==
  \/ \E w \in Writers : UpsertStep(w)
  \/ CheckRead \/ CheckIssuer \/ CheckAsk \/ CheckMark
  \/ StartReconcile \/ ListCertSerials \/ ReadCert \/ ReconcileUpdate \/ EndReconcile
  \/ CatalogSet \/ SetRenewalConfig
  \/ ImportRead \/ ImportIssuerBundle \/ SetIssuerVaultRef
  \/ DeleteCertificate \/ DeleteIssuer
  \/ Elapse \/ RevokeAtCA \/ RevokeInVault \/ Tidy

Spec == Init /\ [][Next]_vars

-----------------------------------------------------------------------------
(* Properties.                                                             *)

\* A revocation that was verified (OCSP, CRL or staple) stays on the row,
\* status and marker, whatever scans and reconcile passes write after it,
\* unless a mount of Vault also said revoked: then the row carries Vault's
\* marker, which another mount may clear.
VerifiedRevocationSticks ==
  \A k \in hist.verified \ hist.vaultSaid :
    HasId(k[1], k[2]) => cert[k[1]].rev = "via_check" /\ cert[k[1]].status = "revoked"

\* A reconcile pass that answers ok has marked every certificate that was in
\* the inventory and in Vault when it began, and no catalog import undid it.
OkPassIsComplete ==
  rec.pc = "idle" /\ rec.status = "ok" =>
    \A k \in rec.base : HasId(k[1], k[2]) => cert[k[1]].managed = "managed_in_vault"

\* An issuer is recorded as imported only when Vault has it.
ImportedIsInVault == issuer.ref # NULL => vaultCA

-----------------------------------------------------------------------------
(* What the repository says of the program and the program does not do.    *)

\* "verified 'revoked' is authoritative" (OCSP design), an answer "is for this
\* leaf" (ocsp.go): a certificate is shown as revoked only if its CA, or a
\* Vault mount that holds it, has revoked it.
RevokedIsReal == \A c \in Certs : cert[c].status = "revoked" => c \in revoked

=============================================================================
