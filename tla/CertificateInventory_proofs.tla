---------------------- MODULE CertificateInventory_proofs ----------------------
(***************************************************************************)
(* Proofs about the inventory, for any certificates, mounts, writers and   *)
(* bounds.                                                                 *)
(*                                                                         *)
(* The invariant (IInv) has one part per piece of state: what a writer or  *)
(* a request carries is of the table's types, verified revocations are of  *)
(* rows that have been inserted, and what a reconcile pass owes is what is *)
(* left of its mounts and serials.                                         *)
(***************************************************************************)
EXTENDS CertificateInventory, TLAPS

CheckSet == [pc : {"idle", "issuer", "ask", "mark"}, cert : Certs \cup {NULL},
             id : 0 .. MaxRows, known : {"none", "own", "other"}]
PassSet == [pc : {"idle", "list", "read", "update"}, mounts : SUBSET Mounts,
            mount : Mounts \cup {NULL}, serials : SUBSET Certs,
            cur : Certs \cup {NULL}, rev : BOOLEAN, read : BOOLEAN, errs : BOOLEAN,
            status : {NULL, "ok", "partial", "failed"}, base : SUBSET RowKey]
CatalogRequest == [pc : {"idle", "config"}, cert : Certs \cup {NULL}, id : 0 .. MaxRows]
ImportRequest == [pc : {"idle", "bundle", "record"}, ref : {"", "id"}, live : BOOLEAN]
HistSet == [verified : SUBSET RowKey, vaultSaid : SUBSET RowKey]

\* The table: rows carry the last id counted; a fingerprint without a row can
\* still get one.
TabP ==
  /\ cert \in [Certs -> Row] /\ born \in [Certs -> 0 .. MaxRows]
  /\ \A c \in Certs : cert[c].id \in {0, born[c]} /\ (cert[c].id = 0 => born[c] < MaxRows)

\* A writer knows its certificate, and never computes the status revoked.
UpOK(x) ==
  /\ x \in Upsert
  /\ x.pc # "idle" => x.cert \in Certs
  /\ x.pc \in {"observe", "events"} => x.id # 0
  /\ x.status # "revoked"
UpP == up \in [Writers -> Upsert] /\ \A w \in Writers : UpOK(up[w])

\* So do a revocation check
CheckP == check \in CheckSet /\ (check.pc # "idle" => check.cert \in Certs)

\* and a reconcile pass.
RecP ==
  /\ rec \in PassSet
  /\ rec.pc = "update" => rec.cur \in Certs
  /\ rec.serials # {} => rec.mount \in Mounts
  /\ rec.pc = "idle" => rec.mounts = {} /\ rec.serials = {} /\ rec.errs = FALSE
  /\ rec.pc # "idle" => rec.status = NULL
  /\ rec.pc # "update" => rec.cur = NULL

CatP == catalog \in CatalogRequest /\ (catalog.pc # "idle" => catalog.cert \in Certs)

\* Vault has the issuer once an import is about to be recorded.
IssP ==
  /\ issuer \in [in : BOOLEAN, ref : {NULL, "", "id"}, other : BOOLEAN] /\ vaultCA \in BOOLEAN
  /\ import \in ImportRequest
  /\ import.pc = "record" => vaultCA
  /\ ImportedIsInVault

WorldP ==
  /\ age \in [Certs -> Status \ {"revoked"}] /\ revoked \subseteq Certs
  /\ pki \in [Mounts -> [Certs -> {"none", "issued", "revoked"}]]

RestP == ops \in 0 .. MaxOps /\ events \subseteq Events /\ hist \in HistSet

\* Verified revocations are of rows that have been inserted.
Sticks == VerifiedRevocationSticks /\ \A k \in hist.verified : k[2] <= born[k[1]]

\* What a pass without errors has still to read.
Owed(c) == (\E m \in rec.mounts : pki[m][c] # "none") \/ c \in rec.serials \/ rec.cur = c
Owing ==
  /\ \A k \in rec.base : k[2] <= born[k[1]]
  /\ rec.errs = FALSE /\ rec.status \in {NULL, "ok"} =>
       \A k \in rec.base : HasId(k[1], k[2]) =>
         cert[k[1]].managed = "managed_in_vault" \/ Owed(k[1])

IInv == /\ TabP /\ UpP /\ CheckP /\ RecP /\ CatP /\ IssP /\ WorldP /\ RestP
        /\ Sticks /\ Owing

LEMMA Numbers == MaxRows \in Nat /\ MaxRows > 0 /\ MaxOps \in Nat
  BY InventoryNumbers

LEMMA Nulls == /\ NULL \notin Certs /\ NULL \notin Mounts
               /\ NULL \notin {"", "id", "ok", "partial", "failed", "in_vault", "via_check"}
  BY InventoryNull

-----------------------------------------------------------------------------
(* The records the tables and requests begin with.                         *)

LEMMA NoRowOK == /\ NoRow \in Row /\ NoRow.id = 0 /\ NoRow.status = "valid" /\ NoRow.rev = NULL
                 /\ NoRow.managed = "unmanaged"
  BY Numbers DEF NoRow, Row, Status

LEMMA NoUpsertOK == UpOK(NoUpsert) /\ NoUpsert \in Upsert /\ NoUpsert.pc = "idle"
                      /\ NoUpsert.old = 0 /\ NoUpsert.id = 0
  BY Numbers DEF NoUpsert, Upsert, Status, UpOK

LEMMA NoRequestOK ==
  /\ NoCheck \in CheckSet /\ NoCheck.pc = "idle"
  /\ NoPass \in PassSet /\ NoPass.pc = "idle" /\ NoPass.serials = {} /\ NoPass.mounts = {}
  /\ NoPass.status = NULL /\ NoPass.base = {} /\ NoPass.errs = FALSE /\ NoPass.rev = FALSE
  /\ NoPass.cur = NULL /\ NoPass.read = FALSE
  /\ NoCatalog \in CatalogRequest /\ NoCatalog.pc = "idle"
  /\ NoImport \in ImportRequest /\ NoImport.pc = "idle"
<1>1. NoCheck \in CheckSet /\ NoCheck.pc = "idle"
  BY Numbers DEF NoCheck, CheckSet
<1>2. /\ NoPass \in PassSet /\ NoPass.pc = "idle" /\ NoPass.serials = {} /\ NoPass.mounts = {}
      /\ NoPass.status = NULL /\ NoPass.base = {} /\ NoPass.errs = FALSE /\ NoPass.rev = FALSE
      /\ NoPass.cur = NULL /\ NoPass.read = FALSE
  BY DEF NoPass, PassSet
<1>3. NoCatalog \in CatalogRequest /\ NoCatalog.pc = "idle"
  BY Numbers DEF NoCatalog, CatalogRequest
<1>4. NoImport \in ImportRequest /\ NoImport.pc = "idle"
  BY DEF NoImport, ImportRequest
<1> QED BY <1>1, <1>2, <1>3, <1>4

LEMMA IdleParts ==
  /\ check = NoCheck => CheckP
  /\ rec = NoPass => RecP /\ Owing
  /\ catalog = NoCatalog => CatP
<1>1. check = NoCheck => CheckP
  BY NoRequestOK DEF CheckP
<1>2. rec = NoPass => RecP
  BY NoRequestOK DEF RecP
<1>3. rec = NoPass => Owing
  BY NoRequestOK DEF Owing
<1>4. catalog = NoCatalog => CatP
  BY NoRequestOK DEF CatP
<1> QED BY <1>1, <1>2, <1>3, <1>4

\* The parts cover the types.
LEMMA PartsType == IInv => TypeOK
<1> SUFFICES ASSUME IInv PROVE TypeOK
  OBVIOUS
<1>1. TabP /\ UpP /\ CheckP /\ RecP /\ CatP /\ IssP /\ WorldP /\ RestP
  BY DEF IInv
<1>2. /\ cert \in [Certs -> Row] /\ born \in [Certs -> 0 .. MaxRows]
      /\ \A c \in Certs : cert[c].id \in {0, born[c]}
  BY <1>1 DEF TabP
<1>3. check \in CheckSet /\ rec \in PassSet /\ catalog \in CatalogRequest /\ import \in ImportRequest
  BY <1>1 DEF CheckP, RecP, CatP, IssP
<1>4. issuer \in [in : BOOLEAN, ref : {NULL, "", "id"}, other : BOOLEAN] /\ vaultCA \in BOOLEAN
  BY <1>1 DEF IssP
<1>5. /\ age \in [Certs -> Status \ {"revoked"}] /\ revoked \subseteq Certs
      /\ pki \in [Mounts -> [Certs -> {"none", "issued", "revoked"}]]
  BY <1>1 DEF WorldP
<1>6. up \in [Writers -> Upsert] /\ ops \in 0 .. MaxOps /\ events \subseteq Events /\ hist \in HistSet
  BY <1>1 DEF UpP, RestP
<1> QED BY <1>2, <1>3, <1>4, <1>5, <1>6, Zenon DEF TypeOK, CheckSet, PassSet, CatalogRequest,
             ImportRequest, HistSet

LEMMA InitIInv == Init => IInv
<1> SUFFICES ASSUME Init PROVE IInv
  OBVIOUS
<1>1. TabP
  BY Numbers, NoRowOK DEF Init, TabP
<1>2. UpP
  BY NoUpsertOK DEF Init, UpP
<1>3. CheckP /\ RecP /\ CatP /\ Owing
  BY IdleParts DEF Init
<1>4. IssP
  BY NoRequestOK DEF Init, IssP, ImportedIsInVault
<1>5. WorldP
  BY DEF Init, WorldP, Status
<1>6. RestP
  BY Numbers DEF Init, RestP, HistSet
<1>7. Sticks
  BY DEF Init, Sticks, VerifiedRevocationSticks
<1> QED BY <1>1, <1>2, <1>3, <1>4, <1>5, <1>6, <1>7 DEF IInv

-----------------------------------------------------------------------------
(* What a step leaves alone.                                               *)

LEMMA TabFrame == ASSUME TabP, cert' = cert, born' = born PROVE TabP'
  BY DEF TabP
LEMMA UpFrame == ASSUME UpP, up' = up PROVE UpP'
  BY DEF UpP, UpOK
LEMMA CheckFrame == ASSUME CheckP, check' = check PROVE CheckP'
  BY DEF CheckP
LEMMA RecFrame == ASSUME RecP, rec' = rec PROVE RecP'
  BY DEF RecP
LEMMA CatFrame == ASSUME CatP, catalog' = catalog PROVE CatP'
  BY DEF CatP
LEMMA IssFrame ==
  ASSUME IssP, issuer' = issuer, vaultCA' = vaultCA, import' = import PROVE IssP'
  BY DEF IssP, ImportedIsInVault
LEMMA WorldFrame == ASSUME WorldP, age' = age, revoked' = revoked, pki' = pki PROVE WorldP'
  BY DEF WorldP
LEMMA OpOK == ASSUME ops \in 0 .. MaxOps, Op \/ NoFault PROVE ops' \in 0 .. MaxOps
  BY Numbers DEF Op, NoFault

\* Rows keep their id, go, or take the next one.
RowsMove == \A c \in Certs : /\ cert'[c].id \in {0, cert[c].id, born[c] + 1}
                             /\ born'[c] >= born[c]

\* Verified revocations: a row that is kept keeps its marker, or Vault has
\* said so too.
LEMMA StickRows ==
  ASSUME TabP, RestP, Sticks, RestP', RowsMove, born' \in [Certs -> 0 .. MaxRows],
         hist.vaultSaid \subseteq hist'.vaultSaid,
         \A c \in Certs :
           cert'[c].id = cert[c].id /\ cert[c].rev = "via_check" /\ cert[c].status = "revoked" =>
             \/ cert'[c].rev = "via_check" /\ cert'[c].status = "revoked"
             \/ <<c, cert[c].id>> \in hist'.vaultSaid,
         \A k \in hist'.verified :
           \/ k \in hist.verified
           \/ k[2] <= born[k[1]] /\ cert'[k[1]].rev = "via_check" /\ cert'[k[1]].status = "revoked"
  PROVE  Sticks'
<1>1. \A k \in hist.verified \cup hist'.verified :
        k \in RowKey /\ k[1] \in Certs /\ k[2] \in 0 .. MaxRows /\ k = <<k[1], k[2]>>
  BY DEF RestP, HistSet, RowKey
<1>2. born \in [Certs -> 0 .. MaxRows]
  BY DEF TabP
<1>3. \A k \in hist'.verified : k[2] <= born'[k[1]]
  <2> SUFFICES ASSUME NEW k \in hist'.verified PROVE k[2] <= born'[k[1]]
    OBVIOUS
  <2>1. k[2] <= born[k[1]]
    BY DEF Sticks
  <2> QED BY <1>1, <1>2, <2>1 DEF RowsMove
<1>4. VerifiedRevocationSticks'
  <2> SUFFICES ASSUME NEW k \in hist'.verified \ hist'.vaultSaid, k[2] # 0, cert'[k[1]].id = k[2]
               PROVE  cert'[k[1]].rev = "via_check" /\ cert'[k[1]].status = "revoked"
    BY DEF VerifiedRevocationSticks, HasId
  <2>1. CASE k \in hist.verified
    <3>1. k \notin hist.vaultSaid /\ k[2] <= born[k[1]]
      BY <2>1 DEF Sticks
    <3>2. cert[k[1]].id = k[2]
      BY <1>1, <1>2, <3>1 DEF RowsMove
    <3>3. cert[k[1]].rev = "via_check" /\ cert[k[1]].status = "revoked"
      BY <2>1, <3>1, <3>2 DEF Sticks, VerifiedRevocationSticks, HasId
    <3>4. <<k[1], cert[k[1]].id>> \notin hist'.vaultSaid
      BY <1>1, <3>2
    <3> QED BY <1>1, <3>2, <3>3, <3>4
  <2>2. CASE k \notin hist.verified
    BY <2>2
  <2> QED BY <2>1, <2>2
<1> QED BY <1>3, <1>4 DEF Sticks

\* The pass: no step but its own takes the mark of Vault from a row.
LEMMA OwingRows ==
  ASSUME TabP, RecP, Owing, RowsMove, born' \in [Certs -> 0 .. MaxRows], rec' = rec, pki' = pki,
         \A c \in Certs : cert'[c].id = cert[c].id /\ cert[c].managed = "managed_in_vault" =>
           cert'[c].managed = "managed_in_vault"
  PROVE  Owing'
<1>1. \A k \in rec.base : k[1] \in Certs /\ k[2] \in 0 .. MaxRows /\ k[2] <= born[k[1]]
  BY DEF RecP, PassSet, RowKey, Owing
<1>2. born \in [Certs -> 0 .. MaxRows]
  BY DEF TabP
<1>3. \A k \in rec.base : k[2] <= born'[k[1]]
  BY <1>1, <1>2 DEF RowsMove
<1>4. \A k \in rec.base : HasId(k[1], k[2])' => HasId(k[1], k[2]) /\ cert'[k[1]].id = cert[k[1]].id
  BY <1>1, <1>2 DEF RowsMove, HasId
<1>5. \A c : Owed(c)' <=> Owed(c)
  BY DEF Owed
<1> QED BY <1>1, <1>3, <1>4, <1>5 DEF Owing

-----------------------------------------------------------------------------
(* Requests: what they read, and nothing they write.                       *)

LEMMA BackToIdle ==
  /\ check' = NoCheck => CheckP'
  /\ rec' = NoPass => RecP' /\ Owing'
  /\ catalog' = NoCatalog => CatP'
<1>1. check' = NoCheck => CheckP'
  BY NoRequestOK DEF CheckP
<1>2. rec' = NoPass => RecP'
  BY NoRequestOK DEF RecP
<1>3. rec' = NoPass => Owing'
  BY NoRequestOK DEF Owing
<1>4. catalog' = NoCatalog => CatP'
  BY NoRequestOK DEF CatP
<1> QED BY <1>1, <1>2, <1>3, <1>4

\* Steps that leave the table, the writers and the outbox alone.
LEMMA TableKept ==
  ASSUME IInv, Op \/ NoFault, UNCHANGED <<cert, born, up, events, hist>>,
         CheckP', RecP', CatP', IssP', WorldP', Owing'
  PROVE  IInv'
<1>1. TabP' /\ UpP'
  BY TabFrame, UpFrame DEF IInv
<1>2. RestP'
  BY OpOK DEF IInv, RestP
<1>3. Sticks'
  BY DEF IInv, Sticks, VerifiedRevocationSticks, HasId
<1> QED BY <1>1, <1>2, <1>3 DEF IInv

\* Steps of a check or a pass that only read.
LEMMA QuietFrame ==
  ASSUME IInv, Op \/ NoFault, CheckP', RecP', Owing',
         UNCHANGED <<cert, born, issuer, world, vaultCA, up, catalog, import, events, hist>>
  PROVE  IInv'
<1>0. /\ issuer' = issuer /\ age' = age /\ revoked' = revoked
      /\ pki' = pki /\ vaultCA' = vaultCA /\ catalog' = catalog /\ import' = import
  BY DEF world
<1>1. CatP' /\ IssP' /\ WorldP'
  BY <1>0, CatFrame, IssFrame, WorldFrame DEF IInv
<1> QED BY <1>0, <1>1, TableKept

\* The pass, as seen by the steps that leave it alone.
LEMMA OwingFrame ==
  ASSUME Owing, cert' = cert, born' = born, rec' = rec, pki' = pki PROVE Owing'
  BY DEF Owing, Owed, HasId

\* handleRevocationCheck up to its record.
LEMMA CheckSafe ==
  ASSUME IInv, CheckRead \/ CheckIssuer \/ CheckAsk PROVE IInv'
<1>0. TabP /\ CheckP /\ RecP /\ Owing
  BY DEF IInv
<1>1. /\ UNCHANGED <<cert, born, issuer, world, vaultCA, up, catalog, import, events, hist>>
      /\ Op \/ NoFault
      /\ rec' = rec /\ revoked' = revoked /\ pki' = pki /\ cert' = cert /\ born' = born
  BY DEF CheckRead, CheckIssuer, CheckAsk, Fault, NoFault, world
<1>2. RecP' /\ Owing'
  BY <1>0, <1>1, RecFrame, OwingFrame
<1>3. CheckP'
  <2>1. CASE CheckRead
    <3>1. PICK c \in Certs :
            check' = [NoCheck EXCEPT !.pc = "issuer", !.cert = c, !.id = cert[c].id]
      BY <2>1 DEF CheckRead
    <3>2. cert[c].id \in 0 .. MaxRows
      BY <1>0 DEF TabP, Row
    <3> QED BY <3>1, <3>2, NoRequestOK DEF CheckP, CheckSet
  <2>2. CASE CheckIssuer
    <3>1. CASE check' = NoCheck
      BY <3>1, BackToIdle
    <3>2. CASE \E known \in GetIssuerPEMForCert :
                 check' = [check EXCEPT !.pc = "ask", !.known = known]
      <4>1. PICK known \in {"none", "own", "other"} :
              check' = [check EXCEPT !.pc = "ask", !.known = known]
        BY <3>2 DEF GetIssuerPEMForCert, Candidates
      <4> QED BY <1>0, <2>2, <4>1 DEF CheckP, CheckSet, CheckIssuer
    <3> QED BY <2>2, <3>1, <3>2 DEF CheckIssuer
  <2>3. CASE CheckAsk
    <3>1. PICK r \in Check(check.cert, check.known) :
            check' = IF Recorded(r) THEN [check EXCEPT !.pc = "mark"] ELSE NoCheck
      BY <2>3 DEF CheckAsk
    <3>2. CASE Recorded(r)
      <4>1. check' = [check EXCEPT !.pc = "mark"] /\ check.cert \in Certs
        BY <1>0, <2>3, <3>1, <3>2 DEF CheckP, CheckAsk
      <4> QED BY <1>0, <4>1 DEF CheckP, CheckSet
    <3>3. CASE ~Recorded(r)
      BY <3>1, <3>3, BackToIdle
    <3> QED BY <3>2, <3>3
  <2> QED BY <2>1, <2>2, <2>3
<1> QED BY <1>1, <1>2, <1>3, QuietFrame

\* Reconcile: starting, listing, reading and ending a pass.
LEMMA PassSafe ==
  ASSUME IInv, StartReconcile \/ ListCertSerials \/ ReadCert \/ EndReconcile PROVE IInv'
<1>0. TabP /\ CheckP /\ RecP /\ Owing /\ WorldP /\ rec \in PassSet
  BY DEF IInv, RecP
<1>1. /\ UNCHANGED <<cert, born, issuer, world, vaultCA, up, catalog, import, events, hist>>
      /\ Op \/ NoFault
      /\ check' = check /\ revoked' = revoked /\ pki' = pki /\ cert' = cert /\ born' = born
  BY DEF StartReconcile, ListCertSerials, ReadCert, EndReconcile, Fault, NoFault, world
<1>2. CheckP'
  BY <1>0, <1>1, CheckFrame
<1>3. \A k \in rec.base : k[2] <= born'[k[1]] /\ k \in RowKey /\ k[1] \in Certs
  BY <1>0, <1>1 DEF Owing, PassSet, RowKey
<1>4. \A k : HasId(k[1], k[2])' <=> HasId(k[1], k[2])
  BY <1>1 DEF HasId
<1>5. RecP' /\ Owing'
  <2>0. CASE rec' = NoPass
    BY <2>0, BackToIdle
  <2>1. CASE StartReconcile /\ rec' # NoPass
    <3> DEFINE base == {Key(c) : c \in {d \in Certs :
                          Exists(d) /\ \E m \in Mounts : pki[m][d] # "none"}}
               r == [NoPass EXCEPT !.pc = "list", !.mounts = Mounts, !.base = base]
    <3>1. rec' = r
      BY <2>1 DEF StartReconcile
    <3>2. \A k \in base : /\ k \in RowKey /\ k[1] \in Certs /\ k[2] <= born[k[1]]
                          /\ \E m \in Mounts : pki[m][k[1]] # "none"
      <4> SUFFICES ASSUME NEW c \in Certs, \E m \in Mounts : pki[m][c] # "none"
                   PROVE  /\ Key(c) \in RowKey /\ Key(c)[1] \in Certs
                          /\ Key(c)[2] <= born[Key(c)[1]]
                          /\ \E m \in Mounts : pki[m][Key(c)[1]] # "none"
        OBVIOUS
      <4>1. cert[c].id \in 0 .. MaxRows /\ cert[c].id <= born[c]
        BY <1>0 DEF TabP, Row
      <4> QED BY <4>1 DEF Key, RowKey
    <3> HIDE DEF base
    <3>3. base \subseteq RowKey
      BY <3>2
    <3>4. /\ r \in PassSet /\ r.pc = "list" /\ r.mounts = Mounts /\ r.base = base /\ r.serials = {}
          /\ r.errs = FALSE /\ r.rev = FALSE /\ r.cur = NULL /\ r.status = NULL
      BY <3>3, NoRequestOK DEF PassSet
    <3> HIDE DEF r
    <3>5. RecP'
      BY <3>1, <3>4 DEF RecP
    <3>6. Owing'
      BY <1>1, <3>1, <3>2, <3>4 DEF Owing, Owed
    <3> QED BY <3>5, <3>6
  <2>2. CASE ListCertSerials
    <3>0. rec.pc = "list" /\ rec.serials = {} /\ rec.status = NULL /\ rec.cur = NULL
      BY <1>0, <2>2 DEF ListCertSerials, RecP
    <3>1. PICK m \in rec.mounts :
            \/ rec' = [rec EXCEPT !.mounts = @ \ {m}, !.mount = m,
                                  !.serials = {c \in Certs : pki[m][c] # "none"}]
            \/ rec' = [rec EXCEPT !.mounts = @ \ {m}, !.errs = TRUE]
      BY <2>2 DEF ListCertSerials
    <3>2. m \in Mounts
      BY <1>0 DEF PassSet
    <3>3. CASE rec' = [rec EXCEPT !.mounts = @ \ {m}, !.mount = m,
                                  !.serials = {c \in Certs : pki[m][c] # "none"}]
      <4> DEFINE r == [rec EXCEPT !.mounts = rec.mounts \ {m}, !.mount = m,
                                  !.serials = {c \in Certs : pki[m][c] # "none"}]
      <4>1. rec' = r
        BY <3>3
      <4>2. /\ r \in PassSet /\ r.pc = "list" /\ r.mounts = rec.mounts \ {m} /\ r.mount = m
            /\ r.serials = {c \in Certs : pki[m][c] # "none"} /\ r.base = rec.base
            /\ r.errs = rec.errs /\ r.rev = rec.rev /\ r.cur = NULL /\ r.status = NULL
        BY <1>0, <3>0, <3>2 DEF PassSet
      <4> HIDE DEF r
      <4>3. RecP'
        BY <1>0, <1>1, <3>0, <3>2, <4>1, <4>2 DEF RecP
      <4>4. ASSUME NEW k \in rec.base, Owed(k[1]) PROVE Owed(k[1])'
        BY <1>1, <1>3, <3>0, <4>1, <4>2, <4>4, Nulls DEF Owed
      <4>5. Owing'
        BY <1>0, <1>1, <1>3, <1>4, <3>0, <4>1, <4>2, <4>4 DEF Owing
      <4> QED BY <4>3, <4>5
    <3>4. CASE rec' = [rec EXCEPT !.mounts = @ \ {m}, !.errs = TRUE]
      <4> DEFINE r == [rec EXCEPT !.mounts = rec.mounts \ {m}, !.errs = TRUE]
      <4>1. rec' = r
        BY <3>4
      <4>2. /\ r \in PassSet /\ r.pc = "list" /\ r.mounts = rec.mounts \ {m} /\ r.mount = rec.mount
            /\ r.serials = rec.serials /\ r.base = rec.base
            /\ r.errs = TRUE /\ r.rev = rec.rev /\ r.cur = NULL /\ r.status = NULL
        BY <1>0, <3>0, <3>2 DEF PassSet
      <4> HIDE DEF r
      <4>3. RecP'
        BY <1>0, <1>1, <3>0, <3>2, <4>1, <4>2 DEF RecP
      <4>4. Owing'
        BY <1>3, <4>1, <4>2 DEF Owing
      <4> QED BY <4>3, <4>4
    <3> QED BY <3>1, <3>3, <3>4
  <2>3. CASE ReadCert
    <3>0. rec.pc = "list" /\ rec.status = NULL /\ rec.cur = NULL
      BY <1>0, <2>3 DEF ReadCert, RecP
    <3>1. PICK c \in rec.serials :
            \/ /\ pki[rec.mount][c] # "none"
               /\ rec' = [rec EXCEPT !.pc = "update", !.serials = @ \ {c}, !.cur = c,
                                     !.rev = pki[rec.mount][c] = "revoked", !.read = TRUE]
            \/ rec' = [rec EXCEPT !.serials = @ \ {c}, !.errs = TRUE]
      BY <2>3 DEF ReadCert
    <3>2. c \in Certs /\ rec.mount \in Mounts
      BY <1>0 DEF PassSet, RecP
    <3>3. CASE rec' = [rec EXCEPT !.pc = "update", !.serials = @ \ {c}, !.cur = c,
                                  !.rev = pki[rec.mount][c] = "revoked", !.read = TRUE]
      <4> DEFINE v == pki[rec.mount][c] = "revoked"
                 r == [rec EXCEPT !.pc = "update", !.serials = rec.serials \ {c}, !.cur = c,
                                  !.rev = v, !.read = TRUE]
      <4>0. v \in BOOLEAN
        OBVIOUS
      <4>1. rec' = r
        BY <3>3
      <4> HIDE DEF v
      <4>2. /\ r \in PassSet /\ r.pc = "update" /\ r.mounts = rec.mounts /\ r.mount = rec.mount
            /\ r.serials = rec.serials \ {c} /\ r.base = rec.base
            /\ r.errs = rec.errs /\ r.rev = v /\ r.cur = c /\ r.status = NULL
        BY <1>0, <3>0, <3>2, <4>0 DEF PassSet
      <4> HIDE DEF r
      <4>3. RecP'
        BY <1>0, <1>1, <3>0, <3>2, <4>0, <4>1, <4>2 DEF RecP
      <4>4. ASSUME NEW k \in rec.base, Owed(k[1]) PROVE Owed(k[1])'
        BY <1>1, <1>3, <3>0, <4>1, <4>2, <4>4, Nulls DEF Owed
      <4>5. Owing'
        BY <1>0, <1>1, <1>3, <1>4, <3>0, <4>1, <4>2, <4>4 DEF Owing
      <4> QED BY <4>3, <4>5
    <3>4. CASE rec' = [rec EXCEPT !.serials = @ \ {c}, !.errs = TRUE]
      <4> DEFINE r == [rec EXCEPT !.serials = rec.serials \ {c}, !.errs = TRUE]
      <4>1. rec' = r
        BY <3>4
      <4>2. /\ r \in PassSet /\ r.pc = "list" /\ r.mounts = rec.mounts /\ r.mount = rec.mount
            /\ r.serials = rec.serials \ {c} /\ r.base = rec.base
            /\ r.errs = TRUE /\ r.rev = rec.rev /\ r.cur = NULL /\ r.status = NULL
        BY <1>0, <3>0, <3>2 DEF PassSet
      <4> HIDE DEF r
      <4>3. RecP'
        BY <1>0, <1>1, <3>0, <3>2, <4>1, <4>2 DEF RecP
      <4>4. Owing'
        BY <1>3, <4>1, <4>2 DEF Owing
      <4> QED BY <4>3, <4>4
    <3> QED BY <3>1, <3>3, <3>4
  <2>4. CASE EndReconcile /\ rec' # NoPass
    <3> DEFINE st == reconcileStatus(rec.read, rec.errs)
               r == [NoPass EXCEPT !.status = st, !.base = rec.base]
    <3>1. /\ rec' = r /\ rec.pc = "list" /\ rec.mounts = {} /\ rec.serials = {}
      BY <2>4 DEF EndReconcile
    <3>2. st \in {"ok", "partial", "failed"} /\ (st = "ok" => rec.errs = FALSE)
      BY <1>0 DEF reconcileStatus, PassSet
    <3> HIDE DEF st
    <3>3. /\ r \in PassSet /\ r.pc = "idle" /\ r.mounts = {} /\ r.serials = {} /\ r.base = rec.base
          /\ r.errs = FALSE /\ r.rev = FALSE /\ r.cur = NULL /\ r.status = st
      BY <1>0, <3>2, NoRequestOK DEF PassSet
    <3> HIDE DEF r
    <3>4. RecP'
      BY <3>1, <3>3 DEF RecP
    <3>5. rec.status = NULL /\ rec.cur = NULL /\ \A c \in Certs : ~Owed(c)
      BY <1>0, <3>1, Nulls DEF RecP, Owed
    <3>6. Owing'
      <4> SUFFICES ASSUME st = "ok", NEW k \in rec.base, HasId(k[1], k[2])
                   PROVE  cert[k[1]].managed = "managed_in_vault"
        BY <1>1, <1>3, <1>4, <3>1, <3>2, <3>3, Nulls DEF Owing
      <4> QED BY <1>0, <1>3, <3>2, <3>5 DEF Owing
    <3> QED BY <3>4, <3>6
  <2> QED BY <2>0, <2>1, <2>2, <2>3, <2>4
<1> QED BY <1>1, <1>2, <1>5, QuietFrame

\* handleImportIssuer, and the deletion of the issuer.
LEMMA ImportSafe ==
  ASSUME IInv, ImportRead \/ ImportIssuerBundle \/ SetIssuerVaultRef \/ DeleteIssuer
  PROVE  IInv'
<1>0. /\ CheckP /\ RecP /\ CatP /\ IssP /\ WorldP /\ Owing
      /\ issuer \in [in : BOOLEAN, ref : {NULL, "", "id"}, other : BOOLEAN] /\ vaultCA \in BOOLEAN
      /\ import \in ImportRequest
      /\ issuer.ref # NULL => vaultCA
      /\ import.pc = "record" => vaultCA
  BY DEF IInv, IssP, ImportedIsInVault
<1>1. /\ UNCHANGED <<cert, born, up, events, hist>> /\ (Op \/ NoFault)
      /\ check' = check /\ rec' = rec /\ catalog' = catalog
      /\ age' = age /\ revoked' = revoked /\ pki' = pki /\ cert' = cert /\ born' = born
  BY DEF ImportRead, ImportIssuerBundle, SetIssuerVaultRef, DeleteIssuer, Fault, NoFault, world
<1>2. CheckP' /\ RecP' /\ CatP' /\ WorldP' /\ Owing'
  BY <1>0, <1>1, CheckFrame, RecFrame, CatFrame, WorldFrame, OwingFrame
<1>3. IssP'
  <2>1. CASE ImportRead
    <3>1. import' = [NoImport EXCEPT !.pc = "bundle"] /\ issuer' = issuer /\ vaultCA' = vaultCA
      BY <2>1 DEF ImportRead
    <3> QED BY <1>0, <3>1, NoRequestOK DEF IssP, ImportedIsInVault, ImportRequest
  <2>2. CASE ImportIssuerBundle
    <3>1. issuer' = issuer /\ vaultCA' \in {vaultCA, TRUE}
      BY <2>2 DEF ImportIssuerBundle
    <3>2. \/ import' = NoImport
          \/ vaultCA' = TRUE /\ import' = [import EXCEPT !.pc = "record",
                                              !.ref = IF vaultCA THEN "" ELSE "id"]
      BY <2>2 DEF ImportIssuerBundle
    <3> QED BY <1>0, <3>1, <3>2, NoRequestOK DEF IssP, ImportedIsInVault, ImportRequest
  <2>3. CASE SetIssuerVaultRef
    <3>1. /\ import' = NoImport /\ vaultCA' = vaultCA /\ vaultCA
          /\ issuer' = issuer \/ issuer' = [issuer EXCEPT !.ref = import.ref]
      BY <1>0, <2>3 DEF SetIssuerVaultRef
    <3>2. import.ref \in {"", "id"}
      BY <1>0 DEF ImportRequest
    <3>3. issuer' \in [in : BOOLEAN, ref : {NULL, "", "id"}, other : BOOLEAN]
      BY <1>0, <3>1, <3>2
    <3> QED BY <1>0, <3>1, <3>3, NoRequestOK DEF IssP, ImportedIsInVault
  <2>4. CASE DeleteIssuer
    <3>1. /\ vaultCA' = vaultCA
          /\ \/ issuer' = [issuer EXCEPT !.in = FALSE, !.ref = NULL]
             \/ issuer' = [issuer EXCEPT !.other = FALSE]
          /\ import' = import \/ import' = [import EXCEPT !.live = import.pc = "idle"]
      BY <2>4 DEF DeleteIssuer
    <3>2. import' \in ImportRequest /\ import'.pc = import.pc
      BY <1>0, <3>1 DEF ImportRequest
    <3>3. /\ issuer' \in [in : BOOLEAN, ref : {NULL, "", "id"}, other : BOOLEAN]
          /\ issuer'.ref \in {NULL, issuer.ref}
      BY <1>0, <3>1
    <3> QED BY <1>0, <3>1, <3>2, <3>3 DEF IssP, ImportedIsInVault
  <2> QED BY <2>1, <2>2, <2>3, <2>4
<1> QED BY <1>1, <1>2, <1>3, TableKept

\* Time, the CAs, Vault.
LEMMA WorldSafe ==
  ASSUME IInv, Elapse \/ RevokeAtCA \/ RevokeInVault \/ Tidy PROVE IInv'
<1>0. /\ CheckP /\ RecP /\ CatP /\ IssP /\ WorldP /\ Owing
      /\ age \in [Certs -> Status \ {"revoked"}] /\ revoked \subseteq Certs
      /\ pki \in [Mounts -> [Certs -> {"none", "issued", "revoked"}]]
  BY DEF IInv, WorldP
<1>1. /\ UNCHANGED <<cert, born, up, events, hist>> /\ (Op \/ NoFault)
      /\ check' = check /\ catalog' = catalog /\ import' = import /\ issuer' = issuer
      /\ vaultCA' = vaultCA /\ cert' = cert /\ born' = born
  BY DEF Elapse, RevokeAtCA, RevokeInVault, Tidy, requests
<1>2. CheckP' /\ CatP' /\ IssP'
  BY <1>0, <1>1, CheckFrame, CatFrame, IssFrame
<1>3. CASE Elapse
  <2>1. PICK c \in Certs : age[c] # "expired" /\ age' = [age EXCEPT ![c] = Later[@]]
    BY <1>3 DEF Elapse
  <2>2. Later[age[c]] \in Status \ {"revoked"}
    BY <1>0, <2>1 DEF Later, Status
  <2>3. age' \in [Certs -> Status \ {"revoked"}] /\ revoked' = revoked /\ pki' = pki /\ rec' = rec
    BY <1>0, <1>3, <2>1, <2>2 DEF Elapse, requests
  <2>4. WorldP' /\ RecP' /\ Owing'
    BY <1>0, <1>1, <2>3, RecFrame, OwingFrame DEF WorldP
  <2> QED BY <1>1, <1>2, <2>4, TableKept
<1>4. CASE RevokeAtCA
  <2>1. age' = age /\ revoked' \subseteq Certs /\ pki' = pki /\ rec' = rec
    BY <1>0, <1>4 DEF RevokeAtCA, requests
  <2>2. WorldP' /\ RecP' /\ Owing'
    BY <1>0, <1>1, <2>1, RecFrame, OwingFrame DEF WorldP
  <2> QED BY <1>1, <1>2, <2>2, TableKept
<1>5. CASE RevokeInVault
  <2>1. PICK m \in Mounts, c \in Certs :
          /\ pki[m][c] = "issued" /\ pki' = [pki EXCEPT ![m][c] = "revoked"]
          /\ revoked' = revoked \cup {c}
    BY <1>5 DEF RevokeInVault
  <2>2. /\ pki' \in [Mounts -> [Certs -> {"none", "issued", "revoked"}]]
        /\ \A n \in Mounts, d \in Certs : pki'[n][d] = (IF n = m /\ d = c THEN "revoked" ELSE pki[n][d])
    BY <1>0, <2>1
  <2>3. age' = age /\ rec' = rec
    BY <1>5 DEF RevokeInVault, requests
  <2>4. WorldP'
    BY <1>0, <2>1, <2>2, <2>3 DEF WorldP
  <2>5. rec.mounts \subseteq Mounts /\ \A k \in rec.base : k[1] \in Certs
    BY <1>0 DEF RecP, PassSet, RowKey
  <2>6. \A k \in rec.base : Owed(k[1]) => Owed(k[1])'
    BY <2>1, <2>2, <2>3, <2>5 DEF Owed
  <2>7. RecP' /\ Owing'
    BY <1>0, <1>1, <2>3, <2>6, RecFrame DEF Owing, HasId
  <2> QED BY <1>1, <1>2, <2>4, <2>7, TableKept
<1>6. CASE Tidy
  <2>1. PICK m \in Mounts, c \in Certs :
          /\ pki' = [pki EXCEPT ![m][c] = "none"]
          /\ rec' = [rec EXCEPT !.base = {k \in @ : k[1] # c}]
    BY <1>6 DEF Tidy
  <2>2. /\ pki' \in [Mounts -> [Certs -> {"none", "issued", "revoked"}]]
        /\ \A n \in Mounts, d \in Certs : pki'[n][d] = (IF n = m /\ d = c THEN "none" ELSE pki[n][d])
    BY <1>0, <2>1
  <2>3. age' = age /\ revoked' = revoked
    BY <1>6 DEF Tidy
  <2>4. WorldP'
    BY <1>0, <2>1, <2>2, <2>3 DEF WorldP
  <2> DEFINE left == {k \in rec.base : k[1] # c}
             r == [rec EXCEPT !.base = left]
  <2>5. rec' = r /\ rec \in PassSet
    BY <1>0, <2>1 DEF RecP
  <2>6. left \subseteq rec.base /\ \A k \in left : k[1] # c
    OBVIOUS
  <2> HIDE DEF left
  <2>7. /\ r \in PassSet /\ r.pc = rec.pc /\ r.mounts = rec.mounts /\ r.mount = rec.mount
        /\ r.serials = rec.serials /\ r.base = left /\ r.errs = rec.errs /\ r.rev = rec.rev
        /\ r.cur = rec.cur /\ r.status = rec.status
    BY <2>5, <2>6 DEF PassSet
  <2> HIDE DEF r
  <2>8. RecP'
    BY <1>0, <2>3, <2>5, <2>7 DEF RecP
  <2>9. rec.mounts \subseteq Mounts /\ \A k \in rec.base : k[1] \in Certs
    BY <2>5 DEF PassSet, RowKey
  <2>10. \A k \in left : Owed(k[1]) => Owed(k[1])'
    BY <2>2, <2>5, <2>6, <2>7, <2>9 DEF Owed
  <2>11. Owing'
    BY <1>0, <1>1, <2>5, <2>6, <2>7, <2>10 DEF Owing, HasId
  <2> QED BY <1>1, <1>2, <2>4, <2>8, <2>11, TableKept
<1> QED BY <1>3, <1>4, <1>5, <1>6

-----------------------------------------------------------------------------
(* Statements on one row.                                                  *)

\* Row c becomes r, under the same id.
LEMMA RowChange ==
  ASSUME TabP, NEW c \in Certs, NEW r \in Row, r.id = cert[c].id,
         cert' = [cert EXCEPT ![c] = r], born' = born
  PROVE  /\ TabP' /\ RowsMove /\ born' \in [Certs -> 0 .. MaxRows]
         /\ \A d \in Certs : cert'[d].id = cert[d].id
         /\ cert'[c] = r /\ \A d \in Certs \ {c} : cert'[d] = cert[d]
<1>1. cert \in [Certs -> Row] /\ born \in [Certs -> 0 .. MaxRows]
  BY DEF TabP
<1>2. cert' \in [Certs -> Row] /\ cert'[c] = r /\ \A d \in Certs \ {c} : cert'[d] = cert[d]
  BY <1>1
<1>3. \A d \in Certs : cert'[d].id = cert[d].id
  BY <1>2
<1>4. TabP'
  BY <1>1, <1>2, <1>3 DEF TabP
<1>5. RowsMove
  BY <1>1, <1>3 DEF RowsMove
<1> QED BY <1>1, <1>2, <1>3, <1>4, <1>5

\* What MarkRevoked does.
MarkedParts ==
  /\ TabP' /\ RestP' /\ Sticks' /\ RowsMove
  /\ born' \in [Certs -> 0 .. MaxRows]
  /\ \A d \in Certs : cert'[d].id = cert[d].id /\ cert'[d].managed = cert[d].managed

LEMMA MarkSafe ==
  ASSUME IInv, NEW c \in Certs, NEW id \in 0 .. MaxRows, MarkRevoked(c, id),
         born' = born, Op \/ NoFault
  PROVE  MarkedParts
<1>0. /\ TabP /\ RestP /\ Sticks
      /\ cert \in [Certs -> Row] /\ born \in [Certs -> 0 .. MaxRows]
      /\ ops' \in 0 .. MaxOps
  BY OpOK DEF IInv, TabP, RestP
<1>1. CASE ~HasId(c, id)
  <2>1. cert' = cert /\ events' = events /\ hist' = hist
    BY <1>1 DEF MarkRevoked
  <2>2. TabP'
    BY <1>0, <2>1, TabFrame
  <2>3. RestP' /\ RowsMove
    BY <1>0, <2>1 DEF RestP, RowsMove
  <2>4. Sticks'
    BY <1>0, <2>1 DEF Sticks, VerifiedRevocationSticks, HasId
  <2> QED BY <1>0, <2>1, <2>2, <2>3, <2>4 DEF MarkedParts
<1>2. CASE HasId(c, id)
  <2> DEFINE r == [cert[c] EXCEPT !.status = "revoked", !.rev = "via_check"]
  <2>1. /\ cert' = [cert EXCEPT ![c] = r]
        /\ events' = events \cup {<<"revoked", c, id>>}
        /\ hist' = [hist EXCEPT !.verified = @ \cup {<<c, id>>}]
    BY <1>0, <1>2 DEF MarkRevoked
  <2>2. id \in 1 .. MaxRows /\ cert[c].id = id /\ born[c] = id
    BY <1>0, <1>2 DEF HasId, TabP
  <2>3. <<"revoked", c, id>> \in Events /\ <<c, id>> \in RowKey
    BY <1>0, <2>2 DEF Events, Rank, RowKey
  <2>4. /\ r \in Row /\ r.id = cert[c].id /\ r.status = "revoked" /\ r.rev = "via_check"
        /\ r.managed = cert[c].managed
    BY <1>0 DEF Row, Status
  <2> HIDE DEF r
  <2>5. /\ TabP' /\ RowsMove /\ born' \in [Certs -> 0 .. MaxRows]
        /\ \A d \in Certs : cert'[d].id = cert[d].id
        /\ cert'[c] = r /\ \A d \in Certs \ {c} : cert'[d] = cert[d]
    BY <1>0, <2>1, <2>4, RowChange
  <2>6. /\ hist' \in HistSet /\ hist'.vaultSaid = hist.vaultSaid
        /\ hist'.verified = hist.verified \cup {<<c, id>>}
    BY <1>0, <2>1, <2>3 DEF RestP, HistSet
  <2>7. RestP'
    BY <1>0, <2>1, <2>3, <2>6 DEF RestP
  <2>8. \A d \in Certs : cert[d].rev = "via_check" /\ cert[d].status = "revoked" =>
          cert'[d].rev = "via_check" /\ cert'[d].status = "revoked"
    BY <2>4, <2>5
  <2>9. \A k \in hist'.verified : k \in hist.verified
           \/ (k[2] <= born[k[1]] /\ cert'[k[1]].rev = "via_check" /\ cert'[k[1]].status = "revoked")
    BY <2>2, <2>4, <2>5, <2>6
  <2>10. Sticks'
    BY <1>0, <2>5, <2>6, <2>7, <2>8, <2>9, StickRows
  <2> QED BY <2>4, <2>5, <2>7, <2>10 DEF MarkedParts
<1> QED BY <1>1, <1>2

\* The record of a check.
LEMMA CheckMarkSafe ==
  ASSUME IInv, CheckMark PROVE IInv'
<1>0. /\ UpP /\ CheckP /\ RecP /\ CatP /\ IssP /\ WorldP /\ Owing /\ TabP
  BY DEF IInv
<1>1. /\ check.pc = "mark" /\ check' = NoCheck /\ born' = born /\ issuer' = issuer /\ age' = age
      /\ revoked' = revoked /\ pki' = pki /\ vaultCA' = vaultCA /\ up' = up /\ rec' = rec
      /\ catalog' = catalog /\ import' = import
  BY DEF CheckMark, world
<1>2. check.cert \in Certs /\ check.id \in 0 .. MaxRows
  BY <1>0, <1>1 DEF CheckP, CheckSet
<1>3. UpP' /\ CheckP' /\ RecP' /\ CatP' /\ IssP' /\ WorldP'
  BY <1>0, <1>1, UpFrame, RecFrame, CatFrame, IssFrame, WorldFrame, BackToIdle
<1>4. MarkedParts
  <2>1. CASE MarkRevoked(check.cert, check.id) /\ NoFault
    BY <1>1, <1>2, <2>1, MarkSafe
  <2>2. CASE UNCHANGED <<cert, events, hist>> /\ Fault
    <3>1. TabP' /\ RestP'
      BY <1>1, <2>2, TabFrame, OpOK DEF IInv, RestP, Fault
    <3>2. Sticks'
      BY <1>1, <2>2 DEF IInv, Sticks, VerifiedRevocationSticks, HasId
    <3>3. RowsMove /\ born' \in [Certs -> 0 .. MaxRows]
      BY <1>0, <1>1, <2>2 DEF RowsMove, TabP
    <3> QED BY <2>2, <3>1, <3>2, <3>3 DEF MarkedParts
  <2> QED BY <2>1, <2>2 DEF CheckMark
<1>5. Owing'
  BY <1>0, <1>1, <1>4, OwingRows DEF MarkedParts
<1> QED BY <1>3, <1>4, <1>5 DEF IInv, MarkedParts

\* handleCatalogImport and the deletion of a certificate.
LEMMA CatalogSafe ==
  ASSUME IInv, CatalogSet \/ SetRenewalConfig \/ DeleteCertificate PROVE IInv'
<1>0. /\ UpP /\ CheckP /\ RecP /\ CatP /\ IssP /\ WorldP /\ Owing /\ TabP
      /\ Sticks /\ RestP
      /\ cert \in [Certs -> Row] /\ born \in [Certs -> 0 .. MaxRows]
  BY DEF IInv, TabP
<1>1. /\ born' = born /\ issuer' = issuer /\ age' = age /\ revoked' = revoked /\ pki' = pki
      /\ vaultCA' = vaultCA /\ up' = up /\ check' = check /\ rec' = rec /\ import' = import
      /\ events' = events /\ hist' = hist /\ (Op \/ NoFault)
  BY DEF CatalogSet, SetRenewalConfig, DeleteCertificate, Fault, NoFault, world, requests
<1>2. UpP' /\ CheckP' /\ RecP' /\ IssP' /\ WorldP'
  BY <1>0, <1>1, UpFrame, CheckFrame, RecFrame, IssFrame, WorldFrame
<1>3. RestP'
  BY <1>0, <1>1, OpOK DEF RestP
<1>5. ASSUME CatP', TabP', RowsMove,
             \A c \in Certs :
               \/ cert'[c].id = 0
               \/ /\ cert'[c].id = cert[c].id /\ cert'[c].status = cert[c].status
                  /\ cert'[c].rev = cert[c].rev
                  /\ cert[c].managed = "managed_in_vault" => cert'[c].managed = "managed_in_vault"
      PROVE  IInv'
  <2>2. Sticks'
    <3>1. \A k \in hist.verified : k[1] \in Certs /\ k[2] <= born'[k[1]]
      BY <1>0, <1>1 DEF Sticks, RestP, HistSet, RowKey
    <3>2. \A k \in hist.verified : HasId(k[1], k[2])' =>
            /\ HasId(k[1], k[2]) /\ cert'[k[1]].status = cert[k[1]].status
            /\ cert'[k[1]].rev = cert[k[1]].rev
      BY <1>5, <3>1 DEF HasId
    <3> QED BY <1>0, <1>1, <3>1, <3>2 DEF Sticks, VerifiedRevocationSticks
  <2>3. Owing'
    <3>1. \A k \in rec.base : k[1] \in Certs /\ k[2] <= born'[k[1]]
      BY <1>0, <1>1 DEF RecP, PassSet, RowKey, Owing
    <3>2. \A k \in rec.base : HasId(k[1], k[2])' =>
            /\ HasId(k[1], k[2])
            /\ cert[k[1]].managed = "managed_in_vault" => cert'[k[1]].managed = "managed_in_vault"
      BY <1>5, <3>1 DEF HasId
    <3>3. \A c : Owed(c)' <=> Owed(c)
      BY <1>1 DEF Owed
    <3> QED BY <1>0, <1>1, <3>1, <3>2, <3>3 DEF Owing
  <2> QED BY <1>2, <1>3, <1>5, <2>2, <2>3 DEF IInv
<1>6. CASE CatalogSet
  <2>1. PICK c \in Certs :
          /\ Importable(c) /\ cert' = [cert EXCEPT ![c].managed = "imported"]
          /\ catalog' \in {NoCatalog, [pc |-> "config", cert |-> c, id |-> cert[c].id]}
    BY <1>6 DEF CatalogSet
  <2> DEFINE r == [cert[c] EXCEPT !.managed = "imported"]
  <2>2. cert[c] \in Row /\ cert[c].id \in 0 .. MaxRows
    BY <1>0 DEF Row
  <2>3. r \in Row /\ r.id = cert[c].id /\ r.status = cert[c].status /\ r.rev = cert[c].rev
    BY <2>2 DEF Row
  <2>4. cert' = [cert EXCEPT ![c] = r] /\ cert[c].managed # "managed_in_vault"
    BY <1>0, <2>1 DEF Importable
  <2> HIDE DEF r
  <2>5. /\ TabP' /\ RowsMove /\ \A d \in Certs : cert'[d].id = cert[d].id
        /\ cert'[c] = r /\ \A d \in Certs \ {c} : cert'[d] = cert[d]
    BY <1>0, <1>1, <2>3, <2>4, RowChange
  <2>6. CatP'
    BY <2>1, <2>2, NoRequestOK DEF CatP, CatalogRequest
  <2> QED BY <1>5, <2>3, <2>4, <2>5, <2>6
<1>7. CASE SetRenewalConfig
  <2>1. catalog' = NoCatalog /\ catalog.cert \in Certs
    BY <1>0, <1>7 DEF SetRenewalConfig, CatP
  <2>2. CatP'
    BY <2>1, BackToIdle
  <2>3. CASE cert' = cert
    <3>1. TabP' /\ RowsMove
      BY <1>0, <1>1, <2>3, TabFrame DEF RowsMove
    <3> QED BY <1>5, <2>2, <2>3, <3>1
  <2>4. CASE cert' = [cert EXCEPT ![catalog.cert].cfg = TRUE]
    <3> DEFINE c == catalog.cert
               r == [cert[c] EXCEPT !.cfg = TRUE]
    <3>1. /\ r \in Row /\ r.id = cert[c].id /\ r.status = cert[c].status /\ r.rev = cert[c].rev
          /\ r.managed = cert[c].managed
      BY <1>0, <2>1 DEF Row
    <3>2. cert' = [cert EXCEPT ![c] = r]
      BY <1>0, <2>4
    <3> HIDE DEF r
    <3>3. /\ TabP' /\ RowsMove /\ \A d \in Certs : cert'[d].id = cert[d].id
          /\ cert'[c] = r /\ \A d \in Certs \ {c} : cert'[d] = cert[d]
      BY <1>0, <1>1, <2>1, <3>1, <3>2, RowChange
    <3> QED BY <1>5, <2>2, <3>1, <3>3
  <2> QED BY <1>7, <2>3, <2>4 DEF SetRenewalConfig
<1>8. CASE DeleteCertificate
  <2>1. PICK c \in Certs : born[c] < MaxRows /\ cert' = [cert EXCEPT ![c] = NoRow]
    BY <1>8 DEF DeleteCertificate
  <2>2. /\ cert' \in [Certs -> Row] /\ cert'[c].id = 0
        /\ \A d \in Certs \ {c} : cert'[d] = cert[d]
    BY <1>0, <2>1, NoRowOK
  <2>3. TabP' /\ RowsMove
    BY <1>0, <1>1, <2>1, <2>2 DEF TabP, RowsMove
  <2>4. CatP'
    BY <1>0, <1>8, CatFrame DEF DeleteCertificate, requests
  <2> QED BY <1>5, <2>2, <2>3, <2>4
<1> QED BY <1>6, <1>7, <1>8

\* What reconcile writes to a row, revoked or not.
LEMMA ReconciledOK ==
  ASSUME NEW row \in Row, NEW rev \in BOOLEAN
  PROVE  LET r == ReconciledRow(row, rev) IN
         /\ r \in Row /\ r.id = row.id /\ r.managed = "managed_in_vault"
         /\ rev = TRUE => r.status = "revoked"
         /\ rev = FALSE => r.status = row.status
         /\ rev = FALSE /\ row.rev = "via_check" => r.rev = "via_check"
<1> DEFINE v == IF rev THEN "in_vault" ELSE IF row.rev = "in_vault" THEN NULL ELSE row.rev
           s == IF rev THEN "revoked" ELSE row.status
           r == [row EXCEPT !.managed = "managed_in_vault", !.status = s, !.rev = v]
<1>1. ReconciledRow(row, rev) = r
  BY DEF ReconciledRow
<1>2. /\ s \in Status /\ v \in {NULL, "in_vault", "via_check"}
      /\ rev = TRUE => s = "revoked"
      /\ rev = FALSE => s = row.status
      /\ rev = FALSE /\ row.rev = "via_check" => v = "via_check"
  BY DEF Row, Status
<1> HIDE DEF v, s
<1>3. /\ r \in Row /\ r.id = row.id /\ r.managed = "managed_in_vault" /\ r.status = s /\ r.rev = v
  BY <1>2 DEF Row
<1> QED BY <1>1, <1>2, <1>3

\* UpdateManagedStatusByFingerprint.
LEMMA ReconcileUpdateSafe ==
  ASSUME IInv, ReconcileUpdate PROVE IInv'
<1> DEFINE c == rec.cur
<1>0. /\ UpP /\ CheckP /\ RecP /\ CatP /\ IssP /\ WorldP /\ Owing /\ TabP
      /\ Sticks /\ RestP
      /\ cert \in [Certs -> Row] /\ born \in [Certs -> 0 .. MaxRows]
      /\ rec \in PassSet /\ rec.pc = "update" /\ c \in Certs /\ rec.status = NULL
      /\ rec.rev \in BOOLEAN
  BY DEF IInv, TabP, RecP, ReconcileUpdate, PassSet
<1>1. /\ born' = born /\ issuer' = issuer /\ age' = age /\ revoked' = revoked /\ pki' = pki
      /\ vaultCA' = vaultCA /\ up' = up /\ check' = check /\ catalog' = catalog
      /\ import' = import /\ events' = events /\ (Op \/ NoFault)
  BY DEF ReconcileUpdate, Fault, NoFault, world
<1>2. UpP' /\ CheckP' /\ CatP' /\ IssP' /\ WorldP'
  BY <1>0, <1>1, UpFrame, CheckFrame, CatFrame, IssFrame, WorldFrame
<1>3. ASSUME NEW errs \in BOOLEAN,
             rec' = [rec EXCEPT !.pc = "list", !.cur = NULL, !.rev = FALSE, !.errs = errs]
      PROVE  /\ RecP' /\ rec'.errs = errs /\ rec'.base = rec.base /\ rec'.status = NULL
             /\ rec'.mounts = rec.mounts /\ rec'.serials = rec.serials
  <2> DEFINE r == [rec EXCEPT !.pc = "list", !.cur = NULL, !.rev = FALSE, !.errs = errs]
  <2>1. /\ r \in PassSet /\ r.pc = "list" /\ r.mounts = rec.mounts /\ r.mount = rec.mount
        /\ r.serials = rec.serials /\ r.base = rec.base /\ r.errs = errs /\ r.rev = FALSE
        /\ r.cur = NULL /\ r.status = NULL
    BY <1>0 DEF PassSet
  <2>2. rec' = r
    BY <1>3
  <2> HIDE DEF r
  <2> QED BY <1>0, <2>1, <2>2 DEF RecP
<1>4. \A k \in rec.base : k \in RowKey /\ k[1] \in Certs /\ k[2] <= born'[k[1]]
  BY <1>0, <1>1 DEF Owing, PassSet, RowKey
<1>5. CASE UNCHANGED <<cert, hist>> /\ Fault
           /\ rec' = [rec EXCEPT !.pc = "list", !.cur = NULL, !.rev = FALSE, !.errs = TRUE]
  <2>1. RecP' /\ rec'.errs = TRUE /\ rec'.base = rec.base
    BY <1>3, <1>5
  <2>2. Owing'
    BY <1>4, <2>1 DEF Owing
  <2> QED BY <1>1, <1>2, <1>5, <2>1, <2>2, TableKept
<1>6. CASE UpdateManagedStatus(c, rec.rev) /\ NoFault
           /\ rec' = [rec EXCEPT !.pc = "list", !.cur = NULL, !.rev = FALSE]
  <2>0. /\ RecP' /\ rec'.errs = rec.errs /\ rec'.base = rec.base /\ rec'.status = NULL
        /\ rec'.mounts = rec.mounts /\ rec'.serials = rec.serials
    <3>1. rec.errs \in BOOLEAN
      BY <1>0 DEF PassSet
    <3>2. rec' = [rec EXCEPT !.pc = "list", !.cur = NULL, !.rev = FALSE, !.errs = rec.errs]
      BY <1>0, <1>6 DEF PassSet
    <3> QED BY <1>3, <3>1, <3>2
  <2>1. ASSUME NEW k \in rec.base, k[1] # c, Owed(k[1]) PROVE Owed(k[1])'
    BY <1>1, <2>0, <2>1 DEF Owed
  <2>2. CASE ~Exists(c)
    <3>1. cert' = cert /\ hist' = hist
      BY <1>6, <2>2 DEF UpdateManagedStatus
    <3>2. \A k \in rec.base : HasId(k[1], k[2])' => HasId(k[1], k[2]) /\ k[1] # c
      BY <2>2, <3>1 DEF HasId, Exists
    <3>3. Owing'
      BY <1>0, <1>4, <2>0, <2>1, <3>1, <3>2 DEF Owing
    <3> QED BY <1>1, <1>2, <2>0, <3>1, <3>3, TableKept
  <2>3. CASE Exists(c)
    <3> DEFINE r == ReconciledRow(cert[c], rec.rev)
    <3>1. /\ cert' = [cert EXCEPT ![c] = r]
          /\ hist' = IF rec.rev THEN [hist EXCEPT !.vaultSaid = @ \cup {Key(c)}] ELSE hist
      BY <1>0, <1>6, <2>3 DEF UpdateManagedStatus
    <3>2. /\ r \in Row /\ r.id = cert[c].id /\ r.managed = "managed_in_vault"
          /\ rec.rev = TRUE => r.status = "revoked"
          /\ rec.rev = FALSE => r.status = cert[c].status
          /\ rec.rev = FALSE /\ cert[c].rev = "via_check" => r.rev = "via_check"
      BY <1>0, ReconciledOK
    <3> HIDE DEF r
    <3>3. /\ TabP' /\ RowsMove /\ born' \in [Certs -> 0 .. MaxRows]
          /\ \A d \in Certs : cert'[d].id = cert[d].id
          /\ cert'[c] = r /\ \A d \in Certs \ {c} : cert'[d] = cert[d]
      BY <1>0, <1>1, <3>1, <3>2, RowChange
    <3>4. Key(c) \in RowKey /\ Key(c) = <<c, cert[c].id>>
      BY <1>0 DEF Key, RowKey, Row
    <3>5. /\ hist' \in HistSet /\ hist'.verified = hist.verified
          /\ hist.vaultSaid \subseteq hist'.vaultSaid
          /\ rec.rev = TRUE => <<c, cert[c].id>> \in hist'.vaultSaid
      BY <1>0, <3>1, <3>4 DEF RestP, HistSet
    <3>6. RestP'
      BY <1>0, <1>1, <3>5, OpOK DEF RestP
    <3>7. Sticks'
      <4>1. \A d \in Certs :
              cert'[d].id = cert[d].id /\ cert[d].rev = "via_check" /\ cert[d].status = "revoked" =>
                \/ cert'[d].rev = "via_check" /\ cert'[d].status = "revoked"
                \/ <<d, cert[d].id>> \in hist'.vaultSaid
        BY <1>0, <3>2, <3>3, <3>5
      <4> QED BY <1>0, <3>3, <3>5, <3>6, <4>1, StickRows
    <3>8. \A k \in rec.base : HasId(k[1], k[2])' => HasId(k[1], k[2])
      BY <1>4, <3>3 DEF HasId
    <3>9. Owing'
      <4>1. \A k \in rec.base : k[1] = c => cert'[k[1]].managed = "managed_in_vault"
        BY <3>2, <3>3
      <4>2. \A k \in rec.base : k[1] # c => cert'[k[1]] = cert[k[1]]
        BY <1>4, <3>3
      <4> SUFFICES ASSUME rec.errs = FALSE, NEW k \in rec.base, HasId(k[1], k[2])
                   PROVE  cert'[k[1]].managed = "managed_in_vault" \/ Owed(k[1])'
        BY <1>4, <2>0, <3>8 DEF Owing
      <4> QED BY <1>0, <2>1, <4>1, <4>2 DEF Owing
    <3> QED BY <1>2, <2>0, <3>3, <3>6, <3>7, <3>9 DEF IInv
  <2> QED BY <2>2, <2>3
<1> QED BY <1>5, <1>6 DEF ReconcileUpdate

-----------------------------------------------------------------------------
(* An upsert.                                                              *)

\* Writer w becomes x.
LEMMA WriterMoves ==
  ASSUME IInv, NEW w \in Writers, NEW x, up' = [up EXCEPT ![w] = x], UpOK(x),
         UNCHANGED Others
  PROVE  /\ UpP' /\ CheckP' /\ RecP' /\ CatP' /\ WorldP'
         /\ up'[w] = x /\ \A v \in Writers \ {w} : up'[v] = up[v]
         /\ rec' = rec /\ pki' = pki
<1>1. /\ age' = age /\ revoked' = revoked /\ pki' = pki /\ vaultCA' = vaultCA /\ check' = check
      /\ rec' = rec /\ catalog' = catalog /\ import' = import
  BY DEF Others, world, requests
<1>2. up \in [Writers -> Upsert] /\ x \in Upsert /\ \A v \in Writers : UpOK(up[v])
  BY DEF IInv, UpP, UpOK
<1>3. up' \in [Writers -> Upsert] /\ up'[w] = x /\ \A v \in Writers \ {w} : up'[v] = up[v]
  BY <1>2
<1>4. UpP'
  BY <1>1, <1>2, <1>3 DEF UpP, UpOK
<1>5. CheckP' /\ RecP' /\ CatP' /\ WorldP'
  BY <1>1, CheckFrame, RecFrame, CatFrame, WorldFrame DEF IInv
<1> QED BY <1>1, <1>3, <1>4, <1>5

\* Steps of a writer that leave the table alone: it may append events.
LEMMA WriterQuiet ==
  ASSUME IInv, NEW w \in Writers, NEW x, up' = [up EXCEPT ![w] = x], UpOK(x),
         UNCHANGED Others, cert' = cert, born' = born, IssP', Op \/ NoFault,
         events' \subseteq Events, hist' = hist
  PROVE  IInv'
<1>1. UpP' /\ CheckP' /\ RecP' /\ CatP' /\ WorldP' /\ rec' = rec /\ pki' = pki
  BY WriterMoves
<1>2. TabP'
  BY TabFrame DEF IInv
<1>3. RestP'
  BY OpOK DEF IInv, RestP
<1>4. Owing'
  BY <1>1, OwingFrame DEF IInv
<1>5. Sticks'
  BY DEF IInv, Sticks, VerifiedRevocationSticks, HasId
<1> QED BY <1>1, <1>2, <1>3, <1>4, <1>5 DEF IInv

\* Facts about writer w that its steps share.
LEMMA WriterFacts ==
  ASSUME IInv, NEW w \in Writers
  PROVE  /\ up \in [Writers -> Upsert] /\ up[w] \in Upsert /\ UpOK(up[w])
         /\ up[w].pc # "idle" => up[w].cert \in Certs
         /\ up[w].pc \in {"observe", "events"} => up[w].id \in 1 .. MaxRows
         /\ up[w].id \in 0 .. MaxRows /\ up[w].old \in 0 .. MaxRows
         /\ up[w].status \in Status /\ up[w].prev \in Status
<1>1. up \in [Writers -> Upsert] /\ up[w] \in Upsert /\ UpOK(up[w])
  BY DEF IInv, UpP
<1>2. /\ up[w].id \in 0 .. MaxRows /\ up[w].old \in 0 .. MaxRows
      /\ up[w].status \in Status /\ up[w].prev \in Status
  BY <1>1 DEF Upsert
<1>3. up[w].pc \in {"observe", "events"} => up[w].id \in 1 .. MaxRows
  BY <1>1, <1>2 DEF UpOK
<1> QED BY <1>1, <1>2, <1>3 DEF UpOK

\* A writer that only goes on.
LEMMA Goes ==
  ASSUME IInv, NEW w \in Writers, up[w].pc # "idle",
         NEW pc \in {"lookup", "events", "staple", "issuer"}, Goto(w, pc),
         pc = "events" => up[w].pc = "observe"
  PROVE  \E x : /\ up' = [up EXCEPT ![w] = x] /\ UpOK(x) /\ x.pc = pc /\ x.cert = up[w].cert
                /\ x.id = up[w].id /\ x.old = up[w].old /\ x.prev = up[w].prev
                /\ x.status = up[w].status
<1> DEFINE x == [up[w] EXCEPT !.pc = pc]
<1>1. up \in [Writers -> Upsert] /\ up[w] \in Upsert /\ UpOK(up[w])
  BY WriterFacts
<1>2. up' = [up EXCEPT ![w] = x]
  BY <1>1 DEF Goto
<1>3. /\ x \in Upsert /\ x.pc = pc /\ x.cert = up[w].cert /\ x.id = up[w].id /\ x.old = up[w].old
      /\ x.prev = up[w].prev /\ x.status = up[w].status /\ x.staple = up[w].staple
  BY <1>1 DEF Upsert
<1> HIDE DEF x
<1>4. UpOK(x)
  BY <1>1, <1>3 DEF UpOK
<1> QED BY <1>2, <1>3, <1>4

\* Before the INSERT.
LEMMA ReadSafe ==
  ASSUME IInv, NEW w \in Writers, StartUpsert(w) \/ Lookup(w) PROVE IInv'
<1>0. /\ up \in [Writers -> Upsert] /\ up[w] \in Upsert /\ UpOK(up[w])
      /\ IssP /\ hist \in HistSet /\ events \subseteq Events
  BY WriterFacts DEF IInv, RestP
<1>1. /\ up[w].pc \in {"idle", "lookup"} /\ cert' = cert /\ born' = born /\ UNCHANGED Others
      /\ events' = events /\ hist' = hist /\ issuer' = issuer /\ (Op \/ NoFault)
  BY DEF StartUpsert, Lookup, NoFault, Fault
<1>2. IssP'
  BY <1>0, <1>1, IssFrame DEF Others, requests
<1>3. CASE Return(w)
  <2>1. up' = [up EXCEPT ![w] = NoUpsert] /\ UpOK(NoUpsert)
    BY <1>3, NoUpsertOK DEF Return
  <2> QED BY <1>0, <1>1, <1>2, <2>1, WriterQuiet
<1>4. CASE StartUpsert(w)
  <2>1. PICK c \in Certs, staple \in BOOLEAN :
          up' = [up EXCEPT ![w] = [NoUpsert EXCEPT !.pc = "lookup", !.cert = c,
                                                   !.status = age[c], !.staple = staple]]
    BY <1>4 DEF StartUpsert
  <2> DEFINE x == [NoUpsert EXCEPT !.pc = "lookup", !.cert = c, !.status = age[c], !.staple = staple]
  <2>2. age[c] \in Status /\ age[c] # "revoked"
    BY DEF IInv, WorldP
  <2>3. /\ x \in Upsert /\ x.pc = "lookup" /\ x.cert = c /\ x.status = age[c]
        /\ x.staple = staple
    BY <2>2, NoUpsertOK DEF Upsert
  <2> HIDE DEF x
  <2>4. UpOK(x)
    BY <2>1, <2>2, <2>3 DEF UpOK
  <2>5. up' = [up EXCEPT ![w] = x]
    BY <2>1 DEF x
  <2> QED BY <1>0, <1>1, <1>2, <2>3, <2>4, <2>5, WriterQuiet
<1>5. CASE Lookup(w) /\ ~Return(w)
  <2> DEFINE d == up[w].cert
             y == [up[w] EXCEPT !.pc = "insert", !.old = cert[d].id, !.prev = cert[d].status]
  <2>1. up[w].pc = "lookup" /\ up' = [up EXCEPT ![w] = y]
    BY <1>0, <1>5 DEF Lookup
  <2>2. d \in Certs /\ cert[d].id \in 0 .. MaxRows /\ cert[d].status \in Status
    BY <1>0, <2>1 DEF UpOK, IInv, TabP, Row
  <2>3. y \in Upsert /\ y.pc = "insert" /\ y.cert = d /\ y.status = up[w].status
    BY <1>0, <2>2 DEF Upsert
  <2> HIDE DEF y, d
  <2>4. UpOK(y)
    BY <1>0, <2>2, <2>3 DEF UpOK
  <2> QED BY <1>0, <1>1, <1>2, <2>1, <2>4, WriterQuiet
<1> QED BY <1>3, <1>4, <1>5

\* After it: the observation, the events, the issuer.
LEMMA AfterSafe ==
  ASSUME IInv, NEW w \in Writers, Observe(w) \/ EmitEvents(w) \/ UpsertIssuer(w) PROVE IInv'
<1>0. /\ up \in [Writers -> Upsert] /\ up[w] \in Upsert /\ UpOK(up[w])
      /\ IssP /\ events \subseteq Events
  BY WriterFacts DEF IInv, RestP
<1>1. /\ up[w].pc \in {"observe", "events", "issuer"} /\ cert' = cert /\ born' = born
      /\ UNCHANGED Others /\ hist' = hist /\ (Op \/ NoFault)
  BY DEF Observe, EmitEvents, UpsertIssuer, NoFault, Fault
<1>2. IssP'
  <2>1. /\ vaultCA' = vaultCA /\ import' = import
        /\ issuer' \in {issuer, [issuer EXCEPT !.in = TRUE], [issuer EXCEPT !.other = TRUE],
                        [issuer EXCEPT !.in = TRUE, !.other = TRUE]}
    BY <1>1 DEF Observe, EmitEvents, UpsertIssuer, Others, requests
  <2>2. /\ issuer' \in [in : BOOLEAN, ref : {NULL, "", "id"}, other : BOOLEAN]
        /\ issuer'.ref = issuer.ref
    BY <1>0, <2>1 DEF IssP
  <2> QED BY <1>0, <2>1, <2>2 DEF IssP, ImportedIsInVault
<1>3. events' \subseteq Events
  BY <1>0 DEF Observe, EmitEvents, UpsertIssuer, CatalogueEvents, Prefixes
<1>4. PICK x : up' = [up EXCEPT ![w] = x] /\ UpOK(x)
  <2>1. CASE Return(w)
    BY <2>1, NoUpsertOK DEF Return
  <2>2. CASE Goto(w, "events") /\ up[w].pc = "observe"
    BY <2>2, Goes
  <2>3. CASE Goto(w, "staple")
    BY <1>1, <2>3, Goes
  <2> QED BY <2>1, <2>2, <2>3 DEF Observe, EmitEvents, UpsertIssuer
<1> QED BY <1>1, <1>2, <1>3, <1>4, WriterQuiet

\* A stapled answer.
LEMMA StapleSafe ==
  ASSUME IInv, NEW w \in Writers, Staple(w) PROVE IInv'
<1>0. /\ IssP /\ RecP /\ Owing /\ TabP /\ hist \in HistSet /\ events \subseteq Events
      /\ UpOK(up[w]) /\ up[w].id \in 0 .. MaxRows
  BY WriterFacts DEF IInv, RestP
<1>1. up[w].pc = "staple" /\ Goto(w, "issuer") /\ born' = born /\ issuer' = issuer /\ UNCHANGED Others
  BY DEF Staple
<1>2. PICK x : up' = [up EXCEPT ![w] = x] /\ UpOK(x) /\ x.pc = "issuer"
  BY <1>1, Goes
<1>3. IssP'
  BY <1>0, <1>1, IssFrame DEF Others, requests
<1>4. CASE UNCHANGED <<cert, events, hist>> /\ (Op \/ NoFault)
  BY <1>0, <1>1, <1>2, <1>3, <1>4, WriterQuiet
<1>5. CASE up[w].staple /\ MarkRevoked(up[w].cert, up[w].id) /\ NoFault
  <2>1. /\ UpP' /\ CheckP' /\ RecP' /\ CatP' /\ WorldP'
        /\ up'[w] = x /\ \A v \in Writers \ {w} : up'[v] = up[v]
        /\ rec' = rec /\ pki' = pki
    BY <1>1, <1>2, WriterMoves
  <2>2. up[w].cert \in Certs
    BY <1>0, <1>1 DEF UpOK
  <2>3. MarkedParts
    BY <1>0, <1>1, <1>5, <2>1, <2>2, MarkSafe
  <2>4. Owing'
    BY <1>0, <2>1, <2>3, OwingRows DEF MarkedParts
  <2> QED BY <1>3, <2>1, <2>3, <2>4 DEF IInv, MarkedParts
<1> QED BY <1>4, <1>5 DEF Staple, Fault

\* The INSERT: on a conflict the row keeps its id, and its status too when it
\* carries a revocation marker; otherwise a row with the next id.
LEMMA InsertOK ==
  ASSUME TabP, NEW c \in Certs, NEW s \in Status, InsertCertificate(c, s)
  PROVE  /\ TabP' /\ RowsMove /\ born' \in [Certs -> 0 .. MaxRows]
         /\ \A d \in Certs \ {c} : cert'[d] = cert[d]
         /\ Exists(c) => /\ cert'[c].id = cert[c].id /\ cert'[c].rev = cert[c].rev
                         /\ cert'[c].managed = cert[c].managed
                         /\ cert'[c].status = KeptStatus(cert[c], s)
         /\ ~Exists(c) => cert'[c].id = born[c] + 1 /\ cert'[c].status = s
<1>0. cert \in [Certs -> Row] /\ born \in [Certs -> 0 .. MaxRows] /\ cert[c] \in Row
  BY DEF TabP
<1>1. CASE Exists(c)
  <2>1. /\ cert' = [cert EXCEPT ![c].status = KeptStatus(cert[c], s)] /\ born' = born
        /\ KeptStatus(cert[c], s) \in Status
    BY <1>0, <1>1 DEF InsertCertificate, KeptStatus, Row
  <2> DEFINE r == [cert[c] EXCEPT !.status = KeptStatus(cert[c], s)]
  <2>2. /\ r \in Row /\ r.id = cert[c].id /\ r.rev = cert[c].rev /\ r.managed = cert[c].managed
        /\ r.status = KeptStatus(cert[c], s)
    BY <1>0, <2>1 DEF Row
  <2>3. cert' = [cert EXCEPT ![c] = r]
    BY <1>0, <2>1
  <2> HIDE DEF r
  <2>4. /\ TabP' /\ RowsMove /\ born' \in [Certs -> 0 .. MaxRows]
        /\ cert'[c] = r /\ \A d \in Certs \ {c} : cert'[d] = cert[d]
    BY <2>1, <2>2, <2>3, RowChange
  <2> QED BY <1>1, <2>2, <2>4
<1>2. CASE ~Exists(c)
  <2> DEFINE n == born[c] + 1
             r == [NoRow EXCEPT !.id = n, !.status = s]
  <2>1. cert' = [cert EXCEPT ![c] = r] /\ born' = [born EXCEPT ![c] = n]
    BY <1>0, <1>2 DEF InsertCertificate
  <2>2. n \in 0 .. MaxRows /\ n # 0 /\ n = born[c] + 1
    BY <1>0, <1>2, Numbers DEF TabP, Exists
  <2> HIDE DEF n
  <2>3. r \in Row /\ r.id = n /\ r.status = s
    BY <2>2, NoRowOK DEF Row
  <2> HIDE DEF r
  <2>4. cert' \in [Certs -> Row] /\ cert'[c] = r /\ \A d \in Certs \ {c} : cert'[d] = cert[d]
    BY <1>0, <2>1, <2>3
  <2>5. /\ born' \in [Certs -> 0 .. MaxRows] /\ born'[c] = born[c] + 1
        /\ \A d \in Certs \ {c} : born'[d] = born[d]
    BY <1>0, <2>1, <2>2
  <2>6. TabP'
    <3>1. /\ \A d \in Certs \ {c} : cert'[d].id \in {0, born'[d]} /\ (cert'[d].id = 0 => born'[d] < MaxRows)
          /\ cert'[c].id = born'[c] /\ cert'[c].id # 0
      BY <1>0, <2>2, <2>3, <2>4, <2>5 DEF TabP
    <3> QED BY <2>4, <2>5, <3>1 DEF TabP
  <2>7. RowsMove
    BY <1>0, <2>2, <2>3, <2>4, <2>5 DEF RowsMove
  <2> QED BY <1>2, <2>2, <2>3, <2>4, <2>5, <2>6, <2>7
<1> QED BY <1>1, <1>2

LEMMA InsertSafe ==
  ASSUME IInv, NEW w \in Writers, Insert(w) PROVE IInv'
<1>0. /\ up \in [Writers -> Upsert] /\ up[w] \in Upsert /\ UpOK(up[w])
      /\ IssP /\ RecP /\ Owing /\ TabP /\ Sticks /\ RestP
      /\ hist \in HistSet /\ events \subseteq Events
      /\ cert \in [Certs -> Row] /\ born \in [Certs -> 0 .. MaxRows]
  BY WriterFacts DEF IInv, RestP, TabP
<1>1. /\ up[w].pc = "insert" /\ issuer' = issuer /\ UNCHANGED Others /\ events' = events
      /\ hist' = hist
  BY DEF Insert
<1>2. IssP'
  BY <1>0, <1>1, IssFrame DEF Others, requests
<1>3. CASE Return(w) /\ UNCHANGED <<cert, born>> /\ Fault
  <2>1. up' = [up EXCEPT ![w] = NoUpsert] /\ UpOK(NoUpsert)
    BY <1>3, NoUpsertOK DEF Return
  <2> QED BY <1>0, <1>1, <1>2, <1>3, <2>1, WriterQuiet DEF Fault
<1>4. CASE ~(Return(w) /\ UNCHANGED <<cert, born>> /\ Fault)
  <2>0. PICK c, id, s :
          /\ c = up[w].cert /\ s = up[w].status
          /\ id = (IF Exists(c) THEN cert[c].id ELSE born[c] + 1)
    OBVIOUS
  <2>1. /\ InsertCertificate(c, s)
        /\ up' = [up EXCEPT ![w].pc = "observe", ![w].id = id]
        /\ NoFault
    BY <1>4, <2>0 DEF Insert
  <2>2. c \in Certs /\ s \in Status /\ s # "revoked"
    BY <1>0, <1>1, <2>0, WriterFacts DEF UpOK
  <2>3. /\ TabP' /\ RowsMove /\ born' \in [Certs -> 0 .. MaxRows]
        /\ \A d \in Certs \ {c} : cert'[d] = cert[d]
        /\ Exists(c) => /\ cert'[c].id = cert[c].id /\ cert'[c].rev = cert[c].rev
                        /\ cert'[c].managed = cert[c].managed
                        /\ cert'[c].status = KeptStatus(cert[c], s)
        /\ ~Exists(c) => cert'[c].id = born[c] + 1 /\ cert'[c].status = s
    BY <1>0, <2>1, <2>2, InsertOK
  <2>4. id \in 1 .. MaxRows /\ cert'[c].id = id
    <3>1. cert[c].id \in 0 .. MaxRows
      BY <1>0, <2>2 DEF Row
    <3>2. CASE Exists(c)
      BY <2>0, <2>3, <3>1, <3>2 DEF Exists
    <3>3. CASE ~Exists(c)
      BY <1>0, <2>0, <2>2, <2>3, <3>3, Numbers DEF Exists, TabP
    <3> QED BY <3>2, <3>3
  <2>5. PICK x : /\ up' = [up EXCEPT ![w] = x] /\ UpOK(x) /\ x.pc = "observe" /\ x.cert = c
                 /\ x.id = id /\ x.status = s
    <3> DEFINE y == [up[w] EXCEPT !.pc = "observe", !.id = id]
    <3>1. up' = [up EXCEPT ![w] = y]
      BY <1>0, <2>1
    <3>2. /\ y \in Upsert /\ y.pc = "observe" /\ y.cert = c /\ y.id = id
          /\ y.status = s
      <4>1. id \in 0 .. MaxRows
        BY <2>4
      <4> QED BY <1>0, <2>0, <4>1 DEF Upsert
    <3> HIDE DEF y
    <3>3. UpOK(y)
      BY <1>0, <2>0, <2>2, <2>4, <3>2 DEF UpOK
    <3> QED BY <3>1, <3>2, <3>3
  <2>6. /\ UpP' /\ CheckP' /\ RecP' /\ CatP' /\ WorldP'
        /\ up'[w] = x /\ \A v \in Writers \ {w} : up'[v] = up[v]
        /\ rec' = rec /\ pki' = pki
    BY <1>1, <2>5, WriterMoves
  <2>7. RestP'
    BY <1>0, <1>1, <2>1, OpOK DEF RestP
  <2>8. \A d \in Certs :
           cert'[d].id = cert[d].id /\ cert[d].rev = "via_check" /\ cert[d].status = "revoked" =>
             cert'[d].rev = "via_check" /\ cert'[d].status = "revoked"
    <3> SUFFICES ASSUME cert'[c].id = cert[c].id, cert[c].rev = "via_check", cert[c].status = "revoked"
                 PROVE  cert'[c].rev = "via_check" /\ cert'[c].status = "revoked"
      BY <2>3
    <3>1. Exists(c)
      BY <2>4 DEF Exists
    <3> QED BY <2>3, <3>1 DEF KeptStatus
  <2>9. Sticks'
    BY <1>0, <1>1, <2>3, <2>7, <2>8, StickRows
  <2>10. \A d \in Certs : cert'[d].id = cert[d].id /\ cert[d].managed = "managed_in_vault" =>
           cert'[d].managed = "managed_in_vault"
    <3> SUFFICES ASSUME cert'[c].id = cert[c].id, cert[c].managed = "managed_in_vault"
                 PROVE  cert'[c].managed = "managed_in_vault"
      BY <2>3
    <3>1. Exists(c)
      BY <2>4 DEF Exists
    <3> QED BY <2>3, <3>1
  <2>11. Owing'
    BY <1>0, <2>3, <2>6, <2>10, OwingRows
  <2> QED BY <1>2, <2>3, <2>6, <2>7, <2>9, <2>11 DEF IInv
<1> QED BY <1>3, <1>4

-----------------------------------------------------------------------------
(* The theorems.                                                           *)

\* No step breaks the invariant.
LEMMA NextIInv == IInv /\ [Next]_vars => IInv'
<1> SUFFICES ASSUME IInv, [Next]_vars PROVE IInv'
  OBVIOUS
<1>1. ASSUME NEW w \in Writers, UpsertStep(w) PROVE IInv'
  BY <1>1, ReadSafe, InsertSafe, AfterSafe, StapleSafe DEF UpsertStep
<1>2. CASE UNCHANGED vars
  <2>1. /\ UNCHANGED <<cert, born, up, events, hist>> /\ NoFault /\ revoked' = revoked
        /\ check' = check /\ rec' = rec /\ catalog' = catalog /\ issuer' = issuer /\ pki' = pki
        /\ vaultCA' = vaultCA /\ import' = import /\ age' = age /\ cert' = cert /\ born' = born
    BY <1>2 DEF vars, world, requests, NoFault
  <2>2. CheckP' /\ RecP' /\ CatP' /\ IssP' /\ WorldP' /\ Owing'
    BY <2>1, CheckFrame, RecFrame, CatFrame, IssFrame, WorldFrame, OwingFrame DEF IInv
  <2> QED BY <2>1, <2>2, TableKept
<1> QED BY <1>1, <1>2, CheckSafe, CheckMarkSafe, PassSafe, ReconcileUpdateSafe, CatalogSafe,
           ImportSafe, WorldSafe DEF Next

\* The invariant holds in every reachable state.
LEMMA AlwaysIInv == Spec => []IInv
  BY InitIInv, NextIInv, PTL DEF Spec

\* Every variable of the inventory keeps its type, and the row of a fingerprint
\* carries the last id counted for it: what the handlers write are rows.
THEOREM TypeCorrect == Spec => []TypeOK
  BY PartsType, AlwaysIInv, PTL

\* A verified revocation stays on its row, status and marker, through upserts,
\* reconcile passes and imports, unless a mount of Vault said revoked as well
\* (the CASE of the upsert's ON CONFLICT, reconcile's own marker).
THEOREM RevocationsStick == Spec => []VerifiedRevocationSticks
<1>1. IInv => VerifiedRevocationSticks
  BY DEF IInv, Sticks
<1> QED BY <1>1, AlwaysIInv, PTL

\* A reconcile pass that answers ok has marked every row it owed as managed in
\* Vault, whatever upserts, imports and deletions ran beside it (Reconcile,
\* reconcileStatus, SetManagedStatus).
THEOREM OkPassesComplete == Spec => []OkPassIsComplete
<1>1. IInv => OkPassIsComplete
  <2> SUFFICES ASSUME IInv, rec.pc = "idle", rec.status = "ok", NEW k \in rec.base,
                      HasId(k[1], k[2])
               PROVE  cert[k[1]].managed = "managed_in_vault"
    BY DEF OkPassIsComplete
  <2>1. RecP /\ Owing /\ k[1] \in Certs
    BY DEF IInv, RecP, PassSet, RowKey
  <2>2. rec.errs = FALSE /\ ~Owed(k[1])
    BY <2>1, Nulls DEF RecP, Owed
  <2> QED BY <2>1, <2>2 DEF Owing
<1> QED BY <1>1, AlwaysIInv, PTL

\* An issuer is recorded as imported only when Vault has it, answers lost or
\* not (handleImportIssuer, SetIssuerVaultRef).
THEOREM ImportsInVault == Spec => []ImportedIsInVault
<1>1. IInv => ImportedIsInVault
  BY DEF IInv, IssP
<1> QED BY <1>1, AlwaysIInv, PTL
=============================================================================
