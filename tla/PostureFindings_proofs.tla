-------------------------- MODULE PostureFindings_proofs --------------------------
(***************************************************************************)
(* What a recompute whose inputs nobody changed has read is still true,    *)
(* what it has written is still there, and so is what the last of them     *)
(* left: proved of any number of certificates, recomputes and waivers.     *)
(***************************************************************************)
EXTENDS PostureFindings, SequenceTheorems, FiniteSetTheorems, WellFoundedInduction, TLAPS

Scores == {0} \cup {ScoreSeverity[s] : s \in Severities}
PackFinding == [rule : Rules, pack : {"sc081", "pci", "crypto", "ops"},
                sev : Severities \cup {"warning"}]
FindingRow == [rule : Rules, sev : Severities, waived : BOOLEAN, open : BOOLEAN]
RuleOnce(S) == \A f, g \in S : f.rule = g.rule => f = g

WaiverRow == [cert : Certs \cup {NULL}, rule : Waivable \cup {""},
              state : {"none", "active", "expired", "revoked"}]
ProcRow == [pc : {"idle", "next", "waivers", "upsert", "resolve", "list", "risk"},
            queue : SUBSET Certs, cert : Certs \cup {NULL}, todo : SUBSET Rules,
            expired : SUBSET Wids, cur : Seq(PackFinding), waived : SUBSET Rules, n : Nat,
            cand : SUBSET Rules, want : Rules \cup {NULL}, locked : SUBSET Rules,
            score : Scores, dirty : BOOLEAN]

Fields == {"nb", "life", "left", "key", "bits", "sha1", "chain", "san", "status",
           "managed", "scope", "env", "owner", "tags"}

\* A waiver of c for the rule is in force.
InForce(c, rule) ==
  \E w \in Wids : waiver[w].cert = c /\ waiver[w].rule = rule /\ waiver[w].state = "active"

\* What the rules and the waivers say of a certificate, as rows.
Verdict(c) == {[rule |-> f.rule, sev |-> MapPackSeverity(f.pack, f.sev),
                waived |-> InForce(c, f.rule), open |-> TRUE] : f \in Range(EvaluateCertAll(cert[c]))}

-----------------------------------------------------------------------------
(* The invariant, piece of state by piece of state.                        *)

CertP == DOMAIN cert = Certs /\ \A c \in Certs : Alive(c) => DOMAIN cert[c] = Fields
RowsP == finding \in [Certs -> SUBSET FindingRow] /\ \A c \in Certs : RuleOnce(finding[c])
WaiverP == /\ waiver \in [Wids -> WaiverRow]
           /\ \A w \in Wids : IF waiver[w].state = "none" THEN waiver[w].cert = NULL
                              ELSE waiver[w].cert \in Certs /\ waiver[w].rule \in Waivable
RestP == risk \in [Certs -> Scores] /\ ops \in 0 .. MaxOps /\ fresh \in [Certs -> BOOLEAN]

\* A recompute, wherever it is.
Shape(r) ==
  /\ r \in ProcRow
  /\ r.n \in 1 .. Len(r.cur) + 1
  /\ RuleOnce(Range(r.cur))
  /\ r.todo \cap r.waived = {}
  /\ IF r.pc \in {"idle", "next"} THEN r.cert = NULL ELSE r.cert \in Certs
  /\ r.pc = "waivers" => r.todo # {} /\ r.todo \subseteq {f.rule : f \in Range(r.cur)}
  /\ r.pc = "resolve" => IF r.want = NULL THEN r.cand = {} ELSE r.want \in r.cand

\* What it has read of the certificate and of the waivers is so,
Reads(r) ==
  /\ r.cur = EvaluateCertAll(cert[r.cert])
  /\ \A w \in Wids : waiver[w].cert = r.cert => (w \in r.expired <=> waiver[w].state = "expired")
  /\ \A f \in Range(r.cur) : f.rule \in r.todo \/ (f.rule \in r.waived <=> InForce(r.cert, f.rule))
  /\ r.pc # "waivers" => r.todo = {}
\* every open row it does not write is one it resolves,
Resolves(r) ==
  \A f \in Open(r.cert) : f.rule \in {g.rule : g \in Range(r.cur)} \cup r.cand \cup r.locked
\* what it has written is there, and the score it carries is theirs.
Writes(r) ==
  /\ Open(r.cert) = Verdict(r.cert)
  /\ r.pc = "risk" => r.score = scoreFromFindings(Open(r.cert))

Clean(r) ==
  r.cert # NULL /\ ~r.dirty =>
    /\ Alive(r.cert)
    /\ r.pc \in {"waivers", "upsert", "resolve"} => Reads(r)
    /\ r.pc = "resolve" => Resolves(r)
    /\ r.pc \in {"list", "risk"} => Writes(r)

ProcP == /\ proc \in [Procs -> ProcRow]
         /\ \A p \in Procs : Shape(proc[p]) /\ Clean(proc[p])

\* What the last of them left.
FreshP == \A c \in Certs : fresh[c] =>
            Alive(c) /\ Open(c) = Verdict(c) /\ risk[c] = scoreFromFindings(Open(c))

IInv == CertP /\ RowsP /\ WaiverP /\ RestP /\ ProcP /\ FreshP

-----------------------------------------------------------------------------
(* What the rules return.                                                  *)

LEMMA EmptyOK == <<>> \in Seq(PackFinding) /\ Range(<<>>) = {}
  BY DEF Range

LEMMA SingleOK ==
  ASSUME NEW f \in PackFinding PROVE <<f>> \in Seq(PackFinding) /\ Range(<<f>>) = {f}
  BY DEF Range

LEMMA JoinOK ==
  ASSUME NEW s \in Seq(PackFinding), NEW t \in Seq(PackFinding)
  PROVE  s \o t \in Seq(PackFinding) /\ Range(s \o t) = Range(s) \cup Range(t)
  BY RangeConcatenation, ConcatProperties

LEMMA JoinThree ==
  ASSUME NEW s \in Seq(PackFinding), NEW t \in Seq(PackFinding), NEW u \in Seq(PackFinding)
  PROVE  /\ (s \o t) \o u \in Seq(PackFinding)
         /\ Range((s \o t) \o u) = Range(s) \cup Range(t) \cup Range(u)
<1> DEFINE a == s \o t
<1>1. a \in Seq(PackFinding) /\ Range(a) = Range(s) \cup Range(t)
  BY JoinOK
<1> HIDE DEF a
<1>2. a \o u \in Seq(PackFinding) /\ Range(a \o u) = Range(a) \cup Range(u)
  BY <1>1, JoinOK
<1> QED BY <1>1, <1>2 DEF a

LEMMA JoinFour ==
  ASSUME NEW s \in Seq(PackFinding), NEW t \in Seq(PackFinding), NEW u \in Seq(PackFinding),
         NEW v \in Seq(PackFinding)
  PROVE  /\ ((s \o t) \o u) \o v \in Seq(PackFinding)
         /\ Range(((s \o t) \o u) \o v) = Range(s) \cup Range(t) \cup Range(u) \cup Range(v)
<1> DEFINE a == (s \o t) \o u
<1>1. a \in Seq(PackFinding) /\ Range(a) = Range(s) \cup Range(t) \cup Range(u)
  BY JoinThree
<1> HIDE DEF a
<1>2. a \o v \in Seq(PackFinding) /\ Range(a \o v) = Range(a) \cup Range(v)
  BY <1>1, JoinOK
<1> QED BY <1>1, <1>2 DEF a

LEMMA FindingOK ==
  ASSUME NEW r \in Rules, NEW k \in {"sc081", "pci", "crypto", "ops"},
         NEW s \in Severities \cup {"warning"}
  PROVE  /\ Finding(r, k, s) \in PackFinding
         /\ Finding(r, k, s).rule = r /\ Finding(r, k, s).pack = k /\ Finding(r, k, s).sev = s
  BY DEF Finding, PackFinding

\* The findings of the packs that have one severity.
Fixed == {Finding(sc081Ceilings[i].rule, "sc081", "critical") : i \in 1 .. 4}
  \cup {Finding("pci.inventory.missing_owner", "pci", "warning"),
        Finding("pci.inventory.untagged_prod", "pci", "warning"),
        Finding("pci.inventory.not_in_vault", "pci", "info"),
        Finding("crypto.rsa.weak_key", "crypto", "critical"),
        Finding("crypto.signature.sha1", "crypto", "critical"),
        Finding("crypto.key.ecdsa.weak", "crypto", "warning"),
        Finding("ops.revoked", "ops", "critical"),
        Finding("ops.incomplete_chain", "ops", "medium"),
        Finding("ops.untrusted_root", "ops", "medium"),
        Finding("ops.san_mismatch", "ops", "low"),
        Finding("ops.weak_key", "ops", "high"),
        Finding("ops.shadow_external", "ops", "info"),
        Finding("ops.shadow_internal", "ops", "low")}
OpsExpired == Finding("ops.expired", "ops", "high")
OpsExpiring == Finding("ops.expiring_soon", "ops", "medium")

LEMMA FixedOK ==
  /\ Fixed \subseteq PackFinding /\ OpsExpired \in PackFinding /\ OpsExpiring \in PackFinding
  /\ RuleOnce(Fixed)
  /\ \A f \in Fixed : f.rule \notin ExpiryRules \cup {"ops.expired", "ops.expiring_soon"}
<1>1. \A i \in 1 .. 4 : sc081Ceilings[i].rule \in Rules
  BY DEF Rules
<1>2. Fixed \subseteq PackFinding /\ OpsExpired \in PackFinding /\ OpsExpiring \in PackFinding
  BY <1>1 DEF Fixed, OpsExpired, OpsExpiring, Finding, PackFinding, Rules, Severities
<1>3. sc081Ceilings[1].rule = "sc081.validity.47d" /\ sc081Ceilings[2].rule = "sc081.validity.64d"
      /\ sc081Ceilings[3].rule = "sc081.validity.99d" /\ sc081Ceilings[4].rule = "sc081.validity.199d"
  BY DEF sc081Ceilings
<1>4. \A i \in 1 .. 4 : i = 1 \/ i = 2 \/ i = 3 \/ i = 4
  OBVIOUS
<1>5. RuleOnce(Fixed)
  BY <1>3, <1>4 DEF Fixed, Finding, RuleOnce
<1>6. \A f \in Fixed : f.rule \notin ExpiryRules \cup {"ops.expired", "ops.expiring_soon"}
  BY <1>3, <1>4 DEF Fixed, Finding, ExpiryRules
<1> QED BY <1>2, <1>5, <1>6

LEMMA ValidityOK ==
  ASSUME NEW c
  PROVE  /\ sc081ValidityFinding(c) \in Seq(PackFinding)
         /\ Range(sc081ValidityFinding(c)) \subseteq Fixed
<1> DEFINE S == {i \in DOMAIN sc081Ceilings : c.nb >= sc081Ceilings[i].from}
           i == sc081CeilingFor(c.nb)
           f == Finding(sc081Ceilings[i].rule, "sc081", "critical")
<1>1. DOMAIN sc081Ceilings = 1 .. 4
  BY DEF sc081Ceilings
<1>2. i \in 0 .. 4
  <2>1. S \in SUBSET (1 .. 4)
    BY <1>1
  <2>2. i = IF S = {} THEN 0 ELSE Min(S)
    BY DEF sc081CeilingFor
  <2> HIDE DEF S, i
  <2>3. ASSUME S # {} PROVE Min(S) \in S
    <3>1. \A y \in S : y = 1 \/ y = 2 \/ y = 3 \/ y = 4
      BY <2>1
    <3>2. PICK z : z \in S
      BY <2>3
    <3>3. \E x \in S : \A y \in S : x =< y
      BY <3>1, <3>2
    <3> QED BY <3>3 DEF Min
  <2> QED BY <2>1, <2>2, <2>3
<1>3. CASE i = 0
  BY <1>3, EmptyOK DEF sc081ValidityFinding
<1>4. CASE i \in 1 .. 4
  <2>1. f \in Fixed /\ f \in PackFinding
    BY <1>4, FixedOK DEF Fixed
  <2>2. i # 0
    BY <1>4
  <2>3. sc081ValidityFinding(c) = When(c.life > 24 * sc081Ceilings[i].maxDays, f)
    BY <2>2 DEF sc081ValidityFinding
  <2> HIDE DEF i, f
  <2> QED BY <2>1, <2>3, EmptyOK, SingleOK DEF When
<1> QED BY <1>2, <1>3, <1>4

LEMMA ExpiryOK ==
  ASSUME NEW c
  PROVE  /\ sc081ExpiryFinding(c) \in Seq(PackFinding)
         /\ \/ Range(sc081ExpiryFinding(c)) = {}
            \/ \E f \in PackFinding : f.rule \in ExpiryRules /\ Range(sc081ExpiryFinding(c)) = {f}
<1> DEFINE F(rule, base) == Finding(rule, "sc081", sc081ExpirySeverity(c, base))
<1>1. \/ sc081ExpiryFinding(c) = <<>>
      \/ \E rule \in ExpiryRules, base \in {"critical", "warning"} :
            sc081ExpiryFinding(c) = <<F(rule, base)>>
  <2> DEFINE a == F("sc081.expiry.expired", "critical")
             b == F("sc081.expiry.critical", "critical")
             d == F("sc081.expiry.warning", "warning")
  <2>1. sc081ExpiryFinding(c) \in {<<>>, <<a>>, <<b>>, <<d>>}
    <3> HIDE DEF F
    <3> QED BY DEF sc081ExpiryFinding, F
  <2> QED BY <2>1 DEF ExpiryRules
<1>2. ASSUME NEW rule \in ExpiryRules, NEW base \in {"critical", "warning"}
      PROVE  F(rule, base) \in PackFinding /\ F(rule, base).rule = rule
  <2>1. sc081ExpirySeverity(c, base) \in Severities \cup {"warning"}
    BY DEF sc081ExpirySeverity, Severities
  <2> QED BY <2>1, FindingOK DEF Rules
<1> HIDE DEF F
<1>3. CASE sc081ExpiryFinding(c) = <<>>
  BY <1>3, EmptyOK
<1>4. ASSUME NEW rule \in ExpiryRules, NEW base \in {"critical", "warning"},
             sc081ExpiryFinding(c) = <<F(rule, base)>>
      PROVE  /\ sc081ExpiryFinding(c) \in Seq(PackFinding)
             /\ \E f \in PackFinding : f.rule \in ExpiryRules /\ Range(sc081ExpiryFinding(c)) = {f}
  BY <1>2, <1>4, SingleOK
<1> QED BY <1>1, <1>3, <1>4

LEMMA PCIOK ==
  ASSUME NEW c
  PROVE  EvaluatePCI(c) \in Seq(PackFinding) /\ Range(EvaluatePCI(c)) \subseteq Fixed
<1> DEFINE f1 == Finding("pci.inventory.missing_owner", "pci", "warning")
           f2 == Finding("pci.inventory.untagged_prod", "pci", "warning")
           f3 == Finding("pci.inventory.not_in_vault", "pci", "info")
           w1 == When(c.scope = "external" /\ ~c.owner, f1)
           w2 == When(isProd(c) /\ (~c.owner \/ ~c.tags), f2)
           w3 == When(c.managed = "unmanaged" /\ c.scope = "external" /\ isProd(c), f3)
<1>1. f1 \in Fixed /\ f2 \in Fixed /\ f3 \in Fixed
  BY DEF Fixed
<1>2. EvaluatePCI(c) = (w1 \o w2) \o w3
  BY DEF EvaluatePCI
<1> HIDE DEF f1, f2, f3
<1>3. /\ w1 \in Seq(PackFinding) /\ Range(w1) \subseteq Fixed
      /\ w2 \in Seq(PackFinding) /\ Range(w2) \subseteq Fixed
      /\ w3 \in Seq(PackFinding) /\ Range(w3) \subseteq Fixed
  BY <1>1, FixedOK, EmptyOK, SingleOK DEF When
<1> HIDE DEF w1, w2, w3
<1> QED BY <1>2, <1>3, JoinThree

LEMMA CryptoOK ==
  ASSUME NEW c
  PROVE  EvaluateCrypto(c) \in Seq(PackFinding) /\ Range(EvaluateCrypto(c)) \subseteq Fixed
<1> DEFINE f1 == Finding("crypto.rsa.weak_key", "crypto", "critical")
           f2 == Finding("crypto.signature.sha1", "crypto", "critical")
           f3 == Finding("crypto.key.ecdsa.weak", "crypto", "warning")
           w1 == When(c.key = "RSA" /\ c.bits < 2048, f1)
           w2 == When(c.sha1, f2)
           w3 == When(c.key = "ECDSA" /\ c.bits < 256, f3)
<1>1. f1 \in Fixed /\ f2 \in Fixed /\ f3 \in Fixed
  BY DEF Fixed
<1>2. EvaluateCrypto(c) = (w1 \o w2) \o w3
  BY DEF EvaluateCrypto
<1> HIDE DEF f1, f2, f3
<1>3. /\ w1 \in Seq(PackFinding) /\ Range(w1) \subseteq Fixed
      /\ w2 \in Seq(PackFinding) /\ Range(w2) \subseteq Fixed
      /\ w3 \in Seq(PackFinding) /\ Range(w3) \subseteq Fixed
  BY <1>1, FixedOK, EmptyOK, SingleOK DEF When
<1> HIDE DEF w1, w2, w3
<1> QED BY <1>2, <1>3, JoinThree

\* The insights, and when the two on expiry are among them.
LEMMA ClassifyOK ==
  ASSUME NEW c, NEW k \in BOOLEAN
  PROVE  /\ ClassifyCertificate(c, k) \in Seq(PackFinding)
         /\ \E R \in SUBSET Fixed : Range(ClassifyCertificate(c, k)) =
              R \cup (IF c.status = "expired" /\ ~k THEN {OpsExpired} ELSE {})
                \cup (IF c.status = "expiring_soon" /\ ~k THEN {OpsExpiring} ELSE {})
<1> DEFINE f2 == Finding("ops.revoked", "ops", "critical")
           f4 == Finding("ops.incomplete_chain", "ops", "medium")
           f5 == Finding("ops.untrusted_root", "ops", "medium")
           f6 == Finding("ops.san_mismatch", "ops", "low")
           f7 == Finding("ops.weak_key", "ops", "high")
           f8 == Finding("ops.shadow_external", "ops", "info")
           f9 == Finding("ops.shadow_internal", "ops", "low")
           w1 == When(c.status = "expired" /\ ~k, OpsExpired)
           w2 == When(c.status = "revoked", f2)
           w3 == When(c.status = "expiring_soon" /\ ~k, OpsExpiring)
           w4 == When(c.chain = "incomplete", f4)
           w5 == When(c.chain = "untrusted_root", f5)
           w6 == When(~c.san, f6)
           w7 == When(isWeakKey(c), f7)
           w8 == When(c.managed = "unmanaged" /\ c.scope = "external", f8)
           w9 == When(c.managed = "unmanaged" /\ c.scope # "external", f9)
           A == Range(w1)
           B == Range(w3)
<1>1. /\ f2 \in Fixed /\ f4 \in Fixed /\ f5 \in Fixed /\ f6 \in Fixed /\ f7 \in Fixed
      /\ f8 \in Fixed /\ f9 \in Fixed
  BY DEF Fixed
<1>2. ClassifyCertificate(c, k) = w1 \o w2 \o w3 \o w4 \o w5 \o w6 \o w7 \o w8 \o w9
  BY DEF ClassifyCertificate, OpsExpired, OpsExpiring
<1> HIDE DEF f2, f4, f5, f6, f7, f8, f9
<1>3. /\ w2 \in Seq(PackFinding) /\ Range(w2) \subseteq Fixed
      /\ w4 \in Seq(PackFinding) /\ Range(w4) \subseteq Fixed
      /\ w5 \in Seq(PackFinding) /\ Range(w5) \subseteq Fixed
      /\ w6 \in Seq(PackFinding) /\ Range(w6) \subseteq Fixed
      /\ w7 \in Seq(PackFinding) /\ Range(w7) \subseteq Fixed
      /\ w8 \in Seq(PackFinding) /\ Range(w8) \subseteq Fixed
      /\ w9 \in Seq(PackFinding) /\ Range(w9) \subseteq Fixed
  BY <1>1, FixedOK, EmptyOK, SingleOK DEF When
<1>4. /\ w1 \in Seq(PackFinding) /\ A = IF c.status = "expired" /\ ~k THEN {OpsExpired} ELSE {}
      /\ w3 \in Seq(PackFinding) /\ B = IF c.status = "expiring_soon" /\ ~k THEN {OpsExpiring} ELSE {}
  BY FixedOK, EmptyOK, SingleOK DEF When
<1> HIDE DEF w1, w2, w3, w4, w5, w6, w7, w8, w9
<1> DEFINE s3 == w1 \o w2 \o w3
           s6 == s3 \o w4 \o w5 \o w6
           s9 == s6 \o w7 \o w8 \o w9
<1>5. s3 \in Seq(PackFinding) /\ Range(s3) = A \cup Range(w2) \cup B
  <2>1. w1 \in Seq(PackFinding) /\ w2 \in Seq(PackFinding) /\ w3 \in Seq(PackFinding)
    BY <1>3, <1>4
  <2> QED BY <2>1, JoinThree
<1> HIDE DEF s3
<1>6. s6 \in Seq(PackFinding) /\ Range(s6) = Range(s3) \cup Range(w4) \cup Range(w5) \cup Range(w6)
  BY <1>3, <1>5, JoinFour
<1> HIDE DEF s6
<1>7. s9 \in Seq(PackFinding) /\ Range(s9) = Range(s6) \cup Range(w7) \cup Range(w8) \cup Range(w9)
  BY <1>3, <1>6, JoinFour
<1>8. ClassifyCertificate(c, k) = s9
  BY <1>2 DEF s3, s6
<1> HIDE DEF s9
<1> DEFINE R == Range(w2) \cup Range(w4) \cup Range(w5) \cup Range(w6) \cup Range(w7)
                \cup Range(w8) \cup Range(w9)
<1>9. R \in SUBSET Fixed
  BY <1>3
<1>10. Range(s9) = R \cup A \cup B
  BY <1>5, <1>6, <1>7
<1> HIDE DEF R, A, B
<1> QED BY <1>4, <1>7, <1>8, <1>9, <1>10

\* What the rules say of a certificate: at most one finding of SC-081 on its
\* expiry, and the operational one when SC-081 has none above info.
LEMMA EvalParts ==
  ASSUME NEW c
  PROVE  /\ EvaluateCertAll(c) \in Seq(PackFinding)
         /\ \E R \in SUBSET Fixed, X \in SUBSET PackFinding :
              /\ \A f \in X : f.rule \in ExpiryRules /\ X = {f}
              /\ LET k == \E f \in X : f.sev # "info"
                 IN Range(EvaluateCertAll(c)) = R \cup X
                      \cup (IF c.status = "expired" /\ ~k THEN {OpsExpired} ELSE {})
                      \cup (IF c.status = "expiring_soon" /\ ~k THEN {OpsExpiring} ELSE {})
<1> DEFINE v == sc081ValidityFinding(c)
           x == sc081ExpiryFinding(c)
           s == EvaluateSC081(c)
           pci == EvaluatePCI(c)
           cry == EvaluateCrypto(c)
           k == hasSC081ExpiryViolation(s)
           o == ClassifyCertificate(c, k)
           X == Range(x)
<1>1. v \in Seq(PackFinding) /\ Range(v) \subseteq Fixed
  BY ValidityOK
<1>2. x \in Seq(PackFinding) /\ X \in SUBSET PackFinding /\ \A f \in X : f.rule \in ExpiryRules /\ X = {f}
  BY ExpiryOK
<1>3. s = v \o x
  BY DEF EvaluateSC081
<1>4. EvaluateCertAll(c) = ((s \o pci) \o cry) \o o
  BY DEF EvaluateCertAll, EvaluateOps
<1> HIDE DEF v, x
<1>5. s \in Seq(PackFinding) /\ Range(s) = Range(v) \cup X
  BY <1>1, <1>2, <1>3, JoinOK
<1>6. k = \E f \in X : f.sev # "info"
  BY <1>1, <1>2, <1>5, FixedOK DEF hasSC081ExpiryViolation
<1>7. k \in BOOLEAN
  BY DEF hasSC081ExpiryViolation
<1> HIDE DEF k
<1>8. PICK Q \in SUBSET Fixed :
        Range(o) = Q \cup (IF c.status = "expired" /\ ~k THEN {OpsExpired} ELSE {})
                     \cup (IF c.status = "expiring_soon" /\ ~k THEN {OpsExpiring} ELSE {})
  BY <1>7, ClassifyOK
<1>9. o \in Seq(PackFinding)
  BY <1>7, ClassifyOK
<1>10. /\ pci \in Seq(PackFinding) /\ Range(pci) \subseteq Fixed
       /\ cry \in Seq(PackFinding) /\ Range(cry) \subseteq Fixed
  BY PCIOK, CryptoOK
<1> HIDE DEF s, pci, cry, o, X
<1>11. /\ EvaluateCertAll(c) \in Seq(PackFinding)
       /\ Range(EvaluateCertAll(c)) = Range(s) \cup Range(pci) \cup Range(cry) \cup Range(o)
  BY <1>4, <1>5, <1>9, <1>10, JoinFour
<1> DEFINE R == Range(v) \cup Range(pci) \cup Range(cry) \cup Q
<1>12. R \in SUBSET Fixed
  BY <1>1, <1>8, <1>10
<1>13. Range(EvaluateCertAll(c)) = R \cup X
                      \cup (IF c.status = "expired" /\ ~k THEN {OpsExpired} ELSE {})
                      \cup (IF c.status = "expiring_soon" /\ ~k THEN {OpsExpiring} ELSE {})
  BY <1>5, <1>8, <1>11
<1> HIDE DEF R
<1> QED BY <1>2, <1>6, <1>11, <1>12, <1>13

\* One finding per rule.
LEMMA EvalOK ==
  ASSUME NEW c
  PROVE  EvaluateCertAll(c) \in Seq(PackFinding) /\ RuleOnce(Range(EvaluateCertAll(c)))
<1> DEFINE E == Range(EvaluateCertAll(c))
           k(X) == \E f \in X : f.sev # "info"
<1>1. PICK R \in SUBSET Fixed, X \in SUBSET PackFinding :
        /\ \A f \in X : f.rule \in ExpiryRules /\ X = {f}
        /\ E = R \cup X
              \cup (IF c.status = "expired" /\ ~k(X) THEN {OpsExpired} ELSE {})
              \cup (IF c.status = "expiring_soon" /\ ~k(X) THEN {OpsExpiring} ELSE {})
  BY EvalParts
<1>2. OpsExpired.rule = "ops.expired" /\ OpsExpiring.rule = "ops.expiring_soon"
  BY DEF OpsExpired, OpsExpiring, Finding
<1>3. \A r \in ExpiryRules : r # "ops.expired" /\ r # "ops.expiring_soon"
  BY DEF ExpiryRules
<1> HIDE DEF E
<1>4. RuleOnce(E)
  BY <1>1, <1>2, <1>3, FixedOK DEF RuleOnce
<1> QED BY <1>4, EvalParts DEF E

\* Of an expiry that the stored status knows of, there is exactly one finding
\* above info.
LEMMA ExpiryOnce ==
  ASSUME NEW c, c.status \in {"expired", "expiring_soon"}
  PROVE  \E g \in Range(EvaluateCertAll(c)) :
           {f \in Range(EvaluateCertAll(c)) :
              f.rule \in ExpiryRules \cup {"ops.expired", "ops.expiring_soon"} /\ f.sev # "info"} = {g}
<1> DEFINE E == Range(EvaluateCertAll(c))
           k(X) == \E f \in X : f.sev # "info"
           Y == {f \in E : f.rule \in ExpiryRules \cup {"ops.expired", "ops.expiring_soon"} /\ f.sev # "info"}
<1>1. PICK R \in SUBSET Fixed, X \in SUBSET PackFinding :
        /\ \A f \in X : f.rule \in ExpiryRules /\ X = {f}
        /\ E = R \cup X
              \cup (IF c.status = "expired" /\ ~k(X) THEN {OpsExpired} ELSE {})
              \cup (IF c.status = "expiring_soon" /\ ~k(X) THEN {OpsExpiring} ELSE {})
  BY EvalParts
<1>2. /\ OpsExpired.rule = "ops.expired" /\ OpsExpiring.rule = "ops.expiring_soon"
      /\ OpsExpired.sev # "info" /\ OpsExpiring.sev # "info"
  BY DEF OpsExpired, OpsExpiring, Finding
<1> HIDE DEF E
<1>3. \A f \in R : f \notin Y
  BY FixedOK
<1>4. CASE k(X)
  <2>1. PICK g \in X : g.sev # "info"
    BY <1>4
  <2>2. X = {g} /\ E = R \cup {g}
    BY <1>1, <1>4, <2>1
  <2>3. Y = {g}
    BY <1>1, <1>3, <2>1, <2>2
  <2> QED BY <2>2, <2>3 DEF E
<1>5. CASE ~k(X) /\ c.status = "expired"
  <2>1. E = R \cup X \cup {OpsExpired}
    BY <1>1, <1>5
  <2>2. Y = {OpsExpired}
    BY <1>2, <1>3, <1>5, <2>1
  <2> QED BY <2>1, <2>2 DEF E
<1>6. CASE ~k(X) /\ c.status = "expiring_soon"
  <2>1. E = R \cup X \cup {OpsExpiring}
    BY <1>1, <1>6
  <2>2. Y = {OpsExpiring}
    BY <1>2, <1>3, <1>6, <2>1
  <2> QED BY <2>1, <2>2 DEF E
<1> QED BY <1>4, <1>5, <1>6

\* Severities as stored, and scores.
LEMMA SeverityOK ==
  ASSUME NEW f \in PackFinding
  PROVE  /\ MapPackSeverity(f.pack, f.sev) \in Severities
         /\ MapPackSeverity(f.pack, f.sev) = "info" <=> f.sev = "info"
  BY DEF MapPackSeverity, PackFinding, Severities

LEMMA ScoreOK ==
  ASSUME NEW rows \in SUBSET FindingRow PROVE scoreFromFindings(rows) \in Scores
<1> DEFINE S == {ScoreSeverity[f.sev] : f \in {g \in rows : ~g.waived}} \cup {0}
<1>1. \A f \in rows : f.sev \in Severities
  BY DEF FindingRow
<1>2. \A s \in Severities : ScoreSeverity[s] \in {90, 70, 40, 20, 5}
  BY DEF Severities, ScoreSeverity
<1>3. S \subseteq Scores
  BY <1>1 DEF Scores
<1>4. \A y \in S : y \in {0, 90, 70, 40, 20, 5}
  BY <1>1, <1>2
<1>5. 0 \in S /\ scoreFromFindings(rows) = Max(S)
  BY DEF scoreFromFindings, Max0
<1> HIDE DEF S
<1>6. \E x \in S : \A y \in S : x >= y
  BY <1>4, <1>5
<1>7. Max(S) \in S
  BY <1>6 DEF Max
<1> QED BY <1>3, <1>5, <1>7

-----------------------------------------------------------------------------
(* Recomputes.                                                             *)

LEMMA Nulls == NULL \notin Certs /\ NULL \notin Rules
  BY PostureNull

LEMMA IdleOK == /\ Idle \in ProcRow /\ Shape(Idle) /\ Clean(Idle)
                /\ Idle.cert = NULL /\ Idle.dirty = FALSE
<1>1. Idle \in ProcRow
  BY EmptyOK DEF Idle, ProcRow, Scores
<1>2. Shape(Idle)
  BY <1>1, EmptyOK DEF Idle, Shape, RuleOnce
<1> QED BY <1>1, <1>2 DEF Idle, Clean

LEMMA StartedOK ==
  ASSUME NEW Q \in SUBSET Certs
  PROVE  LET x == [Idle EXCEPT !.pc = "next", !.queue = Q]
         IN x \in ProcRow /\ Shape(x) /\ Clean(x) /\ x.cert = NULL
<1> DEFINE x == [Idle EXCEPT !.pc = "next", !.queue = Q]
<1>1. /\ x \in ProcRow /\ x.pc = "next" /\ x.cert = NULL /\ x.cur = <<>> /\ x.n = 1
      /\ x.waived = {}
  BY IdleOK DEF ProcRow, Idle
<1> HIDE DEF x
<1>2. Shape(x) /\ Clean(x)
  BY <1>1, EmptyOK DEF Shape, RuleOnce, Clean
<1> QED BY <1>1, <1>2 DEF x

LEMMA DirtyOK ==
  ASSUME NEW r \in ProcRow, Shape(r)
  PROVE  LET x == [r EXCEPT !.dirty = TRUE]
         IN x \in ProcRow /\ Shape(x) /\ x.cert = r.cert /\ x.dirty = TRUE
<1> DEFINE x == [r EXCEPT !.dirty = TRUE]
<1>1. /\ x \in ProcRow /\ x.pc = r.pc /\ x.cert = r.cert /\ x.cur = r.cur /\ x.n = r.n
      /\ x.todo = r.todo /\ x.waived = r.waived /\ x.want = r.want /\ x.cand = r.cand /\ x.dirty = TRUE
  BY DEF ProcRow
<1> HIDE DEF x
<1>2. Shape(x)
  BY <1>1 DEF Shape
<1> QED BY <1>1, <1>2 DEF x

LEMMA DirtiedOK ==
  ASSUME NEW P \in [Procs -> ProcRow], \A q \in Procs : Shape(P[q]), NEW c
  PROVE  /\ Dirtied(P, c) \in [Procs -> ProcRow]
         /\ \A q \in Procs :
              /\ Shape(Dirtied(P, c)[q]) /\ Dirtied(P, c)[q].cert = P[q].cert
              /\ P[q].cert = c => Dirtied(P, c)[q].dirty = TRUE
              /\ P[q].cert # c => Dirtied(P, c)[q] = P[q]
<1> DEFINE x(q) == [P[q] EXCEPT !.dirty = TRUE]
<1>1. \A q \in Procs : x(q) \in ProcRow /\ Shape(x(q)) /\ x(q).cert = P[q].cert /\ x(q).dirty = TRUE
  BY DirtyOK
<1>2. Dirtied(P, c) = [q \in Procs |-> IF P[q].cert = c THEN x(q) ELSE P[q]]
  BY DEF Dirtied
<1> HIDE DEF x
<1> QED BY <1>1, <1>2

-----------------------------------------------------------------------------
(* Frames: what a step leaves alone.                                       *)

WaiversSame(d) ==
  \A w \in Wids : waiver'[w] = waiver[w] \/ (waiver[w].cert # d /\ waiver'[w].cert # d)
Same(d) == cert'[d] = cert[d] /\ finding'[d] = finding[d] /\ WaiversSame(d)

LEMMA VerdictSame ==
  ASSUME NEW d, cert'[d] = cert[d], WaiversSame(d)
  PROVE  /\ \A rule : InForce(d, rule)' <=> InForce(d, rule)
         /\ Verdict(d)' = Verdict(d) /\ (Alive(d)' <=> Alive(d))
<1>1. \A rule : InForce(d, rule)' <=> InForce(d, rule)
  BY DEF WaiversSame, InForce, Wids
<1>2. \A rule : InForce(d, rule)' = InForce(d, rule)
  BY <1>1, Zenon DEF InForce
<1>3. Verdict(d)' = Verdict(d)
  BY <1>2 DEF Verdict
<1> QED BY <1>1, <1>3 DEF Alive

LEMMA CleanSame ==
  ASSUME NEW r, Shape(r), Clean(r), r.cert \in Certs => Same(r.cert)
  PROVE  Clean(r)'
<1>1. CASE r.cert = NULL \/ r.dirty
  BY <1>1 DEF Clean
<1>2. CASE r.cert # NULL /\ ~r.dirty
  <2>1. r.cert \in Certs /\ Same(r.cert)
    BY <1>2 DEF Shape
  <2> DEFINE d == r.cert
  <2>2. /\ \A rule : InForce(d, rule)' <=> InForce(d, rule)
        /\ Verdict(d)' = Verdict(d) /\ (Alive(d)' <=> Alive(d)) /\ Open(d)' = Open(d)
    BY <2>1, VerdictSame DEF Same, Open
  <2>3. Reads(r) => Reads(r)'
    BY <2>1, <2>2 DEF Reads, Same, WaiversSame, Wids
  <2>4. (Resolves(r) => Resolves(r)') /\ (Writes(r) => Writes(r)')
    BY <2>2 DEF Resolves, Writes, scoreFromFindings, Max0
  <2> QED BY <1>2, <2>2, <2>3, <2>4 DEF Clean
<1> QED BY <1>1, <1>2

\* A step of the recomputes that leaves their inputs and findings alone.
LEMMA ProcsSame ==
  ASSUME NEW P \in [Procs -> ProcRow], \A q \in Procs : Shape(P[q]) /\ Clean(P[q]),
         proc' = P, UNCHANGED <<cert, finding, waiver>>
  PROVE  ProcP'
<1>1. \A d : Same(d)
  BY DEF Same, WaiversSame
<1>2. ASSUME NEW q \in Procs PROVE Shape(proc'[q]) /\ Clean(proc[q])'
  <2>1. PICK y : y = proc'[q]
    OBVIOUS
  <2>2. Shape(y) /\ Clean(y)
    BY <2>1
  <2>3. Clean(y)'
    BY <1>1, <2>2, CleanSame
  <2> QED BY <2>1, <2>2, <2>3
<1> QED BY <1>2 DEF ProcP

LEMMA TablesSame ==
  ASSUME IInv, NEW P \in [Procs -> ProcRow], \A q \in Procs : Shape(P[q]) /\ Clean(P[q]),
         proc' = P, UNCHANGED <<cert, risk, finding, waiver, fresh>>, ops' \in 0 .. MaxOps
  PROVE  IInv'
<1>1. \A d : Same(d)
  BY DEF Same, WaiversSame
<1>2. ProcP'
  BY ProcsSame
<1>3. ASSUME NEW c \in Certs, fresh'[c]
      PROVE  (Alive(c) /\ Open(c) = Verdict(c) /\ risk[c] = scoreFromFindings(Open(c)))'
  <2>1. Verdict(c)' = Verdict(c) /\ Open(c)' = Open(c) /\ (Alive(c)' <=> Alive(c))
    BY <1>1, VerdictSame DEF Same, Open
  <2> QED BY <1>3, <2>1 DEF IInv, FreshP
<1>4. FreshP'
  BY <1>3 DEF FreshP
<1>5. CertP' /\ RowsP' /\ WaiverP' /\ RestP'
  BY DEF IInv, CertP, RowsP, WaiverP, RestP, Alive
<1> QED BY <1>2, <1>4, <1>5 DEF IInv

LEMMA StepOK ==
  ASSUME IInv, NEW p \in Procs, NEW x, Shape(x), Clean(x), proc' = [proc EXCEPT ![p] = x],
         UNCHANGED <<cert, risk, finding, waiver, fresh>>, ops' \in 0 .. MaxOps
  PROVE  IInv'
<1> DEFINE P == [proc EXCEPT ![p] = x]
<1>1. x \in ProcRow /\ proc \in [Procs -> ProcRow]
  BY DEF Shape, IInv, ProcP
<1>2. P \in [Procs -> ProcRow] /\ \A q \in Procs : Shape(P[q]) /\ Clean(P[q])
  BY <1>1 DEF IInv, ProcP
<1> QED BY <1>2, TablesSame

\* The recomputes of c under way are told.
Told(c) ==
  /\ proc' \in [Procs -> ProcRow]
  /\ \A q \in Procs : /\ Shape(proc'[q])
                      /\ proc'[q].cert = c => proc'[q].dirty = TRUE
                      /\ proc'[q].cert \in Certs \ {c} => proc'[q] = proc[q]

\* A step that changes what the posture of c depends on, or the posture
\* itself in a way that may be out of date, and says so.
LEMMA TouchedOK ==
  ASSUME IInv, NEW c \in Certs, Told(c),
         \A d \in Certs \ {c} : Same(d) /\ risk'[d] = risk[d],
         fresh' = [fresh EXCEPT ![c] = FALSE]
  PROVE  ProcP' /\ FreshP' /\ fresh' \in [Certs -> BOOLEAN]
<1>0. fresh \in [Certs -> BOOLEAN]
  BY DEF IInv, RestP
<1>1. ASSUME NEW q \in Procs PROVE Shape(proc'[q]) /\ Clean(proc[q])'
  <2>1. PICK y : y = proc'[q]
    OBVIOUS
  <2>2. Shape(y)
    BY <2>1 DEF Told
  <2>3. CASE y.cert \in Certs \ {c}
    <3>1. Clean(y)
      BY <2>1, <2>3 DEF IInv, ProcP, Told
    <3> QED BY <2>1, <2>2, <2>3, <3>1, CleanSame
  <2>4. CASE y.cert \notin Certs \ {c}
    <3>1. y.cert = NULL \/ y.dirty
      BY <2>1, <2>2, <2>4 DEF Shape, Told
    <3>2. Clean(y)'
      BY <3>1 DEF Clean
    <3> QED BY <2>1, <2>2, <3>2
  <2> QED BY <2>3, <2>4
<1>2. ProcP'
  BY <1>1 DEF ProcP, Told
<1>3. ASSUME NEW d \in Certs, fresh'[d]
      PROVE  (Alive(d) /\ Open(d) = Verdict(d) /\ risk[d] = scoreFromFindings(Open(d)))'
  <2>1. d # c /\ fresh[d]
    BY <1>0, <1>3
  <2>2. Same(d) /\ risk'[d] = risk[d]
    BY <2>1
  <2>3. Verdict(d)' = Verdict(d) /\ Open(d)' = Open(d) /\ (Alive(d)' <=> Alive(d))
    BY <2>2, VerdictSame DEF Same, Open
  <2> QED BY <2>1, <2>2, <2>3 DEF IInv, FreshP
<1>4. FreshP'
  BY <1>3 DEF FreshP
<1> QED BY <1>0, <1>2, <1>4

LEMMA DirtiedTold ==
  ASSUME NEW c \in Certs, NEW P \in [Procs -> ProcRow], \A q \in Procs : Shape(P[q]),
         \A q \in Procs : P[q] = proc[q] \/ P[q].cert \in {c, NULL}, proc' = Dirtied(P, c)
  PROVE  Told(c)
<1> DEFINE D == Dirtied(P, c)
<1>1. /\ D \in [Procs -> ProcRow]
      /\ \A q \in Procs : /\ Shape(D[q]) /\ D[q].cert = P[q].cert
                          /\ P[q].cert = c => D[q].dirty = TRUE
                          /\ P[q].cert # c => D[q] = P[q]
  BY DirtiedOK
<1>2. proc' = D
  OBVIOUS
<1> HIDE DEF D
<1> QED BY <1>1, <1>2, Nulls DEF Told

LEMMA ChangeTold == ASSUME IInv, NEW c \in Certs, proc' = Dirtied(proc, c) PROVE Told(c)
<1>1. proc \in [Procs -> ProcRow] /\ \A q \in Procs : Shape(proc[q])
  BY DEF IInv, ProcP
<1> QED BY <1>1, DirtiedTold

LEMMA RestartTold ==
  ASSUME IInv, NEW p \in Procs, NEW c \in Certs, proc' = Start(Dirtied(proc, c), p, {c})
  PROVE  Told(c)
<1> DEFINE P == Dirtied(proc, c)
           x == [Idle EXCEPT !.pc = "next", !.queue = {c}]
<1>1. /\ P \in [Procs -> ProcRow]
      /\ \A q \in Procs : /\ Shape(P[q]) /\ P[q].cert = proc[q].cert
                          /\ proc[q].cert = c => P[q].dirty = TRUE
                          /\ proc[q].cert # c => P[q] = proc[q]
  BY DirtiedOK DEF IInv, ProcP
<1>2. x \in ProcRow /\ Shape(x) /\ x.cert = NULL
  BY StartedOK
<1>3. proc' = [P EXCEPT ![p] = x]
  BY DEF Start
<1> HIDE DEF P, x
<1> QED BY <1>1, <1>2, <1>3, Nulls DEF Told

LEMMA OpOK == ASSUME IInv, Op PROVE ops' \in 0 .. MaxOps
  BY PostureNumbers DEF IInv, RestP, Op

LEMMA ProcOf ==
  ASSUME IInv, NEW p \in Procs
  PROVE  proc \in [Procs -> ProcRow] /\ proc[p] \in ProcRow /\ Shape(proc[p]) /\ Clean(proc[p])
  BY DEF IInv, ProcP

-----------------------------------------------------------------------------
(* Who recomputes, and what changes the inputs.                            *)

LEMMA CreateWaiverOK == ASSUME IInv, NEW p \in Procs, CreateWaiver(p) PROVE IInv'
<1>1. PICK w \in Wids, c \in Certs, r \in Waivable :
        /\ waiver[w].state = "none"
        /\ waiver' = [waiver EXCEPT ![w] = [cert |-> c, rule |-> r, state |-> "active"]]
        /\ proc' = Start(Dirtied(proc, c), p, {c}) /\ Outdated(c)
  BY DEF CreateWaiver
<1>2. ops' \in 0 .. MaxOps /\ cert' = cert /\ risk' = risk /\ finding' = finding
  BY OpOK DEF CreateWaiver
<1>3. waiver \in [Wids -> WaiverRow] /\ waiver[w].cert = NULL
  BY <1>1 DEF IInv, WaiverP
<1> DEFINE x == [cert |-> c, rule |-> r, state |-> "active"]
<1>4. x \in WaiverRow /\ x.cert = c /\ x.rule \in Waivable /\ x.state = "active"
  BY DEF WaiverRow
<1>5. waiver' = [waiver EXCEPT ![w] = x]
  BY <1>1
<1> HIDE DEF x
<1>6. WaiverP'
  BY <1>3, <1>4, <1>5 DEF WaiverP, IInv, Wids
<1>7. \A d \in Certs \ {c} : Same(d) /\ risk'[d] = risk[d]
  BY <1>2, <1>3, <1>4, <1>5, Nulls DEF Same, WaiversSame
<1>8. Told(c) /\ fresh' = [fresh EXCEPT ![c] = FALSE]
  BY <1>1, RestartTold DEF Outdated
<1>9. ProcP' /\ FreshP' /\ fresh' \in [Certs -> BOOLEAN]
  BY <1>7, <1>8, TouchedOK
<1>10. CertP' /\ RowsP' /\ RestP'
  BY <1>2, <1>9 DEF IInv, CertP, RowsP, RestP, Alive
<1> QED BY <1>6, <1>9, <1>10 DEF IInv

\* A waiver of c changes its state.
LEMMA WaiverChange ==
  ASSUME IInv, NEW w \in Wids, waiver[w].state \in {"active", "expired"},
         NEW s \in {"expired", "revoked"}, waiver' = [waiver EXCEPT ![w].state = s],
         Told(waiver[w].cert), Outdated(waiver[w].cert), ops' \in 0 .. MaxOps,
         UNCHANGED <<cert, risk, finding>>
  PROVE  IInv'
<1>1. PICK c : c = waiver[w].cert
  OBVIOUS
<1>2. /\ waiver \in [Wids -> WaiverRow] /\ waiver[w] \in WaiverRow /\ c \in Certs
      /\ waiver[w].rule \in Waivable
  BY <1>1 DEF IInv, WaiverP
<1> DEFINE x == [waiver[w] EXCEPT !.state = s]
<1>3. x \in WaiverRow /\ x.cert = c /\ x.rule = waiver[w].rule /\ x.state = s
  BY <1>1, <1>2 DEF WaiverRow
<1>4. waiver' = [waiver EXCEPT ![w] = x]
  BY <1>2
<1> HIDE DEF x
<1>5. WaiverP'
  BY <1>2, <1>3, <1>4 DEF WaiverP, IInv, Wids
<1>6. \A d \in Certs \ {c} : Same(d) /\ risk'[d] = risk[d]
  BY <1>1, <1>2, <1>3, <1>4 DEF Same, WaiversSame
<1>7. Told(c) /\ fresh' = [fresh EXCEPT ![c] = FALSE]
  BY <1>1 DEF Outdated
<1>8. ProcP' /\ FreshP' /\ fresh' \in [Certs -> BOOLEAN]
  BY <1>2, <1>6, <1>7, TouchedOK
<1>9. CertP' /\ RowsP' /\ RestP'
  BY <1>8 DEF IInv, CertP, RowsP, RestP, Alive
<1> QED BY <1>5, <1>8, <1>9 DEF IInv

LEMMA RevokeWaiverOK == ASSUME IInv, NEW p \in Procs, RevokeWaiver(p) PROVE IInv'
<1>1. PICK w \in Wids :
        /\ waiver[w].state \in {"active", "expired"}
        /\ waiver' = [waiver EXCEPT ![w].state = "revoked"]
        /\ proc' = Start(Dirtied(proc, waiver[w].cert), p, {waiver[w].cert})
        /\ Outdated(waiver[w].cert)
  BY DEF RevokeWaiver
<1>2. waiver[w].cert \in Certs
  BY <1>1 DEF IInv, WaiverP
<1>3. Told(waiver[w].cert)
  BY <1>1, <1>2, RestartTold
<1>4. ops' \in 0 .. MaxOps /\ UNCHANGED <<cert, risk, finding>>
  BY OpOK DEF RevokeWaiver
<1> QED BY <1>1, <1>3, <1>4, WaiverChange

LEMMA WaiverExpiresOK == ASSUME IInv, WaiverExpires PROVE IInv'
<1>1. PICK w \in Wids :
        /\ waiver[w].state = "active" /\ waiver' = [waiver EXCEPT ![w].state = "expired"]
        /\ proc' = Dirtied(proc, waiver[w].cert) /\ Outdated(waiver[w].cert)
  BY DEF WaiverExpires
<1>2. waiver[w].cert \in Certs
  BY <1>1 DEF IInv, WaiverP
<1>3. Told(waiver[w].cert)
  BY <1>1, <1>2, ChangeTold
<1>4. ops' \in 0 .. MaxOps /\ UNCHANGED <<cert, risk, finding>>
  BY OpOK DEF WaiverExpires
<1> QED BY <1>1, <1>3, <1>4, WaiverChange

\* The row of c changes.
LEMMA CertChange ==
  ASSUME IInv, NEW c \in Certs, NEW r, DOMAIN r = Fields, cert' = [cert EXCEPT ![c] = r],
         Told(c), Outdated(c), ops' \in 0 .. MaxOps, UNCHANGED <<risk, finding, waiver>>
  PROVE  IInv'
<1>1. DOMAIN cert = Certs
  BY DEF IInv, CertP
<1>2. CertP'
  BY <1>1 DEF IInv, CertP, Alive
<1>3. \A d \in Certs \ {c} : Same(d) /\ risk'[d] = risk[d]
  BY <1>1 DEF Same, WaiversSame
<1>4. fresh' = [fresh EXCEPT ![c] = FALSE]
  BY DEF Outdated
<1>5. ProcP' /\ FreshP' /\ fresh' \in [Certs -> BOOLEAN]
  BY <1>3, <1>4, TouchedOK
<1>6. RowsP' /\ WaiverP' /\ RestP'
  BY <1>5 DEF IInv, RowsP, WaiverP, RestP
<1> QED BY <1>2, <1>5, <1>6 DEF IInv

LEMMA EnrichmentOK == ASSUME IInv, NEW p \in Procs, UpdateCertificateEnrichment(p) PROVE IInv'
<1>1. PICK c \in Certs, u \in Patches :
        /\ Alive(c)
        /\ cert' = [cert EXCEPT ![c].owner = Given(u.owner, @), ![c].tags = Given(u.tags, @),
                                ![c].env = Given(u.env, @)]
        /\ proc' = Start(Dirtied(proc, c), p, {c}) /\ Outdated(c)
  BY DEF UpdateCertificateEnrichment
<1>2. ops' \in 0 .. MaxOps /\ UNCHANGED <<risk, finding, waiver>>
  BY OpOK DEF UpdateCertificateEnrichment
<1>3. DOMAIN cert = Certs /\ DOMAIN cert[c] = Fields
  BY <1>1 DEF IInv, CertP
<1> DEFINE r == [cert[c] EXCEPT !.owner = Given(u.owner, @), !.tags = Given(u.tags, @),
                               !.env = Given(u.env, @)]
<1>4. cert' = [cert EXCEPT ![c] = r] /\ DOMAIN r = Fields
  BY <1>1, <1>3
<1> HIDE DEF r
<1>5. Told(c)
  BY <1>1, RestartTold
<1> QED BY <1>1, <1>2, <1>4, <1>5, CertChange

LEMMA ChangedOK ==
  ASSUME IInv, NEW c \in Certs, NEW r, DOMAIN r = Fields, Changed(c, r), Op PROVE IInv'
<1>1. /\ cert' = [cert EXCEPT ![c] = r] /\ proc' = Dirtied(proc, c) /\ Outdated(c)
      /\ UNCHANGED <<risk, finding, waiver>>
  BY DEF Changed
<1>2. Told(c) /\ ops' \in 0 .. MaxOps
  BY <1>1, ChangeTold, OpOK
<1> QED BY <1>1, <1>2, CertChange

LEMMA ElapseOK == ASSUME IInv, Elapse PROVE IInv'
<1>1. PICK c \in Certs, h \in Hours : Alive(c) /\ Changed(c, [cert[c] EXCEPT !.left = h])
  BY DEF Elapse
<1>2. DOMAIN [cert[c] EXCEPT !.left = h] = Fields
  BY <1>1 DEF IInv, CertP
<1>3. Op
  BY DEF Elapse
<1> QED BY <1>1, <1>2, <1>3, ChangedOK

LEMMA InventoryWriteOK == ASSUME IInv, InventoryWrite PROVE IInv'
<1>1. PICK c \in Certs :
        /\ Alive(c)
        /\ \/ Changed(c, [cert[c] EXCEPT !.status = Compute(cert[c].left, ExpiringSoonDays)])
           \/ Changed(c, [cert[c] EXCEPT !.status = "revoked"])
           \/ Changed(c, [cert[c] EXCEPT !.managed = "managed_in_vault"])
  BY DEF InventoryWrite
<1>2. PICK r : DOMAIN r = Fields /\ Changed(c, r)
  <2>1. DOMAIN cert[c] = Fields
    BY <1>1 DEF IInv, CertP
  <2>2. \A v : /\ DOMAIN [cert[c] EXCEPT !.status = v] = Fields
               /\ DOMAIN [cert[c] EXCEPT !.managed = v] = Fields
    BY <2>1
  <2> QED BY <1>1, <2>2
<1>3. Op
  BY DEF InventoryWrite
<1> QED BY <1>2, <1>3, ChangedOK

LEMMA DeleteCertificateOK == ASSUME IInv, DeleteCertificate PROVE IInv'
<1>1. PICK c \in Certs :
        /\ cert' = [cert EXCEPT ![c] = NULL]
        /\ risk' = [risk EXCEPT ![c] = 0] /\ finding' = [finding EXCEPT ![c] = {}]
        /\ waiver' = [w \in Wids |-> IF waiver[w].cert = c
                                     THEN [waiver[w] EXCEPT !.state = "revoked"] ELSE waiver[w]]
        /\ proc' = Dirtied(proc, c) /\ Outdated(c)
  BY DEF DeleteCertificate
<1>2. ops' \in 0 .. MaxOps
  BY OpOK DEF DeleteCertificate
<1>3. /\ DOMAIN cert = Certs /\ risk \in [Certs -> Scores] /\ finding \in [Certs -> SUBSET FindingRow]
      /\ waiver \in [Wids -> WaiverRow]
  BY DEF IInv, CertP, RestP, RowsP, WaiverP
<1> DEFINE x(w) == [waiver[w] EXCEPT !.state = "revoked"]
<1>4. ASSUME NEW w \in Wids, waiver[w].cert = c
      PROVE  x(w) \in WaiverRow /\ x(w).cert = c /\ x(w).rule \in Waivable /\ x(w).state = "revoked"
  <2>1. waiver[w] \in WaiverRow
    BY <1>3
  <2>2. waiver[w].rule \in Waivable
    BY <1>4, Nulls DEF IInv, WaiverP
  <2> QED BY <1>4, <2>1, <2>2 DEF WaiverRow
<1>5. waiver' = [w \in Wids |-> IF waiver[w].cert = c THEN x(w) ELSE waiver[w]]
  BY <1>1
<1> HIDE DEF x
<1>6. WaiverP'
  BY <1>3, <1>4, <1>5 DEF IInv, WaiverP, Wids
<1>7. CertP' /\ RowsP'
  BY <1>1, <1>3 DEF IInv, CertP, RowsP, Alive, RuleOnce
<1>8. \A d \in Certs \ {c} : Same(d) /\ risk'[d] = risk[d]
  BY <1>1, <1>3, <1>4, <1>5 DEF Same, WaiversSame
<1>9. Told(c) /\ fresh' = [fresh EXCEPT ![c] = FALSE]
  BY <1>1, ChangeTold DEF Outdated
<1>10. ProcP' /\ FreshP' /\ fresh' \in [Certs -> BOOLEAN]
  BY <1>8, <1>9, TouchedOK
<1>11. RestP'
  BY <1>1, <1>2, <1>3, <1>10 DEF RestP, Scores
<1> QED BY <1>6, <1>7, <1>10, <1>11 DEF IInv

LEMMA RollbackOK ==
  ASSUME IInv, NEW p \in Procs, Rollback(p), ops' \in 0 .. MaxOps,
         UNCHANGED <<cert, risk, finding, waiver, fresh>>
  PROVE  IInv'
  BY IdleOK, StepOK DEF Rollback

LEMMA EndsOK ==
  ASSUME IInv, NEW p \in Procs, Fail(p) \/ DeadlockVictim(p) PROVE IInv'
<1>1. Rollback(p) /\ UNCHANGED <<cert, risk, finding, waiver, fresh>> /\ (Op \/ ops' = ops)
  BY DEF Fail, DeadlockVictim
<1>2. ops' \in 0 .. MaxOps
  BY <1>1, OpOK DEF IInv, RestP
<1> QED BY <1>1, <1>2, RollbackOK

LEMMA StutterOK == ASSUME IInv, UNCHANGED vars PROVE IInv'
<1>1. /\ proc' = proc /\ UNCHANGED <<cert, risk, finding, waiver, fresh>> /\ ops' \in 0 .. MaxOps
      /\ proc \in [Procs -> ProcRow] /\ \A q \in Procs : Shape(proc[q]) /\ Clean(proc[q])
  BY DEF vars, IInv, RestP, ProcP
<1> QED BY <1>1, TablesSame

LEMMA RecomputeScanOK == ASSUME IInv, NEW p \in Procs, RecomputeScan(p) PROVE IInv'
<1>1. PICK Q \in SUBSET Certs : proc' = IF Q = {} THEN proc ELSE Start(proc, p, Q)
  BY DEF RecomputeScan
<1>2. UNCHANGED <<cert, risk, finding, waiver, ops, fresh>> /\ ops' \in 0 .. MaxOps
  BY DEF RecomputeScan, IInv, RestP
<1>3. CASE Q = {}
  BY <1>1, <1>2, <1>3, StutterOK DEF vars
<1>4. CASE Q # {}
  <2> DEFINE x == [Idle EXCEPT !.pc = "next", !.queue = Q]
  <2>1. Shape(x) /\ Clean(x)
    BY StartedOK
  <2>2. proc' = [proc EXCEPT ![p] = x]
    BY <1>1, <1>4 DEF Start
  <2> HIDE DEF x
  <2> QED BY <1>2, <2>1, <2>2, StepOK
<1> QED BY <1>3, <1>4

-----------------------------------------------------------------------------
(* RecomputeCert.                                                          *)

LEMMA ReadCertOK == ASSUME IInv, NEW p \in Procs, ReadCert(p) PROVE IInv'
<1>0. UNCHANGED <<cert, risk, finding, waiver, ops, fresh>> /\ ops' \in 0 .. MaxOps
  BY DEF ReadCert, IInv, RestP
<1> DEFINE cur(c) == EvaluateCertAll(cert[c])
           todo(c) == {f.rule : f \in Range(cur(c))} \cap Waivable
           x(c) == [Idle EXCEPT
                 !.pc = IF todo(c) = {} THEN "upsert" ELSE "waivers",
                 !.queue = proc[p].queue \ {c}, !.cert = c, !.cur = cur(c), !.todo = todo(c),
                 !.expired = {w \in Wids : waiver[w].state = "expired"}]
<1>1. PICK c \in proc[p].queue :
        IF ~Alive(c) THEN Rollback(p) ELSE proc' = [proc EXCEPT ![p] = x(c)]
  BY DEF ReadCert
<1>2. c \in Certs /\ proc[p].queue \in SUBSET Certs
  BY ProcOf DEF ProcRow
<1>3. CASE ~Alive(c)
  BY <1>0, <1>1, <1>3, RollbackOK
<1>4. CASE Alive(c)
  <2> DEFINE C == cur(c)
             T == todo(c)
             y == x(c)
  <2>1. C \in Seq(PackFinding) /\ RuleOnce(Range(C))
    BY EvalOK
  <2>2. T \in SUBSET Rules /\ T \subseteq {f.rule : f \in Range(C)}
    <3>1. Range(C) \subseteq PackFinding
      BY <2>1, RangeOfSeq
    <3> HIDE DEF C
    <3> QED BY <3>1 DEF PackFinding, C
  <2>3. \A f \in Range(C) : f.rule \in T \/ ~InForce(c, f.rule)
    <3>1. \A rule : InForce(c, rule) => rule \in Waivable
      BY DEF IInv, WaiverP, InForce
    <3> QED BY <3>1
  <2> HIDE DEF cur, todo
  <2>4. /\ y \in ProcRow /\ y.pc = IF T = {} THEN "upsert" ELSE "waivers"
        /\ y.cert = c /\ y.cur = C /\ y.todo = T /\ y.n = 1 /\ y.waived = {}
        /\ y.expired = {w \in Wids : waiver[w].state = "expired"}
    BY <1>2, <2>1, <2>2 DEF Idle, ProcRow, Scores
  <2>5. proc' = [proc EXCEPT ![p] = y]
    BY <1>1, <1>4
  <2>6. C = EvaluateCertAll(cert[c])
    BY DEF cur
  <2> HIDE DEF C, T, y
  <2>7. Shape(y)
    BY <1>2, <2>1, <2>2, <2>4 DEF Shape
  <2>8. Clean(y)
    BY <1>4, <2>3, <2>4, <2>6 DEF Clean, Reads
  <2> QED BY <1>0, <2>5, <2>7, <2>8, StepOK
<1> QED BY <1>3, <1>4

\* A set of natural numbers that is not empty has its minimum.
LEMMA LeastOK == ASSUME NEW S \in SUBSET Nat, S # {} PROVE \E x \in S : \A y \in S : x <= y
<1> DEFINE R == OpToRel(<, Nat)
<1>1. IsWellFoundedOn(R, Nat)
  BY NatLessThanWellFounded
<1>2. \A x, y \in Nat : y < x => <<y, x>> \in R
  BY DEF OpToRel
<1> HIDE DEF R
<1>3. PICK x \in S : \A y \in S : ~ (<<y, x>> \in R)
  BY <1>1, WFMin
<1>4. ASSUME NEW y \in S PROVE x <= y
  <2>1. x \in Nat /\ y \in Nat
    OBVIOUS
  <2>2. ~ (y < x)
    BY <1>2, <1>3, <2>1
  <2> QED BY <2>1, <2>2
<1> QED BY <1>4

LEMMA ReadWaiverOK == ASSUME IInv, NEW p \in Procs, ReadWaiver(p) PROVE IInv'
<1> DEFINE a == proc[p]
           Q(j) == /\ proc[p].cur[j].rule \in proc[p].todo
                   /\ \A k \in 1 .. j - 1 : proc[p].cur[k].rule \notin proc[p].todo
           i == CHOOSE j \in DOMAIN proc[p].cur : Q(j)
           r == proc[p].cur[i].rule
           x == [a EXCEPT !.todo = @ \ {r}, !.pc = IF a.todo = {r} THEN "upsert" ELSE "waivers",
                   !.waived = IF ActiveWaiver(a.cert, r, a.expired) THEN @ \cup {r} ELSE @]
<1>0. UNCHANGED <<cert, risk, finding, waiver, ops, fresh>> /\ ops' \in 0 .. MaxOps
  BY DEF ReadWaiver, IInv, RestP
<1>1. a \in ProcRow /\ Shape(a) /\ Clean(a) /\ a.pc = "waivers" /\ proc \in [Procs -> ProcRow]
  BY ProcOf DEF ReadWaiver
<1>2. proc' = [proc EXCEPT ![p] = x]
  BY <1>1 DEF ReadWaiver
<1>3. a.cur \in Seq(PackFinding) /\ a.todo # {} /\ a.todo \subseteq {f.rule : f \in Range(a.cur)}
  BY <1>1 DEF ProcRow, Shape
<1>4. r \in a.todo
  <2> DEFINE S == {j \in DOMAIN a.cur : a.cur[j].rule \in a.todo}
  <2>1. DOMAIN a.cur = 1 .. Len(a.cur) /\ Len(a.cur) \in Nat
    BY <1>3
  <2>2. S \in SUBSET Nat
    BY <2>1
  <2>3. S # {}
    BY <1>3 DEF Range
  <2>4. PICK m \in S : \A y \in S : m <= y
    <3> HIDE DEF S
    <3> QED BY <2>2, <2>3, LeastOK
  <2>5. Q(m)
    <3>1. m \in Nat /\ m \in 1 .. Len(a.cur) /\ a.cur[m].rule \in a.todo
      BY <2>1, <2>4
    <3>2. ASSUME NEW k \in 1 .. m - 1 PROVE a.cur[k].rule \notin a.todo
      <4>1. k \in 1 .. Len(a.cur) /\ ~ (m <= k)
        BY <2>1, <3>1
      <4> QED BY <2>1, <2>4, <4>1
    <3> QED BY <3>1, <3>2
  <2>6. m \in DOMAIN proc[p].cur
    BY <2>4
  <2> HIDE DEF Q
  <2>7. Q(i)
    BY <2>5, <2>6
  <2> QED BY <2>7 DEF Q
<1> HIDE DEF i, r
<1>5. r \in Rules
  BY <1>1, <1>4 DEF ProcRow
<1> DEFINE on == ActiveWaiver(a.cert, r, a.expired)
<1>6. /\ x \in ProcRow /\ x.todo = a.todo \ {r} /\ x.pc = IF a.todo = {r} THEN "upsert" ELSE "waivers"
      /\ x.waived = IF on THEN a.waived \cup {r} ELSE a.waived
      /\ x.cert = a.cert /\ x.cur = a.cur /\ x.expired = a.expired /\ x.n = a.n /\ x.dirty = a.dirty
  <2> HIDE DEF on, a
  <2> QED BY <1>1, <1>5 DEF ProcRow, on
<1> HIDE DEF x, a
<1>7. Shape(x)
  BY <1>1, <1>3, <1>4, <1>6 DEF Shape
<1>8. ASSUME a.cert # NULL, ~a.dirty PROVE Alive(a.cert) /\ Reads(x)
  <2>1. Alive(a.cert) /\ Reads(a)
    BY <1>1, <1>8 DEF Clean
  <2>2. on <=> InForce(a.cert, r)
    BY <2>1 DEF ActiveWaiver, InForce, Reads
  <2> HIDE DEF on
  <2>3. ASSUME NEW f \in Range(a.cur), f.rule \notin x.todo
        PROVE  f.rule \in x.waived <=> InForce(a.cert, f.rule)
    <3>1. CASE f.rule = r
      <4>1. r \notin a.waived
        BY <1>1, <1>4 DEF Shape
      <4> QED BY <1>6, <2>2, <3>1, <4>1
    <3>2. CASE f.rule # r
      <4>1. f.rule \notin a.todo
        BY <1>6, <2>3, <3>2
      <4>2. f.rule \in x.waived <=> f.rule \in a.waived
        BY <1>6, <3>2
      <4> QED BY <2>1, <4>1, <4>2 DEF Reads
    <3> QED BY <3>1, <3>2
  <2>4. x.pc # "waivers" => x.todo = {}
    BY <1>6
  <2> QED BY <1>6, <2>1, <2>3, <2>4 DEF Reads
<1>9. Clean(x)
  BY <1>6, <1>8 DEF Clean
<1> QED BY <1>0, <1>2, <1>7, <1>9, StepOK

LEMMA UpsertFindingOK == ASSUME IInv, NEW p \in Procs, UpsertFinding(p) PROVE IInv'
<1> DEFINE a == proc[p]
           m == a.n + 1
           x == [a EXCEPT !.n = m]
<1>0. UNCHANGED <<cert, risk, finding, waiver, ops, fresh>> /\ ops' \in 0 .. MaxOps
  BY DEF UpsertFinding, IInv, RestP
<1>1. /\ a \in ProcRow /\ Shape(a) /\ Clean(a) /\ proc \in [Procs -> ProcRow]
      /\ a.pc = "upsert" /\ a.n <= Len(a.cur)
  BY ProcOf DEF UpsertFinding
<1>2. CASE Rollback(p)
  BY <1>0, <1>2, RollbackOK
<1>3. CASE proc' = [proc EXCEPT ![p].n = @ + 1]
  <2>1. proc' = [proc EXCEPT ![p] = x]
    BY <1>1, <1>3
  <2>0. m \in Nat
    BY <1>1 DEF ProcRow
  <2> HIDE DEF m
  <2>2. /\ x \in ProcRow /\ x.n = m /\ x.pc = a.pc /\ x.cert = a.cert /\ x.cur = a.cur
        /\ x.todo = a.todo /\ x.waived = a.waived /\ x.expired = a.expired /\ x.dirty = a.dirty
    <3> HIDE DEF a
    <3> QED BY <1>1, <2>0 DEF ProcRow
  <2> HIDE DEF x, a
  <2>3. Shape(x)
    <3>0. a.cur \in Seq(PackFinding) /\ Len(a.cur) \in Nat
      BY <1>1 DEF ProcRow
    <3>1. x.n \in 1 .. Len(x.cur) + 1
      BY <1>1, <2>2, <3>0 DEF Shape, m
    <3> QED BY <1>1, <2>2, <3>1 DEF Shape
  <2>4. Clean(x)
    BY <1>1, <2>2 DEF Clean, Reads
  <2> QED BY <1>0, <2>1, <2>3, <2>4, StepOK
<1> QED BY <1>2, <1>3 DEF UpsertFinding

LEMMA RowOf ==
  ASSUME IInv, NEW c \in Certs
  PROVE  finding[c] \in SUBSET FindingRow /\ RuleOnce(finding[c]) /\ Open(c) \in SUBSET FindingRow
         /\ \A f \in Open(c) : f.rule \in Rules
  BY DEF IInv, RowsP, Open, FindingRow

LEMMA StartResolveOK == ASSUME IInv, NEW p \in Procs, StartResolve(p) PROVE IInv'
<1> DEFINE a == proc[p]
           S == Stale(p)
<1>0. UNCHANGED <<cert, risk, finding, waiver, ops, fresh>> /\ ops' \in 0 .. MaxOps
  BY DEF StartResolve, IInv, RestP
<1>1. /\ a \in ProcRow /\ Shape(a) /\ Clean(a) /\ proc \in [Procs -> ProcRow]
      /\ a.pc = "upsert"
  BY ProcOf DEF StartResolve
<1>2. PICK r \in Pick(S) :
        proc' = [proc EXCEPT ![p].pc = "resolve", ![p].cand = S, ![p].want = r]
  BY DEF StartResolve
<1>3. a.cert \in Certs
  BY <1>1 DEF Shape
<1>4. S = {f.rule : f \in Open(a.cert)} \ {g.rule : g \in Range(a.cur)}
  BY DEF Stale, Seen
<1>5. S \in SUBSET Rules
  <2> HIDE DEF S, a
  <2> QED BY <1>3, <1>4, RowOf
<1> HIDE DEF S
<1>6. r \in Rules \cup {NULL} /\ IF r = NULL THEN S = {} ELSE r \in S
  BY <1>2, <1>5, Nulls DEF Pick
<1> DEFINE x == [a EXCEPT !.pc = "resolve", !.cand = S, !.want = r]
<1>7. proc' = [proc EXCEPT ![p] = x]
  BY <1>1, <1>2
<1>8. /\ x \in ProcRow /\ x.pc = "resolve" /\ x.cand = S /\ x.want = r /\ x.n = a.n
      /\ x.cert = a.cert /\ x.cur = a.cur /\ x.todo = a.todo /\ x.waived = a.waived
      /\ x.expired = a.expired /\ x.dirty = a.dirty /\ x.locked = a.locked
  <2> HIDE DEF a
  <2> QED BY <1>1, <1>5, <1>6 DEF ProcRow
<1> HIDE DEF x, a
<1>9. Shape(x)
  BY <1>1, <1>6, <1>8 DEF Shape
<1>10. Resolves(x)
  BY <1>4, <1>8 DEF Resolves
<1>11. Clean(x)
  BY <1>1, <1>8, <1>10 DEF Clean, Reads
<1> QED BY <1>0, <1>7, <1>9, <1>11, StepOK

LEMMA ResolveFindingOK == ASSUME IInv, NEW p \in Procs, ResolveFinding(p) PROVE IInv'
<1> DEFINE a == proc[p]
           S == a.cand \ {a.want}
<1>0. UNCHANGED <<cert, risk, finding, waiver, ops, fresh>> /\ ops' \in 0 .. MaxOps
  BY DEF ResolveFinding, IInv, RestP
<1>1. /\ a \in ProcRow /\ Shape(a) /\ Clean(a) /\ proc \in [Procs -> ProcRow]
      /\ a.pc = "resolve" /\ a.want # NULL
  BY ProcOf DEF ResolveFinding
<1>2. PICK r \in Pick(S) :
        proc' = [proc EXCEPT ![p].locked = @ \cup {proc[p].want},
                             ![p].cand = @ \ {proc[p].want}, ![p].want = r]
  BY DEF ResolveFinding
<1> DEFINE x == [a EXCEPT !.locked = @ \cup {a.want}, !.cand = S, !.want = r]
<1>3. proc' = [proc EXCEPT ![p] = x]
  BY <1>1, <1>2
<1> HIDE DEF a
<1>4. /\ S \in SUBSET Rules /\ a.locked \in SUBSET Rules /\ a.want \in Rules
      /\ r \in Rules \cup {NULL} /\ IF r = NULL THEN S = {} ELSE r \in S
  BY <1>1, <1>2, Nulls DEF Pick, ProcRow
<1>5. /\ x \in ProcRow /\ x.pc = "resolve" /\ x.cand = S /\ x.want = r /\ x.n = a.n
      /\ x.cert = a.cert /\ x.cur = a.cur /\ x.todo = a.todo /\ x.waived = a.waived
      /\ x.expired = a.expired /\ x.dirty = a.dirty /\ x.locked = a.locked \cup {a.want}
  BY <1>1, <1>4 DEF ProcRow
<1> HIDE DEF x
<1>6. Shape(x)
  BY <1>1, <1>4, <1>5 DEF Shape
<1>7. Resolves(a) => Resolves(x)
  BY <1>5 DEF Resolves
<1>8. Clean(x)
  BY <1>1, <1>5, <1>7 DEF Clean, Reads
<1> QED BY <1>0, <1>3, <1>6, <1>8, StepOK

LEMMA ListOpenFindingsOK == ASSUME IInv, NEW p \in Procs, ListOpenFindings(p) PROVE IInv'
<1> DEFINE a == proc[p]
           s == scoreFromFindings(Open(a.cert))
           x == [a EXCEPT !.pc = "risk", !.score = s]
<1>0. UNCHANGED <<cert, risk, finding, waiver, ops, fresh>> /\ ops' \in 0 .. MaxOps
  BY DEF ListOpenFindings, IInv, RestP
<1>1. /\ a \in ProcRow /\ Shape(a) /\ Clean(a) /\ proc \in [Procs -> ProcRow]
      /\ a.pc = "list" /\ a.cert \in Certs
  BY ProcOf DEF ListOpenFindings, Shape
<1>2. proc' = [proc EXCEPT ![p] = x]
  BY <1>1 DEF ListOpenFindings
<1> HIDE DEF a
<1>3. s \in Scores
  BY <1>1, RowOf, ScoreOK
<1>4. s = scoreFromFindings(Open(a.cert))
  OBVIOUS
<1> HIDE DEF s
<1>5. /\ x \in ProcRow /\ x.pc = "risk" /\ x.score = s /\ x.n = a.n
      /\ x.cert = a.cert /\ x.cur = a.cur /\ x.todo = a.todo /\ x.waived = a.waived /\ x.dirty = a.dirty
  BY <1>1, <1>3 DEF ProcRow
<1> HIDE DEF x
<1>6. Shape(x)
  BY <1>1, <1>5 DEF Shape
<1>7. Clean(x)
  BY <1>1, <1>4, <1>5 DEF Clean, Writes
<1> QED BY <1>0, <1>2, <1>6, <1>7, StepOK

\* What the transaction commits: one row per rule, and, of a recompute whose
\* inputs nobody changed, exactly what the rules and the waivers say is open.
LEMMA WrittenOK ==
  ASSUME IInv, NEW p \in Procs, proc[p].pc = "resolve", proc[p].want = NULL
  PROVE  /\ Written(p) \in SUBSET FindingRow /\ RuleOnce(Written(p))
         /\ ~proc[p].dirty => {f \in Written(p) : f.open} = Verdict(proc[p].cert)
<1> DEFINE a == proc[p]
           c == a.cert
           seen == {f.rule : f \in Range(a.cur)}
           old == {g \in finding[c] : g.rule \notin seen}
           kept(f) == [f EXCEPT !.open = @ /\ f.rule \notin a.locked]
           new(f) == [rule |-> f.rule, sev |-> MapPackSeverity(f.pack, f.sev),
                      waived |-> f.rule \in a.waived, open |-> TRUE]
           A == {kept(f) : f \in old}
           B == {new(f) : f \in Range(a.cur)}
<1>1. a \in ProcRow /\ Shape(a) /\ Clean(a) /\ a.pc = "resolve" /\ a.cand = {} /\ c \in Certs
  BY ProcOf DEF Shape
<1>2. Written(p) = A \cup B
  BY DEF Written, Seen
<1>3. finding[c] \in SUBSET FindingRow /\ RuleOnce(finding[c])
  BY <1>1, RowOf
<1>4. Range(a.cur) \subseteq PackFinding /\ RuleOnce(Range(a.cur))
  BY <1>1, RangeOfSeq DEF ProcRow, Shape
<1> HIDE DEF a
<1>5. ASSUME NEW f \in old
      PROVE  /\ kept(f) \in FindingRow /\ kept(f).rule = f.rule
             /\ kept(f).open <=> f.open /\ f.rule \notin a.locked
  <2>1. f \in FindingRow
    BY <1>3
  <2> QED BY <2>1 DEF FindingRow
<1>6. ASSUME NEW f \in Range(a.cur)
      PROVE  new(f) \in FindingRow /\ new(f).rule = f.rule /\ new(f).open = TRUE
  <2>1. f \in PackFinding /\ MapPackSeverity(f.pack, f.sev) \in Severities /\ f.rule \in Rules
    BY <1>4, SeverityOK DEF PackFinding
  <2> QED BY <2>1 DEF FindingRow
<1>7. ~a.dirty => \A f \in Range(a.cur) :
        new(f) = [rule |-> f.rule, sev |-> MapPackSeverity(f.pack, f.sev),
                  waived |-> InForce(c, f.rule), open |-> TRUE]
  <2> SUFFICES ASSUME ~a.dirty, NEW f \in Range(a.cur)
               PROVE  new(f) = [rule |-> f.rule, sev |-> MapPackSeverity(f.pack, f.sev),
                                waived |-> InForce(c, f.rule), open |-> TRUE]
    OBVIOUS
  <2>1. f.rule \in a.waived <=> InForce(c, f.rule)
    BY <1>1, Nulls DEF Clean, Reads
  <2>2. (f.rule \in a.waived) = InForce(c, f.rule)
    <3> DEFINE u == f.rule \in a.waived
               v == InForce(c, f.rule)
    <3>1. u \in BOOLEAN /\ v \in BOOLEAN
      BY DEF InForce
    <3>2. u <=> v
      BY <2>1
    <3> HIDE DEF u, v
    <3>3. u = v
      BY <3>1, <3>2
    <3> QED BY <3>3 DEF u, v
  <2> QED BY <2>2
<1> HIDE DEF kept, new
<1>8. \A f, g \in old : f.rule = g.rule => f = g
  BY <1>3 DEF RuleOnce
<1>9. \A f \in old, g \in Range(a.cur) : f.rule # g.rule
  OBVIOUS
<1> HIDE DEF old
<1>10. RuleOnce(A \cup B) /\ A \cup B \in SUBSET FindingRow
  <2>1. A \cup B \in SUBSET FindingRow
    BY <1>5, <1>6
  <2>2. \A x \in A : \E f \in old : x = kept(f) /\ x.rule = f.rule
    BY <1>5
  <2>3. \A x \in B : \E f \in Range(a.cur) : x = new(f) /\ x.rule = f.rule
    BY <1>6
  <2> HIDE DEF A, B
  <2>4. \A x, y \in A : x.rule = y.rule => x = y
    BY <1>8, <2>2
  <2>5. \A x, y \in B : x.rule = y.rule => x = y
    BY <1>4, <2>3 DEF RuleOnce
  <2>6. \A x \in A, y \in B : x.rule # y.rule
    BY <1>9, <2>2, <2>3
  <2> QED BY <2>1, <2>4, <2>5, <2>6 DEF RuleOnce
<1>11. ASSUME ~a.dirty PROVE {f \in A \cup B : f.open} = Verdict(c)
  <2>1. Reads(a) /\ Resolves(a)
    BY <1>1, <1>11, Nulls DEF Clean
  <2>2. \A f \in old : ~kept(f).open
    <3> SUFFICES ASSUME NEW f \in old, f.open, f.rule \notin a.locked PROVE FALSE
      BY <1>5
    <3>1. f \in Open(c) /\ f.rule \notin seen
      BY DEF old, Open
    <3> QED BY <1>1, <2>1, <3>1 DEF Resolves
  <2>3. {f \in A \cup B : f.open} = B
    BY <1>6, <2>2
  <2>4. a.cur = EvaluateCertAll(cert[c])
    BY <2>1 DEF Reads
  <2> DEFINE ver(f) == [rule |-> f.rule, sev |-> MapPackSeverity(f.pack, f.sev),
                        waived |-> InForce(c, f.rule), open |-> TRUE]
  <2>5. Verdict(c) = {ver(f) : f \in Range(a.cur)}
    BY <2>4 DEF Verdict
  <2>6. \A f \in Range(a.cur) : new(f) = ver(f)
    BY <1>7, <1>11
  <2> HIDE DEF ver
  <2> QED BY <2>3, <2>5, <2>6
<1> QED BY <1>2, <1>10, <1>11 DEF a

LEMMA CommitOK == ASSUME IInv, NEW p \in Procs, Commit(p) PROVE IInv'
<1>1. PICK a : a = proc[p]
  OBVIOUS
<1>2. PICK c : c = a.cert
  OBVIOUS
<1>3. /\ a \in ProcRow /\ Shape(a) /\ Clean(a) /\ proc \in [Procs -> ProcRow]
      /\ a.pc = "resolve" /\ a.want = NULL /\ c \in Certs
  BY <1>1, <1>2, ProcOf DEF Commit, Shape
<1> DEFINE y == [a EXCEPT !.pc = "list", !.n = 1, !.cur = <<>>, !.waived = {}, !.locked = {},
                          !.expired = {}]
           P == [proc EXCEPT ![p] = y]
<1>4. /\ y \in ProcRow /\ y.pc = "list" /\ y.n = 1 /\ y.cur = <<>> /\ y.waived = {} /\ y.cert = c
      /\ y.dirty = a.dirty
  BY <1>2, <1>3, EmptyOK DEF ProcRow
<1>5. /\ finding' = [finding EXCEPT ![c] = Written(p)]
      /\ IF a.dirty THEN proc' = Dirtied(P, c) /\ fresh' = [fresh EXCEPT ![c] = FALSE]
                    ELSE proc' = P /\ fresh' = fresh
      /\ cert' = cert /\ risk' = risk /\ waiver' = waiver /\ ops' = ops
  BY <1>1, <1>2, <1>3 DEF Commit, Outdated
<1> HIDE DEF y
<1>6. Shape(y)
  BY <1>3, <1>4, EmptyOK DEF Shape, RuleOnce
<1>7. P \in [Procs -> ProcRow] /\ P[p] = y /\ \A q \in Procs : q # p => P[q] = proc[q]
  BY <1>3, <1>4
<1> HIDE DEF P
<1>8. \A q \in Procs : Shape(P[q])
  BY <1>6, <1>7, ProcOf
<1>9. /\ Written(p) \in SUBSET FindingRow /\ RuleOnce(Written(p))
      /\ ~a.dirty => {f \in Written(p) : f.open} = Verdict(c)
  BY <1>1, <1>2, <1>3, WrittenOK
<1>10. finding \in [Certs -> SUBSET FindingRow] /\ fresh \in [Certs -> BOOLEAN]
  BY DEF IInv, RowsP, RestP
<1>11. RowsP' /\ CertP' /\ WaiverP'
  BY <1>5, <1>9, <1>10 DEF IInv, RowsP, CertP, WaiverP, Alive
<1>12. \A d \in Certs \ {c} : Same(d) /\ risk'[d] = risk[d]
  BY <1>5, <1>10 DEF Same, WaiversSame
<1>13. CASE a.dirty
  <2>1. Told(c)
    BY <1>3, <1>4, <1>5, <1>7, <1>8, <1>13, DirtiedTold
  <2>2. ProcP' /\ FreshP' /\ fresh' \in [Certs -> BOOLEAN]
    BY <1>3, <1>5, <1>12, <1>13, <2>1, TouchedOK
  <2>3. RestP'
    BY <1>5, <2>2 DEF IInv, RestP
  <2> QED BY <1>11, <2>2, <2>3 DEF IInv
<1>14. CASE ~a.dirty
  <2>1. /\ \A rule : InForce(c, rule)' <=> InForce(c, rule)
        /\ Verdict(c)' = Verdict(c) /\ (Alive(c)' <=> Alive(c))
    BY <1>5, VerdictSame DEF WaiversSame
  <2>2. Open(c)' = Verdict(c)
    <3>1. finding'[c] = Written(p)
      BY <1>3, <1>5, <1>10
    <3>2. Open(c)' = {f \in finding'[c] : f.open}
      BY DEF Open
    <3> QED BY <1>9, <1>14, <3>1, <3>2
  <2>3. proc' = P /\ fresh' = fresh
    BY <1>5, <1>14
  <2>4. Alive(c)
    BY <1>2, <1>3, <1>14, Nulls DEF Clean
  <2>5. \A f \in Verdict(c) : \E g \in Range(EvaluateCertAll(cert[c])) : f.rule = g.rule
    BY DEF Verdict
  <2>6. ASSUME NEW q \in Procs PROVE Shape(proc'[q]) /\ Clean(proc[q])'
    <3>1. PICK z : z = proc'[q]
      OBVIOUS
    <3>2. Shape(z) /\ z = P[q]
      BY <1>8, <2>3, <3>1
    <3>3. CASE q = p
      <4>1. z = y
        BY <1>7, <3>2, <3>3
      <4>2. Writes(z)'
        BY <1>4, <2>1, <2>2, <4>1 DEF Writes
      <4>3. Clean(z)'
        BY <1>4, <2>1, <2>4, <4>1, <4>2 DEF Clean
      <4> QED BY <3>1, <3>2, <4>3
    <3>4. CASE q # p /\ z.cert # c
      <4>1. Clean(z)
        BY <1>7, <3>2, <3>4, ProcOf
      <4>2. z.cert \in Certs => Same(z.cert)
        BY <1>12, <3>4
      <4>3. Clean(z)'
        BY <3>2, <4>1, <4>2, CleanSame
      <4> QED BY <3>1, <3>2, <4>3
    <3>5. CASE q # p /\ z.cert = c
      <4>1. Clean(z)
        BY <1>7, <3>2, <3>5, ProcOf
      <4>2. CASE z.dirty
        <5>1. Clean(z)'
          BY <4>2 DEF Clean
        <5> QED BY <3>1, <3>2, <5>1
      <4>3. CASE ~z.dirty
        <5>1. Reads(z) => Reads(z)'
          BY <1>5, <2>1, <3>5 DEF Reads, Wids
        <5>2. Reads(z) => Resolves(z)'
          BY <2>2, <2>5, <3>5 DEF Reads, Resolves
        <5>3. Writes(z) => Writes(z)'
          BY <2>1, <2>2, <3>5 DEF Writes
        <5>4. Clean(z)'
          BY <2>1, <2>4, <3>5, <4>1, <4>3, <5>1, <5>2, <5>3, <1>3, Nulls DEF Clean
        <5> QED BY <3>1, <3>2, <5>4
      <4> QED BY <4>2, <4>3
    <3> QED BY <3>3, <3>4, <3>5
  <2>7. ProcP'
    BY <1>7, <2>3, <2>6 DEF ProcP
  <2>8. ASSUME NEW d \in Certs, fresh'[d]
        PROVE  (Alive(d) /\ Open(d) = Verdict(d) /\ risk[d] = scoreFromFindings(Open(d)))'
    <3>0. Alive(d) /\ Open(d) = Verdict(d) /\ risk[d] = scoreFromFindings(Open(d))
      BY <2>3, <2>8 DEF IInv, FreshP
    <3>1. CASE d = c
      BY <1>5, <2>1, <2>2, <3>0, <3>1
    <3>2. CASE d # c
      <4>1. Verdict(d)' = Verdict(d) /\ Open(d)' = Open(d) /\ (Alive(d)' <=> Alive(d))
        BY <1>12, <3>2, VerdictSame DEF Same, Open
      <4> QED BY <1>5, <3>0, <4>1
    <3> QED BY <3>1, <3>2
  <2>9. FreshP'
    BY <2>8 DEF FreshP
  <2>10. RestP'
    BY <1>5, <2>3 DEF IInv, RestP
  <2> QED BY <1>11, <2>7, <2>9, <2>10 DEF IInv
<1> QED BY <1>13, <1>14

LEMMA UpdateCertificateRiskOK == ASSUME IInv, NEW p \in Procs, UpdateCertificateRisk(p) PROVE IInv'
<1>1. PICK a : a = proc[p]
  OBVIOUS
<1>2. PICK c : c = a.cert
  OBVIOUS
<1>3. /\ a \in ProcRow /\ Shape(a) /\ Clean(a) /\ proc \in [Procs -> ProcRow]
      /\ a.pc = "risk" /\ c \in Certs
  BY <1>1, <1>2, ProcOf DEF UpdateCertificateRisk, Shape
<1>4. UNCHANGED <<cert, finding, waiver>>
  BY DEF UpdateCertificateRisk
<1>5. CASE ~Alive(c)
  <2>1. Rollback(p) /\ UNCHANGED <<risk, fresh, ops>> /\ ops' \in 0 .. MaxOps
    BY <1>1, <1>2, <1>5 DEF UpdateCertificateRisk, IInv, RestP
  <2> QED BY <1>4, <2>1, RollbackOK
<1>6. CASE Alive(c)
  <2> DEFINE next == [Idle EXCEPT !.pc = "next", !.queue = a.queue]
             D(Q) == IF a.dirty THEN Dirtied(Q, c) ELSE Q
  <2>1. a.queue \in SUBSET Certs /\ a.score \in Scores /\ a.dirty \in BOOLEAN
    BY <1>3 DEF ProcRow
  <2>2. Shape(next) /\ Clean(next) /\ next.cert = NULL
    BY <2>1, StartedOK
  <2>3. PICK z \in {Idle, next} : proc' = D([proc EXCEPT ![p] = z])
    BY <1>1, <1>2, <1>6 DEF UpdateCertificateRisk
  <2> HIDE DEF next
  <2>4. Shape(z) /\ Clean(z) /\ z.cert = NULL
    BY <2>2, IdleOK
  <2>5. /\ risk' = [risk EXCEPT ![c] = a.score] /\ fresh' = [fresh EXCEPT ![c] = ~a.dirty]
        /\ ops' \in 0 .. MaxOps
    <3>1. Op \/ ops' = ops
      BY <1>1, <1>2, <1>6 DEF UpdateCertificateRisk
    <3> QED BY <1>1, <1>2, <1>6, <3>1, OpOK DEF UpdateCertificateRisk, IInv, RestP
  <2> DEFINE P == [proc EXCEPT ![p] = z]
  <2>6. /\ P \in [Procs -> ProcRow] /\ \A q \in Procs : Shape(P[q]) /\ Clean(P[q])
        /\ \A q \in Procs : P[q] = proc[q] \/ P[q].cert \in {c, NULL}
    BY <1>3, <2>4, ProcOf DEF Shape
  <2>7. proc' = D(P)
    BY <2>3
  <2> HIDE DEF P
  <2>8. risk \in [Certs -> Scores] /\ fresh \in [Certs -> BOOLEAN]
    BY DEF IInv, RestP
  <2>9. RestP' /\ CertP' /\ RowsP' /\ WaiverP'
    BY <1>4, <2>1, <2>5, <2>8 DEF IInv, RestP, CertP, RowsP, WaiverP, Alive
  <2>10. \A d : Same(d)
    BY <1>4 DEF Same, WaiversSame
  <2>11. \A d \in Certs \ {c} : risk'[d] = risk[d]
    BY <2>5, <2>8
  <2>12. CASE a.dirty
    <3>1. proc' = Dirtied(P, c) /\ fresh' = [fresh EXCEPT ![c] = FALSE]
      BY <2>1, <2>5, <2>7, <2>12
    <3>2. Told(c)
      BY <1>3, <2>6, <3>1, DirtiedTold
    <3>3. ProcP' /\ FreshP'
      BY <1>3, <2>10, <2>11, <3>1, <3>2, TouchedOK
    <3> QED BY <2>9, <3>3 DEF IInv
  <2>13. CASE ~a.dirty
    <3>1. proc' = P
      BY <2>7, <2>13
    <3>2. ProcP'
      BY <1>4, <2>6, <3>1, ProcsSame
    <3>3. ASSUME NEW d \in Certs, fresh'[d]
          PROVE  (Alive(d) /\ Open(d) = Verdict(d) /\ risk[d] = scoreFromFindings(Open(d)))'
      <4>1. Verdict(d)' = Verdict(d) /\ Open(d)' = Open(d) /\ (Alive(d)' <=> Alive(d))
        BY <2>10, VerdictSame DEF Same, Open
      <4>2. CASE d = c
        <5>1. Writes(a)
          BY <1>2, <1>3, <2>13, Nulls DEF Clean
        <5>2. Open(c) = Verdict(c) /\ a.score = scoreFromFindings(Open(c)) /\ risk'[c] = a.score
          BY <1>2, <1>3, <2>5, <2>8, <5>1 DEF Writes
        <5> QED BY <1>6, <4>1, <4>2, <5>2
      <4>3. CASE d # c
        <5>1. fresh[d] /\ risk'[d] = risk[d]
          BY <2>5, <2>8, <3>3, <4>3
        <5> QED BY <4>1, <5>1 DEF IInv, FreshP
      <4> QED BY <4>2, <4>3
    <3>4. FreshP'
      BY <3>3 DEF FreshP
    <3> QED BY <2>9, <3>2, <3>4 DEF IInv
  <2> QED BY <2>12, <2>13
<1> QED BY <1>5, <1>6

-----------------------------------------------------------------------------
(* The theorems.                                                           *)

LEMMA InitIInv == Init => IInv
<1> SUFFICES ASSUME Init PROVE IInv
  OBVIOUS
<1>1. CertP
  <2>1. \A s \in Shapes : DOMAIN Discovered(s) = Fields
    BY DEF Discovered, Fields
  <2>2. DOMAIN cert = Certs /\ \A c \in Certs : \E s \in Shapes : cert[c] = Discovered(s)
    <3> DEFINE S == {Discovered(s) : s \in Shapes}
    <3>1. cert \in [Certs -> S]
      BY DEF Init
    <3>2. \A x \in S : \E s \in Shapes : x = Discovered(s)
      OBVIOUS
    <3> HIDE DEF S
    <3> QED BY <3>1, <3>2
  <2> QED BY <2>1, <2>2 DEF CertP
<1>2. RowsP
  BY DEF Init, RowsP, RuleOnce
<1>3. WaiverP
  <2>1. NoWaiver \in WaiverRow /\ NoWaiver.state = "none" /\ NoWaiver.cert = NULL
    BY DEF NoWaiver, WaiverRow
  <2> QED BY <2>1 DEF Init, WaiverP
<1>4. RestP
  BY PostureNumbers DEF Init, RestP, Scores
<1>5. ProcP
  BY IdleOK DEF Init, ProcP
<1>6. FreshP
  BY DEF Init, FreshP
<1> QED BY <1>1, <1>2, <1>3, <1>4, <1>5, <1>6 DEF IInv

LEMMA NextIInv == IInv /\ [Next]_vars => IInv'
<1> SUFFICES ASSUME IInv, [Next]_vars PROVE IInv'
  OBVIOUS
<1>1. CASE UNCHANGED vars
  BY <1>1, StutterOK
<1>2. ASSUME NEW p \in Procs,
             \/ CreateWaiver(p) \/ RevokeWaiver(p) \/ UpdateCertificateEnrichment(p)
             \/ RecomputeScan(p) \/ Recompute(p) \/ Fail(p)
      PROVE  IInv'
  <2>1. CASE CreateWaiver(p)
    BY <2>1, CreateWaiverOK
  <2>2. CASE RevokeWaiver(p)
    BY <2>2, RevokeWaiverOK
  <2>3. CASE UpdateCertificateEnrichment(p)
    BY <2>3, EnrichmentOK
  <2>4. CASE RecomputeScan(p)
    BY <2>4, RecomputeScanOK
  <2>5. CASE ReadCert(p)
    BY <2>5, ReadCertOK
  <2>6. CASE ReadWaiver(p)
    BY <2>6, ReadWaiverOK
  <2>7. CASE UpsertFinding(p)
    BY <2>7, UpsertFindingOK
  <2>8. CASE StartResolve(p)
    BY <2>8, StartResolveOK
  <2>9. CASE ResolveFinding(p)
    BY <2>9, ResolveFindingOK
  <2>10. CASE Commit(p)
    BY <2>10, CommitOK
  <2>11. CASE ListOpenFindings(p)
    BY <2>11, ListOpenFindingsOK
  <2>12. CASE UpdateCertificateRisk(p)
    BY <2>12, UpdateCertificateRiskOK
  <2>13. CASE DeadlockVictim(p) \/ Fail(p)
    BY <2>13, EndsOK
  <2> QED BY <1>2, <2>1, <2>2, <2>3, <2>4, <2>5, <2>6, <2>7, <2>8, <2>9, <2>10, <2>11, <2>12,
             <2>13 DEF Recompute
<1>3. CASE Elapse \/ InventoryWrite \/ WaiverExpires \/ DeleteCertificate
  BY <1>3, ElapseOK, InventoryWriteOK, WaiverExpiresOK, DeleteCertificateOK
<1> QED BY <1>1, <1>2, <1>3 DEF Next

LEMMA Invariance == Spec => []IInv
  BY InitIInv, NextIInv, PTL DEF Spec

LEMMA IInvType == IInv => TypeOK
<1> SUFFICES ASSUME IInv PROVE TypeOK
  OBVIOUS
<1>1. \A c \in Certs : Alive(c) => DOMAIN cert[c] = Fields
  BY DEF IInv, CertP
<1>2. \A c \in Certs : \A f, g \in finding[c] :
        /\ f.rule \in Rules /\ f.sev \in Severities /\ f.waived \in BOOLEAN /\ f.open \in BOOLEAN
        /\ f.rule = g.rule => f = g
  BY DEF IInv, RowsP, RuleOnce, FindingRow
<1>3. \A w \in Wids : /\ waiver[w].cert \in Certs \cup {NULL}
                      /\ waiver[w].state \in {"none", "active", "expired", "revoked"}
  BY DEF IInv, WaiverP, WaiverRow
<1>4. \A p \in Procs : /\ proc[p].pc \in {"idle", "next", "waivers", "upsert", "resolve",
                                           "list", "risk"}
                       /\ proc[p].queue \subseteq Certs
                       /\ proc[p].n \in 1 .. Len(proc[p].cur) + 1
  BY DEF IInv, ProcP, Shape, ProcRow
<1>5. /\ risk \in [Certs -> {0} \cup {ScoreSeverity[s] : s \in Severities}]
      /\ ops \in 0 .. MaxOps /\ fresh \in [Certs -> BOOLEAN]
  BY DEF IInv, RestP, Scores
<1> QED BY <1>1, <1>2, <1>3, <1>4, <1>5 DEF TypeOK, Fields

\* Every row, recompute and score keeps its type, a finding is one row per
\* rule (the unique index of findings) and the cursor of a transaction stays
\* within the findings it writes.
THEOREM TypeCorrect == Spec => []TypeOK
  BY Invariance, IInvType, PTL

\* UpdateCertificateRisk leaves the maximum over the findings that are open
\* and not waived, whatever other recomputes of the certificate ran beside it,
\* failed or were chosen as deadlock victims.
THEOREM ScoresFollow == Spec => []RiskIsMax
<1>1. IInv => RiskIsMax
  BY DEF IInv, FreshP, RiskIsMax, scoreFromFindings
<1> QED BY <1>1, Invariance, PTL

\* The open findings are what EvaluateCertAll says of the certificate, waived
\* as GetActiveWaiver says, once a recompute has ended whose inputs nobody
\* changed.
THEOREM FindingsFollow == Spec => []FindingsMatch
<1>1. ASSUME IInv, NEW c \in Certs, fresh[c]
      PROVE  {<<f.rule, f.sev, f.waived>> : f \in Open(c)} =
             {<<f.rule, MapPackSeverity(f.pack, f.sev),
                ActiveWaiver(c, f.rule, {w \in Wids : waiver[w].state = "expired"})>> :
                  f \in Range(EvaluateCertAll(cert[c]))}
  <2> DEFINE E == Range(EvaluateCertAll(cert[c]))
             on(r) == ActiveWaiver(c, r, {w \in Wids : waiver[w].state = "expired"})
             sev(f) == MapPackSeverity(f.pack, f.sev)
             v(f) == InForce(c, f.rule)
             row(f) == [rule |-> f.rule, sev |-> sev(f), waived |-> v(f), open |-> TRUE]
  <2>1. Open(c) = {row(f) : f \in E}
    BY <1>1 DEF IInv, FreshP, Verdict
  <2>2. \A r : on(r) = InForce(c, r)
    <3>1. \A r : on(r) <=> InForce(c, r)
      BY DEF ActiveWaiver, InForce
    <3>2. \A r : on(r) \in BOOLEAN /\ InForce(c, r) \in BOOLEAN
      BY DEF ActiveWaiver, InForce
    <3> HIDE DEF on
    <3> QED BY <3>1, <3>2
  <2>3. {<<f.rule, sev(f), on(f.rule)>> : f \in E} = {<<f.rule, sev(f), v(f)>> : f \in E}
    <3> HIDE DEF E, on, sev
    <3> QED BY <2>2
  <2> HIDE DEF E, on, sev, v
  <2>4. {<<f.rule, f.sev, f.waived>> : f \in Open(c)} = {<<f.rule, sev(f), v(f)>> : f \in E}
    <3>1. \A f \in E : row(f).rule = f.rule /\ row(f).sev = sev(f) /\ row(f).waived = v(f)
      OBVIOUS
    <3> HIDE DEF row
    <3>2. \A f \in E : <<row(f).rule, row(f).sev, row(f).waived>> = <<f.rule, sev(f), v(f)>>
      BY <3>1
    <3> QED BY <2>1, <3>2
  <2> QED BY <2>3, <2>4 DEF E, on, sev
<1>2. IInv => FindingsMatch
  BY <1>1 DEF FindingsMatch
<1> QED BY <1>2, Invariance, PTL

\* An expiry the stored status knows of is open once: the findings of
\* EvaluateSC081 and EvaluateOps complement each other for every number of
\* days that is configured.
THEOREM ExpiryOnceOpen == Spec => []ExpiryReportedOnce
<1>1. ASSUME IInv, NEW c \in Certs, fresh[c],
             cert[c].status = Compute(cert[c].left, ExpiringSoonDays), cert[c].status # "valid"
      PROVE  Cardinality({f \in Open(c) :
               /\ f.rule \in ExpiryRules \cup {"ops.expired", "ops.expiring_soon"}
               /\ f.sev # "info"}) = 1
  <2> DEFINE E == Range(EvaluateCertAll(cert[c]))
             X == ExpiryRules \cup {"ops.expired", "ops.expiring_soon"}
             row(f) == [rule |-> f.rule, sev |-> MapPackSeverity(f.pack, f.sev),
                        waived |-> InForce(c, f.rule), open |-> TRUE]
  <2>1. Open(c) = {row(f) : f \in E}
    BY <1>1 DEF IInv, FreshP, Verdict
  <2>2. cert[c].status \in {"expired", "expiring_soon"}
    BY <1>1 DEF Compute
  <2>3. PICK g \in E : {f \in E : f.rule \in X /\ f.sev # "info"} = {g}
    BY <2>2, ExpiryOnce
  <2>4. E \subseteq PackFinding
    BY EvalOK, RangeOfSeq
  <2>5. \A f \in E : row(f).rule = f.rule /\ (row(f).sev = "info" <=> f.sev = "info")
    BY <2>4, SeverityOK
  <2> HIDE DEF E, X, row
  <2>6. {f \in Open(c) : f.rule \in X /\ f.sev # "info"} = {row(g)}
    BY <2>1, <2>3, <2>5
  <2>7. Cardinality({row(g)}) = 1
    BY FS_Singleton
  <2> QED BY <2>6, <2>7 DEF X
<1>2. IInv => ExpiryReportedOnce
  BY <1>1 DEF ExpiryReportedOnce
<1> QED BY <1>2, Invariance, PTL

=============================================================================
