---------------------------- MODULE CompliancePacks ----------------------------
(***************************************************************************)
(* What the compliance packs (internal/compliance) and the operational     *)
(* classifier (internal/report/insight.go, internal/posture/ops.go) say of *)
(* one certificate: a sequence of findings, in the order they are stored.  *)
(*                                                                         *)
(* A certificate is a record of what the rules look at: nb, the policy     *)
(* year of NotBefore (it begins on 15 March); life, its validity, and      *)
(* left, the time to NotAfter, both in hours; key type and bits; sha1;     *)
(* chain; san (hostname matches); status and managed as stored; scope;     *)
(* env; owner and tags (present or not).                                   *)
(***************************************************************************)
EXTENDS Integers, Sequences, FiniteSetsExt, Functions

Finding(rule, pack, sev) == [rule |-> rule, pack |-> pack, sev |-> sev]
When(cond, f) == IF cond THEN <<f>> ELSE <<>>

-----------------------------------------------------------------------------
(* SC-081v3.                                                               *)

sc081Ceilings == <<[from |-> 2029, maxDays |-> 47,  rule |-> "sc081.validity.47d"],
                   [from |-> 2028, maxDays |-> 64,  rule |-> "sc081.validity.64d"],
                   [from |-> 2027, maxDays |-> 99,  rule |-> "sc081.validity.99d"],
                   [from |-> 2026, maxDays |-> 199, rule |-> "sc081.validity.199d"]>>

\* The first ceiling in force, 0 when there was none yet.
sc081CeilingFor(nb) ==
  LET S == {i \in DOMAIN sc081Ceilings : nb >= sc081Ceilings[i].from}
  IN IF S = {} THEN 0 ELSE Min(S)

sc081ValidityFinding(c) ==
  LET i == sc081CeilingFor(c.nb) IN
  IF i = 0 THEN <<>>
  ELSE When(c.life > 24 * sc081Ceilings[i].maxDays,
            Finding(sc081Ceilings[i].rule, "sc081", "critical"))

isProd(c) == c.env = "prod"
sc081ExpirySeverity(c, base) == IF c.scope = "internal" /\ ~isProd(c) THEN "info" ELSE base

\* Keyed off NotAfter as of now, days truncated.
sc081ExpiryFinding(c) ==
  LET days == c.left \div 24
      At(rule, base) == <<Finding(rule, "sc081", sc081ExpirySeverity(c, base))>> IN
  CASE c.left < 0                  -> At("sc081.expiry.expired", "critical")
    [] c.left >= 0 /\ days <= 14   -> At("sc081.expiry.critical", "critical")
    [] days > 14 /\ days <= 60     -> At("sc081.expiry.warning", "warning")
    [] OTHER                       -> <<>>

EvaluateSC081(c) == sc081ValidityFinding(c) \o sc081ExpiryFinding(c)

-----------------------------------------------------------------------------
(* PCI inventory and cryptography.                                         *)

EvaluatePCI(c) ==
     When(c.scope = "external" /\ ~c.owner,
          Finding("pci.inventory.missing_owner", "pci", "warning"))
  \o When(isProd(c) /\ (~c.owner \/ ~c.tags),
          Finding("pci.inventory.untagged_prod", "pci", "warning"))
  \o When(c.managed = "unmanaged" /\ c.scope = "external" /\ isProd(c),
          Finding("pci.inventory.not_in_vault", "pci", "info"))

EvaluateCrypto(c) ==
     When(c.key = "RSA" /\ c.bits < 2048, Finding("crypto.rsa.weak_key", "crypto", "critical"))
  \o When(c.sha1, Finding("crypto.signature.sha1", "crypto", "critical"))
  \o When(c.key = "ECDSA" /\ c.bits < 256, Finding("crypto.key.ecdsa.weak", "crypto", "warning"))

-----------------------------------------------------------------------------
(* Operational findings, from what the inventory has stored.               *)

isWeakKey(c) == c.key = "RSA" /\ c.bits > 0 /\ c.bits < 2048
\* skipExpiry: without the two insights on expiry.
ClassifyCertificate(c, skipExpiry) ==
     When(c.status = "expired" /\ ~skipExpiry, Finding("ops.expired", "ops", "high"))
  \o When(c.status = "revoked", Finding("ops.revoked", "ops", "critical"))
  \o When(c.status = "expiring_soon" /\ ~skipExpiry, Finding("ops.expiring_soon", "ops", "medium"))
  \o When(c.chain = "incomplete", Finding("ops.incomplete_chain", "ops", "medium"))
  \o When(c.chain = "untrusted_root", Finding("ops.untrusted_root", "ops", "medium"))
  \o When(~c.san, Finding("ops.san_mismatch", "ops", "low"))
  \o When(isWeakKey(c), Finding("ops.weak_key", "ops", "high"))
  \o When(c.managed = "unmanaged" /\ c.scope = "external",
          Finding("ops.shadow_external", "ops", "info"))
  \o When(c.managed = "unmanaged" /\ c.scope # "external",
          Finding("ops.shadow_internal", "ops", "low"))

ExpiryRules == {"sc081.expiry.expired", "sc081.expiry.critical", "sc081.expiry.warning"}

\* Mutant: a finding downgraded to info hides the operational one too.
hasSC081ExpiryViolation_CountsInfo(fs) == \E f \in Range(fs) : f.rule \in ExpiryRules
hasSC081ExpiryViolation(fs) == \E f \in Range(fs) : f.rule \in ExpiryRules /\ f.sev # "info"

\* SC-081 and the stored status speak of the same expiry: reported once.
EvaluateOps(c, sc081) == ClassifyCertificate(c, hasSC081ExpiryViolation(sc081))

EvaluateCertAll(c) ==
  LET sc081 == EvaluateSC081(c)
  IN sc081 \o EvaluatePCI(c) \o EvaluateCrypto(c) \o EvaluateOps(c, sc081)

-----------------------------------------------------------------------------
(* Severities and scores.                                                  *)

Rules ==
  {sc081Ceilings[i].rule : i \in 1 .. 4} \cup ExpiryRules
  \cup {"pci.inventory.missing_owner", "pci.inventory.untagged_prod", "pci.inventory.not_in_vault",
        "crypto.rsa.weak_key", "crypto.signature.sha1", "crypto.key.ecdsa.weak",
        "ops.expired", "ops.revoked", "ops.expiring_soon", "ops.incomplete_chain",
        "ops.untrusted_root", "ops.san_mismatch", "ops.weak_key", "ops.shadow_external",
        "ops.shadow_internal"}
Severities == {"critical", "high", "medium", "low", "info"}
\* Mutant: a pack's warning is stored as it is.
MapPackSeverity_Warning(pack, sev) == IF sev = "warning" /\ pack = "pci" THEN "medium" ELSE sev
MapPackSeverity(pack, sev) ==
  IF sev # "warning" THEN sev ELSE IF pack = "pci" THEN "medium" ELSE "high"
ScoreSeverity == [critical |-> 90, high |-> 70, medium |-> 40, low |-> 20, info |-> 5]

-----------------------------------------------------------------------------
(* What discovery and the clock say of a certificate.                      *)

\* lifecycle.Compute.
Compute(left, expiringSoonDays) ==
  IF left < 0 THEN "expired"
  ELSE IF left \div 24 <= expiringSoonDays THEN "expiring_soon" ELSE "valid"

\* governance.ClassifyScope as UpsertCertificate calls it, without an
\* environment: host and issuer are what the name lists make of them.
ClassifyScope(chain, issuer, host) ==
  IF chain = "self_signed" \/ host = "internal" \/ issuer = "vault"
  THEN "internal" ELSE "external"

=============================================================================
