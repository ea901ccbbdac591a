-------------------------- MODULE MCPostureFindings --------------------------
EXTENDS PostureFindings
\* A public certificate issued for an hour too long, with 61 days to go, and
\* an internal one at its ceiling that expires within the month.
MCShapes ==
  {[nb |-> 2026, life |-> 4777, left |-> 1464, key |-> "ECDSA", bits |-> 256, sha1 |-> FALSE,
    chain |-> "complete", san |-> TRUE, issuer |-> "public", host |-> "other"],
   [nb |-> 2027, life |-> 2376, left |-> 383, key |-> "RSA", bits |-> 2048, sha1 |-> FALSE,
    chain |-> "complete", san |-> TRUE, issuer |-> "vault", host |-> "internal"]}
MCWaivable == {"ops.expiring_soon"}
MCPatches == {[owner |-> TRUE, tags |-> NULL, env |-> "prod"],
              [owner |-> FALSE, tags |-> NULL, env |-> NULL]}
MCHours == {-1}
=============================================================================
