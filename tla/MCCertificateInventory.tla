----------------------- MODULE MCCertificateInventory -----------------------
(* Bounded instances of CertificateInventory for TLC. *)
EXTENDS CertificateInventory, TLC

Symmetric == Permutations(Writers) \cup Permutations(Mounts)

\* A second CA of the issuer's name is stored only where Vault has no
\* certificate and no pass or CA import begins: none of these asks which of the
\* stored CAs is meant.
NamesakeApart ==
  issuer.other => /\ rec = NoPass /\ import = NoImport
                  /\ \A m \in Mounts, c \in Certs : pki[m][c] = "none"
=============================================================================
