-------------------------- MODULE Connections_proofs --------------------------
(***************************************************************************)
(* Proofs about the stored settings, for any targets, secrets, values,     *)
(* requests and keys.                                                      *)
(*                                                                         *)
(* The invariant says what a request in mid-flight carries: the base of a  *)
(* PATCH is still what is wanted of every target nobody wrote meanwhile    *)
(* (Loaded), and a prepared row is the settings with the request applied   *)
(* (Ready); in both the targets in behind are excused.                     *)
(***************************************************************************)
EXTENDS Connections, WellFoundedInduction, TLAPS

\* The secrets_set column, the ciphertext and the secrets of one row agree.
Flag(r) == r.set = (r.sec # NoSecrets) /\ r.set = (r.enc # NULL)

\* A request that has targets left is at one it names.
Cursor(q) ==
  req[q].pc \in {"load", "get", "write"} =>
    req[q].i \in 1 .. Len(Order) /\ req[q].body[Order[req[q].i]] # NULL

Loaded(q) ==
  req[q].pc \in {"get", "write"} /\ req[q].kind = "patch" =>
    \A j \in req[q].i .. Len(Order) :
      Order[j] \notin req[q].behind \cup mixed => req[q].base[Order[j]] = want[Order[j]].meta

\* A row is what the settings w say.
Is(r, w) == r.there = w.there /\ r.meta = w.meta /\ r.sec = w.sec

Ready(q) ==
  req[q].pc = "write" =>
    LET t == Order[req[q].i] IN
    /\ req[q].new.there
    /\ t \notin req[q].behind \cup mixed =>
         Is(req[q].new, Applied(want[t], req[q].body[t], req[q].kind = "put"))

ReqOK(q) == Cursor(q) /\ Loaded(q) /\ Ready(q) /\ Flag(req[q].new)

\* A target without a row has no settings.
Blank == \A t \in Targets : ~row[t].there => row[t].meta = NoMeta /\ row[t].sec = NoSecrets

Wanted == [there : BOOLEAN, meta : Meta, sec : SecretMap]
CInv ==
  /\ TypeOK /\ SetFlagTruthful /\ LastWriteKept /\ Blank
  /\ \A q \in Reqs : ReqOK(q)

-----------------------------------------------------------------------------
(* The operators.                                                          *)

LEMMA OrderOK ==
  /\ Len(Order) \in Nat
  /\ \A i \in 1 .. Len(Order) : Order[i] \in Targets
  /\ \A t \in Targets : \E i \in 1 .. Len(Order) : t = Order[i]
  BY ConnectionsShapes DEF Targets

LEMMA Distinct == \A i, j \in 1 .. Len(Order) : Order[i] = Order[j] => i = j
  BY ConnectionsShapes

LEMMA PatchOK ==
  ASSUME NEW b \in Patches
  PROVE  b.meta \in [Fields -> Values \cup {Empty, NULL}] /\ b.sec \in [Secrets -> SecretField]
  BY ConnectionsShapes

\* A set of natural numbers that is not empty has its minimum.
LEMMA MinOK ==
  ASSUME NEW S \in SUBSET Nat, S # {}
  PROVE  Min(S) \in S /\ \A y \in S : Min(S) <= y
<1> DEFINE R == OpToRel(<, Nat)
<1>1. IsWellFoundedOn(R, Nat)
  BY NatLessThanWellFounded
<1>2. \A x, y \in Nat : y < x => <<y, x>> \in R
  BY DEF OpToRel
<1> HIDE DEF R
<1>3. PICK x \in S : \A y \in S : ~ (<<y, x>> \in R)
  BY <1>1, WFMin
<1>4. ASSUME NEW y \in S PROVE x <= y
  <2>1. x \in Nat /\ y \in Nat
    OBVIOUS
  <2>2. ~ (y < x)
    BY <1>2, <1>3, <2>1
  <2> QED BY <2>1, <2>2
<1> QED BY <1>4 DEF Min

LEMMA NextTargetOK ==
  ASSUME NEW body, NEW i \in 1 .. Len(Order) + 1
  PROVE  /\ NextTarget(body, i) \in i .. Len(Order) + 1
         /\ NextTarget(body, i) <= Len(Order) => body[Order[NextTarget(body, i)]] # NULL
         /\ (\E j \in i .. Len(Order) : body[Order[j]] # NULL) => NextTarget(body, i) <= Len(Order)
<1> DEFINE S == {j \in i .. Len(Order) : body[Order[j]] # NULL}
<1>1. NextTarget(body, i) = IF S = {} THEN Len(Order) + 1 ELSE Min(S)
  BY Zenon DEF NextTarget
<1>2. CASE S = {}
  BY <1>1, <1>2, OrderOK
<1>3. CASE S # {}
  <2>1. Min(S) \in S
    <3>1. S \in SUBSET Nat
      BY OrderOK
    <3> HIDE DEF S
    <3> QED BY <1>3, <3>1, MinOK
  <2> QED BY <1>1, <1>3, <2>1, OrderOK
<1> QED BY <1>2, <1>3

LEMMA NoneOK == NoRow \in Row /\ NoReq \in Request /\ NoReq.pc = "idle" /\ NoReq.new = NoRow /\ Flag(NoRow)
                /\ NoReq.behind = {} /\ NoMeta \in Meta /\ NoSecrets \in SecretMap
<1>1. NoMeta \in Meta /\ NoSecrets \in SecretMap
  BY DEF NoMeta, NoSecrets, Meta, SecretMap
<1>2. NoRow \in Row /\ Flag(NoRow)
  BY <1>1 DEF NoRow, Row, Flag
<1>3. NoReq \in Request /\ NoReq.pc = "idle" /\ NoReq.new = NoRow /\ NoReq.behind = {}
  BY <1>1, <1>2, OrderOK DEF NoReq, Request
<1> QED BY <1>1, <1>2, <1>3

LEMMA ApplyMetaOK ==
  ASSUME NEW prev \in Meta, NEW b \in Patches, NEW replace \in BOOLEAN
  PROVE  applyMeta(prev, b.meta, replace) \in Meta
  BY PatchOK, ConnectionsShapes DEF applyMeta, Meta

LEMMA MergeOK ==
  ASSUME NEW prev \in SecretMap, NEW b \in Patches
  PROVE  mergeSecrets(prev, collectSecrets(b.sec)) \in SecretMap
  BY PatchOK DEF mergeSecrets, collectSecrets, SecretMap, SecretField

LEMMA AppliedOK ==
  ASSUME NEW w \in Wanted, NEW b \in Patches, NEW replace \in BOOLEAN
  PROVE  /\ Applied(w, b, replace) \in Wanted
         /\ Applied(w, b, replace).there
         /\ Applied(w, b, replace).meta = applyMeta(w.meta, b.meta, replace)
         /\ Applied(w, b, replace).sec = mergeSecrets(w.sec, collectSecrets(b.sec))
<1> DEFINE sec == [s \in Secrets |-> IF b.sec[s] \in {"omit", "empty"} THEN w.sec[s]
                              ELSE IF b.sec[s] = "null" THEN Empty ELSE b.sec[s]]
<1>1. sec = mergeSecrets(w.sec, collectSecrets(b.sec))
  BY DEF mergeSecrets, collectSecrets
<1>2. sec \in SecretMap
  BY <1>1, MergeOK DEF Wanted
<1>3. applyMeta(w.meta, b.meta, replace) \in Meta
  BY ApplyMetaOK DEF Wanted
<1> HIDE DEF sec
<1>4. Applied(w, b, replace) = [there |-> TRUE, meta |-> applyMeta(w.meta, b.meta, replace), sec |-> sec]
  BY DEF Applied, sec
<1> QED BY <1>1, <1>2, <1>3, <1>4 DEF Wanted

\* Without new secrets nothing is merged.
LEMMA NothingNew ==
  ASSUME NEW prev \in SecretMap, NEW b \in Patches, ~hasNewSecrets(collectSecrets(b.sec))
  PROVE  mergeSecrets(prev, collectSecrets(b.sec)) = prev
  BY DEF hasNewSecrets, mergeSecrets, SecretMap

\* prepareConnectionUpsert keeps flag, ciphertext and secrets in step, carried
\* over, sealed anew or emptied.
LEMMA PreparedOK ==
  ASSUME NEW old \in Row, Flag(old), NEW meta \in Meta, NEW b \in Patches, key \in Keys \cup {NULL},
         Preparable(old, collectSecrets(b.sec))
  PROVE  LET new == Prepared(old, meta, collectSecrets(b.sec)) IN
         /\ new \in Row /\ Flag(new) /\ new.there /\ new.meta = meta
         /\ new.sec = mergeSecrets(old.sec, collectSecrets(b.sec))
<1> DEFINE inc == collectSecrets(b.sec)
           r == [old EXCEPT !.there = TRUE, !.meta = meta]
           merged == mergeSecrets(old.sec, inc)
<1>1. /\ r \in Row /\ r.there /\ r.meta = meta /\ r.sec = old.sec /\ r.enc = old.enc /\ r.set = old.set
  BY DEF Row
<1>2. old.sec \in SecretMap
  BY DEF Row
<1>3. merged \in SecretMap
  BY <1>2, MergeOK
<1>4. Prepared(old, meta, inc) = IF hasNewSecrets(inc) THEN Sealed(r, key, merged) ELSE r
  BY DEF Prepared
<1>5. CASE ~hasNewSecrets(inc)
  <2>1. merged = old.sec
    BY <1>2, <1>5, NothingNew
  <2> HIDE DEF r, merged, inc
  <2> QED BY <1>1, <1>4, <1>5, <2>1 DEF Flag, merged, inc
<1>6. CASE hasNewSecrets(inc)
  <2>1. key # NULL
    BY <1>6 DEF Preparable
  <2> HIDE DEF r, merged, inc
  <2>2. CASE merged = NoSecrets
    <3>1. Sealed(r, key, merged) = [r EXCEPT !.enc = NULL, !.sec = NoSecrets, !.set = FALSE]
      BY <2>2 DEF Sealed
    <3> DEFINE new == [r EXCEPT !.enc = NULL, !.sec = NoSecrets, !.set = FALSE]
    <3>2. /\ new \in Row /\ new.there = r.there /\ new.meta = r.meta /\ new.sec = NoSecrets
          /\ new.enc = NULL /\ new.set = FALSE
      BY <1>1, NoneOK DEF Row
    <3> HIDE DEF new
    <3> QED BY <1>1, <1>4, <1>6, <2>2, <3>1, <3>2 DEF Flag, new, merged, inc
  <2>3. CASE merged # NoSecrets
    <3>1. Sealed(r, key, merged) = [r EXCEPT !.enc = key, !.sec = merged, !.set = TRUE]
      BY <2>3 DEF Sealed
    <3> DEFINE new == [r EXCEPT !.enc = key, !.sec = merged, !.set = TRUE]
    <3>2. /\ new \in Row /\ new.there = r.there /\ new.meta = r.meta /\ new.sec = merged
          /\ new.enc = key /\ new.set = TRUE
      BY <1>1, <1>3 DEF Row
    <3> HIDE DEF new
    <3> QED BY <1>1, <1>4, <1>6, <2>1, <2>3, <3>1, <3>2 DEF Flag, new, merged, inc
  <2> QED BY <2>2, <2>3
<1> QED BY <1>5, <1>6

-----------------------------------------------------------------------------
(* Steps.                                                                  *)

LEMMA InitCInv == Init => CInv
<1> SUFFICES ASSUME Init PROVE CInv
  OBVIOUS
<1> USE NoneOK
<1>1. TypeOK
  <2>1. row \in [Targets -> Row] /\ key \in Keys \cup {NULL} /\ req \in [Reqs -> Request]
        /\ mixed \subseteq Targets
    BY DEF Init
  <2>2. want \in [Targets -> Wanted]
    BY DEF Init, Wanted
  <2>3. ops \in 0 .. MaxOps
    BY ConnectionsNumbers DEF Init
  <2> QED BY <2>1, <2>2, <2>3 DEF TypeOK, Wanted
<1>2. SetFlagTruthful /\ LastWriteKept /\ Blank
  <2>1. \A t \in Targets : row[t] = NoRow
    BY DEF Init
  <2>2. NoRow.there = FALSE /\ NoRow.meta = NoMeta /\ NoRow.sec = NoSecrets
    BY DEF NoRow
  <2>3. \A t \in Targets : want[t] = [there |-> FALSE, meta |-> NoMeta, sec |-> NoSecrets]
    BY DEF Init
  <2>4. SetFlagTruthful
    BY <2>1 DEF SetFlagTruthful, Flag
  <2>5. LastWriteKept
    <3> SUFFICES ASSUME NEW t \in Targets \ mixed
                 PROVE  row[t].there = want[t].there /\ row[t].meta = want[t].meta
                        /\ row[t].sec = want[t].sec
      BY DEF LastWriteKept
    <3>1. row[t] = NoRow /\ want[t] = [there |-> FALSE, meta |-> NoMeta, sec |-> NoSecrets]
      BY <2>1, <2>3
    <3> HIDE NoneOK
    <3>2. want[t].there = FALSE /\ want[t].meta = NoMeta /\ want[t].sec = NoSecrets
      BY <3>1
    <3> QED BY <2>2, <3>1, <3>2, Zenon
  <2>6. Blank
    BY <2>1, <2>2 DEF Blank
  <2> QED BY <2>4, <2>5, <2>6
<1>3. \A q \in Reqs : ReqOK(q)
  BY DEF Init, ReqOK, Cursor, Loaded, Ready
<1> QED BY <1>1, <1>2, <1>3 DEF CInv

LEMMA OpOK == ASSUME ops \in 0 .. MaxOps, Op \/ UNCHANGED ops PROVE ops' \in 0 .. MaxOps
  BY ConnectionsNumbers DEF Op

\* A step that changes one request, and neither rows nor what is wanted.
LEMMA RequestStep ==
  ASSUME CInv, NEW p \in Reqs, NEW x \in Request, req' = [req EXCEPT ![p] = x],
         UNCHANGED <<row, key, want, mixed>>, ops' \in 0 .. MaxOps, ReqOK(p)'
  PROVE  CInv'
<1>1. req' \in [Reqs -> Request] /\ \A q \in Reqs \ {p} : req'[q] = req[q]
  BY DEF CInv, TypeOK
<1>2. TypeOK'
  BY <1>1 DEF CInv, TypeOK
<1>3. (SetFlagTruthful /\ LastWriteKept /\ Blank)'
  BY DEF CInv, SetFlagTruthful, LastWriteKept, Blank
<1>4. ASSUME NEW q \in Reqs PROVE ReqOK(q)'
  <2>1. CASE q = p
    BY <2>1
  <2>2. CASE q # p
    <3>1. ReqOK(q) /\ req'[q] = req[q]
      BY <1>1, <2>2 DEF CInv
    <3>2. Cursor(q)' /\ Flag(req[q].new)'
      BY <3>1 DEF ReqOK, Cursor, Flag
    <3>3. Loaded(q)'
      BY <3>1 DEF ReqOK, Loaded
    <3>4. Ready(q)'
      BY <3>1 DEF ReqOK, Ready
    <3> QED BY <3>2, <3>3, <3>4 DEF ReqOK
  <2> QED BY <2>1, <2>2
<1> QED BY <1>2, <1>3, <1>4 DEF CInv

\* A request that ends, or holds nothing yet.
LEMMA EndStep ==
  ASSUME CInv, NEW p \in Reqs, End(p), UNCHANGED <<row, key, want, mixed>>, ops' \in 0 .. MaxOps
  PROVE  CInv'
<1>1. req' = [req EXCEPT ![p] = NoReq] /\ req'[p] = NoReq
  BY DEF End, CInv, TypeOK
<1>2. ReqOK(p)'
  BY <1>1, NoneOK DEF ReqOK, Cursor, Loaded, Ready
<1> QED BY <1>1, <1>2, NoneOK, RequestStep

\* The first target of the body is found, so a request begins with one to write.
LEMMA BeginRequestStep == ASSUME CInv, NEW p \in Reqs, BeginRequest(p) PROVE CInv'
<1>1. PICK kind \in {"put", "patch"}, body \in [Targets -> Patches \cup {NULL}] :
         /\ \E t \in Targets : body[t] # NULL
         /\ req' = [req EXCEPT ![p] = [NoReq EXCEPT
                      !.pc = IF kind = "put" THEN "get" ELSE "load",
                      !.kind = kind, !.body = body, !.i = NextTarget(body, 1)]]
  BY DEF BeginRequest
<1> DEFINE n == NextTarget(body, 1)
           pc == IF kind = "put" THEN "get" ELSE "load"
           x == [NoReq EXCEPT !.pc = pc, !.kind = kind, !.body = body, !.i = n]
<1>2. n \in 1 .. Len(Order) /\ body[Order[n]] # NULL
  BY <1>1, OrderOK, NextTargetOK
<1>a. pc \in {"get", "load"}
  OBVIOUS
<1> HIDE DEF n, pc
<1>3. x \in Request /\ x.pc = pc /\ x.kind = kind /\ x.body = body /\ x.i = n /\ x.new = NoRow
  <2>1. x = [NoReq EXCEPT !.pc = pc, !.kind = kind, !.body = body, !.i = n]
    OBVIOUS
  <2> HIDE DEF x
  <2>2. x \in Request /\ x.pc = pc /\ x.kind = kind /\ x.body = body /\ x.i = n /\ x.new = NoReq.new
    <3>1. NoReq \in Request
      BY NoneOK
    <3>2. kind \in {"put", "patch"} /\ body \in [Targets -> Patches \cup {NULL}]
      BY <1>1
    <3>3. n \in 1 .. Len(Order) + 1
      BY <1>2, OrderOK
    <3>4. pc \in {"load", "get"}
      BY <1>a
    <3> QED BY <2>1, <3>1, <3>2, <3>3, <3>4 DEF Request
  <2> QED BY <2>2, NoneOK
<1>4. req' = [req EXCEPT ![p] = x]
  BY <1>1 DEF n, pc
<1> HIDE DEF x
<1>5. req'[p] = x
  BY <1>4 DEF CInv, TypeOK
<1>6. ReqOK(p)'
  BY <1>2, <1>3, <1>5, NoneOK DEF ReqOK, Cursor, Loaded, Ready, pc
<1>7. ops' \in 0 .. MaxOps /\ UNCHANGED <<row, key, want, mixed>>
  BY OpOK DEF BeginRequest, CInv, TypeOK
<1> QED BY <1>3, <1>4, <1>6, <1>7, RequestStep

LEMMA BeginReadStep == ASSUME CInv, NEW p \in Reqs, BeginRead(p) PROVE CInv'
<1> DEFINE x == [req[p] EXCEPT !.pc = "view"]
<1>1. x \in Request /\ x.pc = "view" /\ x.new = req[p].new
  BY DEF CInv, TypeOK, Request
<1>2. req' = [req EXCEPT ![p] = x] /\ req'[p] = x
  BY DEF BeginRead, CInv, TypeOK
<1> HIDE DEF x
<1>3. ReqOK(p)'
  BY <1>1, <1>2 DEF CInv, ReqOK, Cursor, Loaded, Ready
<1>4. ops' \in 0 .. MaxOps /\ UNCHANGED <<row, key, want, mixed>>
  BY DEF BeginRead, CInv, TypeOK
<1> QED BY <1>1, <1>2, <1>3, <1>4, RequestStep

\* A PATCH loads what is wanted.
LEMMA LoadStep == ASSUME CInv, NEW p \in Reqs, LoadConnections(p) PROVE CInv'
<1> DEFINE base == [t \in Targets |-> row[t].meta]
           x == [req[p] EXCEPT !.pc = "get", !.base = base]
<1>1. base \in [Targets -> Meta]
  BY DEF CInv, TypeOK, Row
<1>2. \A t \in Targets \ mixed : base[t] = want[t].meta
  BY DEF CInv, LastWriteKept
<1>3. req' = [req EXCEPT ![p] = x] /\ req'[p] = x
  BY DEF LoadConnections, CInv, TypeOK
<1> HIDE DEF base
<1>4. /\ x \in Request /\ x.pc = "get" /\ x.new = req[p].new /\ x.base = base
      /\ x.i = req[p].i /\ x.body = req[p].body
  BY <1>1 DEF CInv, TypeOK, Request
<1> HIDE DEF x
<1>5. UNCHANGED <<row, key, ops, want, mixed>> /\ req[p].pc = "load"
  BY DEF LoadConnections
<1>6. ReqOK(p)'
  <2>1. Cursor(p)' /\ Ready(p)' /\ Flag(req[p].new)'
    BY <1>3, <1>4, <1>5 DEF CInv, ReqOK, Cursor, Ready
  <2>2. Loaded(p)'
    <3>1. x.i \in 1 .. Len(Order)
      BY <1>4, <1>5 DEF CInv, ReqOK, Cursor
    <3> QED BY <1>2, <1>3, <1>4, <1>5, <3>1, OrderOK DEF Loaded
  <2> QED BY <2>1, <2>2 DEF ReqOK
<1> QED BY <1>3, <1>4, <1>5, <1>6, RequestStep DEF CInv, TypeOK

\* What a request prepares is the settings with the request applied, for a
\* target that nobody else wrote since the request depends on it.
LEMMA GetStep == ASSUME CInv, NEW p \in Reqs, GetConnection(p) PROVE CInv'
<1> DEFINE t == Order[req[p].i]
           b == req[p].body[t]
           inc == collectSecrets(b.sec)
           put == req[p].kind = "put"
           meta == applyMeta(req[p].base[t], b.meta, put)
           new == Prepared(row[t], meta, inc)
           behind == IF put THEN req[p].behind \ {t} ELSE req[p].behind
           x == [req[p] EXCEPT !.pc = "write", !.new = new, !.behind = behind]
<1>1. /\ req[p] \in Request /\ req[p].pc = "get" /\ UNCHANGED <<row, key, ops, want, mixed>>
      /\ ReqOK(p) /\ key \in Keys \cup {NULL} /\ row \in [Targets -> Row]
      /\ want \in [Targets -> Wanted] /\ ops \in 0 .. MaxOps
  BY DEF GetConnection, CInv, TypeOK, Wanted
<1>2. req[p].i \in 1 .. Len(Order) /\ t \in Targets /\ b \in Patches
  BY <1>1, OrderOK DEF ReqOK, Cursor, Request
<1>3. CASE ~Preparable(row[t], inc)
  <2>1. End(p)
    BY <1>3 DEF GetConnection
  <2> QED BY <1>1, <2>1, EndStep
<1>4. CASE Preparable(row[t], inc)
  <2>1. req' = [req EXCEPT ![p] = x] /\ req'[p] = x
    BY <1>4 DEF GetConnection, CInv, TypeOK
  <2>2. row[t] \in Row /\ Flag(row[t]) /\ row[t].sec \in SecretMap /\ put \in BOOLEAN
    BY <1>1, <1>2 DEF CInv, SetFlagTruthful, Flag, Row
  <2>3. req[p].base[t] \in Meta
    BY <1>1, <1>2 DEF Request
  <2> HIDE DEF t, put
  <2>4. meta \in Meta
    BY <1>2, <2>2, <2>3, ApplyMetaOK
  <2> HIDE DEF meta, b
  <2>5. /\ new \in Row /\ Flag(new) /\ new.there /\ new.meta = meta
        /\ new.sec = mergeSecrets(row[t].sec, inc)
    BY <1>1, <1>2, <1>4, <2>2, <2>4, PreparedOK
  <2> HIDE DEF inc, new
  <2>6. behind \subseteq Targets
    BY <1>1 DEF Request
  <2> HIDE DEF behind
  <2>7. /\ x \in Request /\ x.pc = "write" /\ x.new = new /\ x.behind = behind
        /\ x.i = req[p].i /\ x.body = req[p].body /\ x.kind = req[p].kind /\ x.base = req[p].base
    BY <1>1, <2>5, <2>6 DEF Request
  <2> HIDE DEF x
  <2>8. Cursor(p)' /\ Flag(req[p].new)'
    BY <1>1, <2>1, <2>5, <2>7 DEF ReqOK, Cursor, Flag
  <2>9. Loaded(p)'
    <3>1. req[p].kind = "patch" => behind = req[p].behind
      BY DEF behind, put
    <3> QED BY <1>1, <2>1, <2>7, <3>1 DEF ReqOK, Loaded
  <2>10. ASSUME t \notin behind \cup mixed
         PROVE  Is(new, Applied(want[t], b, put))
    <3>1. row[t].sec = want[t].sec
      BY <1>2, <2>10 DEF CInv, LastWriteKept
    <3>2. meta = applyMeta(want[t].meta, b.meta, put)
      <4>1. CASE put
        BY <4>1 DEF applyMeta, meta
      <4>2. CASE ~put
        <5>1. req[p].kind = "patch" /\ t \notin req[p].behind \cup mixed
          BY <1>1, <2>10, <4>2 DEF behind, put, Request
        <5>2. req[p].base[Order[req[p].i]] = want[Order[req[p].i]].meta
          BY <1>1, <1>2, <5>1 DEF ReqOK, Loaded, t
        <5> QED BY <5>2 DEF meta, t
      <4> QED BY <4>1, <4>2
    <3>3. want[t] \in Wanted
      BY <1>1, <1>2
    <3>4. /\ Applied(want[t], b, put).there
          /\ Applied(want[t], b, put).meta = meta
          /\ Applied(want[t], b, put).sec = new.sec
      BY <1>2, <2>2, <2>5, <3>1, <3>2, <3>3, AppliedOK DEF inc
    <3>5. Applied(want[t], b, put).there = TRUE /\ new.there = TRUE
      BY <1>2, <2>2, <2>5, <3>3, <3>4, AppliedOK DEF Wanted, Row
    <3> QED BY <2>5, <3>4, <3>5 DEF Is
  <2>11. Ready(p)'
    BY <1>1, <2>1, <2>5, <2>7, <2>10 DEF Ready, t, b, put
  <2>12. ReqOK(p)'
    BY <2>8, <2>9, <2>11 DEF ReqOK
  <2> QED BY <1>1, <2>1, <2>7, <2>12, RequestStep
<1> QED BY <1>3, <1>4

\* The write of a prepared row, which puts other requests behind.
LEMMA WriteStep == ASSUME CInv, NEW p \in Reqs, WriteConnection(p) PROVE CInv'
<1> DEFINE t == Order[req[p].i]
           b == req[p].body[t]
           n == NextTarget(req[p].body, req[p].i + 1)
           put == req[p].kind = "put"
           pc == IF n > Len(Order) THEN "view" ELSE "get"
           y == [req[p] EXCEPT !.i = n, !.new = NoRow, !.pc = pc]
           z(q) == [req[q] EXCEPT !.behind = @ \cup {t}]
           w == Applied(want[t], b, put)
<1>1. /\ req \in [Reqs -> Request] /\ req[p].pc = "write" /\ ReqOK(p) /\ row \in [Targets -> Row]
      /\ want \in [Targets -> Wanted] /\ mixed \subseteq Targets
      /\ row' = [row EXCEPT ![t] = req[p].new] /\ want' = [want EXCEPT ![t] = w]
      /\ mixed' = IF t \in req[p].behind THEN mixed \cup {t} ELSE mixed
      /\ UNCHANGED <<key, ops>>
  BY DEF WriteConnection, CInv, TypeOK, Wanted
<1>2. /\ req[p].i \in 1 .. Len(Order) /\ t \in Targets /\ b \in Patches
      /\ n \in req[p].i + 1 .. Len(Order) + 1
      /\ n <= Len(Order) => req[p].body[Order[n]] # NULL
  <2>1. req[p].i \in 1 .. Len(Order) /\ t \in Targets /\ b \in Patches
    BY <1>1, OrderOK DEF ReqOK, Cursor, Request
  <2>2. req[p].i + 1 \in 1 .. Len(Order) + 1
    BY <2>1, OrderOK
  <2> QED BY <2>1, <2>2, NextTargetOK
<1>3. req' = [q \in Reqs |-> IF q = p THEN y
                             ELSE IF req[q].pc \in {"get", "write"} THEN z(q) ELSE req[q]]
  BY DEF WriteConnection
<1>4. req[p].new \in Row /\ Flag(req[p].new) /\ req[p].new.there
  BY <1>1 DEF ReqOK, Ready, Request
<1>5. pc \in {"view", "get"} /\ (pc = "get" => n <= Len(Order)) /\ put \in BOOLEAN
  BY <1>2, OrderOK
<1>6. w \in Wanted
  BY <1>1, <1>2, <1>5, AppliedOK
<1> HIDE DEF n, pc
<1>7. /\ y \in Request /\ y.pc = pc /\ y.i = n /\ y.new = NoRow /\ y.kind = req[p].kind
      /\ y.body = req[p].body /\ y.base = req[p].base /\ y.behind = req[p].behind
  <2>1. n \in 1 .. Len(Order) + 1 /\ req[p] \in Request
    BY <1>1, <1>2, OrderOK
  <2> QED BY <2>1, <1>5, NoneOK DEF Request
<1>8. ASSUME NEW q \in Reqs
      PROVE  /\ z(q) \in Request /\ z(q).pc = req[q].pc /\ z(q).i = req[q].i /\ z(q).new = req[q].new
             /\ z(q).kind = req[q].kind /\ z(q).body = req[q].body /\ z(q).base = req[q].base
             /\ z(q).behind = req[q].behind \cup {t}
  <2>1. req[q] \in Request /\ req[q].behind \cup {t} \subseteq Targets
    BY <1>1, <1>2 DEF Request
  <2> QED BY <2>1 DEF Request
<1> HIDE DEF t, b, put, y, z, w
<1>9. req' \in [Reqs -> Request] /\ req'[p] = y
  BY <1>1, <1>3, <1>7, <1>8
<1>10. ASSUME NEW q \in Reqs \ {p}
       PROVE  /\ req'[q].pc = req[q].pc /\ req'[q].i = req[q].i /\ req'[q].new = req[q].new
              /\ req'[q].kind = req[q].kind /\ req'[q].body = req[q].body
              /\ req'[q].base = req[q].base
              /\ req[q].pc \in {"get", "write"} => req'[q].behind = req[q].behind \cup {t}
  BY <1>3, <1>8
<1>11. /\ row'[t] = req[p].new /\ want'[t] = w /\ mixed \subseteq mixed' /\ mixed' \subseteq Targets
       /\ \A u \in Targets \ {t} : row'[u] = row[u] /\ want'[u] = want[u] /\ (u \in mixed' <=> u \in mixed)
       /\ t \notin mixed' => t \notin req[p].behind \cup mixed
  BY <1>1, <1>2
<1>12. TypeOK'
  <2>1. row' \in [Targets -> Row] /\ want' \in [Targets -> Wanted]
    BY <1>1, <1>2, <1>4, <1>6
  <2> QED BY <1>1, <1>9, <1>11, <2>1 DEF CInv, TypeOK, Wanted
<1>13. SetFlagTruthful'
  BY <1>4, <1>11 DEF CInv, SetFlagTruthful, Flag
<1>14. Blank'
  BY <1>4, <1>11 DEF CInv, Blank
<1>15. LastWriteKept'
  <2>1. t \notin mixed' => Is(req[p].new, w)
    BY <1>1, <1>11 DEF ReqOK, Ready, t, b, put, w
  <2> QED BY <1>11, <2>1 DEF CInv, LastWriteKept, Is
<1>16. ReqOK(p)'
  <2>1. Cursor(p)' /\ Ready(p)' /\ Flag(req[p].new)'
    BY <1>2, <1>5, <1>7, <1>9, NoneOK, OrderOK DEF Cursor, Ready, Flag
  <2>2. Loaded(p)'
    <3> SUFFICES ASSUME req[p].kind = "patch", NEW j \in n .. Len(Order),
                        Order[j] \notin req[p].behind \cup mixed'
                 PROVE  req[p].base[Order[j]] = want'[Order[j]].meta
      BY <1>7, <1>9 DEF Loaded
    <3>1. j \in req[p].i .. Len(Order) /\ j # req[p].i /\ j \in 1 .. Len(Order)
      BY <1>2, OrderOK
    <3>2. Order[j] # t /\ Order[j] \in Targets
      BY <1>2, <3>1, Distinct, OrderOK DEF t
    <3>3. req[p].base[Order[j]] = want[Order[j]].meta
      BY <1>1, <1>11, <3>1 DEF ReqOK, Loaded
    <3> QED BY <1>11, <3>2, <3>3
  <2> QED BY <2>1, <2>2 DEF ReqOK
<1>17. ASSUME NEW q \in Reqs \ {p} PROVE ReqOK(q)'
  <2>1. ReqOK(q)
    BY DEF CInv
  <2>2. Cursor(q)' /\ Flag(req[q].new)'
    BY <1>10, <2>1 DEF ReqOK, Cursor, Flag
  <2>3. Loaded(q)'
    <3> SUFFICES ASSUME req[q].pc \in {"get", "write"}, req[q].kind = "patch",
                        NEW j \in req[q].i .. Len(Order),
                        Order[j] \notin (req[q].behind \cup {t}) \cup mixed'
                 PROVE  req[q].base[Order[j]] = want'[Order[j]].meta
      BY <1>10 DEF Loaded
    <3>1. j \in 1 .. Len(Order)
      BY <2>1, OrderOK DEF ReqOK, Cursor
    <3>2. Order[j] \in Targets \ {t}
      BY <3>1, OrderOK
    <3>3. req[q].base[Order[j]] = want[Order[j]].meta
      BY <1>11, <2>1 DEF ReqOK, Loaded
    <3> QED BY <1>11, <3>2, <3>3
  <2>4. Ready(q)'
    <3> SUFFICES ASSUME req[q].pc = "write"
                 PROVE  LET u == Order[req[q].i] IN
                        /\ req[q].new.there
                        /\ u \notin (req[q].behind \cup {t}) \cup mixed' =>
                             Is(req[q].new, Applied(want'[u], req[q].body[u], req[q].kind = "put"))
      BY <1>10 DEF Ready
    <3>1. Order[req[q].i] \in Targets
      BY <2>1, OrderOK DEF ReqOK, Cursor
    <3> QED BY <1>11, <2>1, <3>1 DEF ReqOK, Ready
  <2> QED BY <2>2, <2>3, <2>4 DEF ReqOK
<1> QED BY <1>12, <1>13, <1>14, <1>15, <1>16, <1>17 DEF CInv

LEMMA RestartStep == ASSUME CInv, Restart PROVE CInv'
<1>1. req' \in [Reqs -> Request] /\ \A q \in Reqs : req'[q] = NoReq
  BY NoneOK DEF Restart
<1>2. TypeOK'
  BY <1>1, OpOK DEF Restart, CInv, TypeOK
<1>3. (SetFlagTruthful /\ LastWriteKept /\ Blank)'
  BY DEF Restart, CInv, SetFlagTruthful, LastWriteKept, Blank
<1>4. ASSUME NEW q \in Reqs PROVE ReqOK(q)'
  BY <1>1, NoneOK DEF ReqOK, Cursor, Loaded, Ready, Flag
<1> QED BY <1>2, <1>3, <1>4 DEF CInv

LEMMA NextCInv == CInv /\ [Next]_vars => CInv'
<1> SUFFICES ASSUME CInv, [Next]_vars PROVE CInv'
  OBVIOUS
<1>1. CASE UNCHANGED vars
  <2>1. UNCHANGED <<row, key, req, ops, want, mixed>>
    BY <1>1 DEF vars
  <2>2. (TypeOK /\ SetFlagTruthful /\ LastWriteKept /\ Blank)'
    BY <2>1 DEF CInv, TypeOK, SetFlagTruthful, LastWriteKept, Blank
  <2>3. ASSUME NEW q \in Reqs PROVE ReqOK(q)'
    <3>1. ReqOK(q)
      BY DEF CInv
    <3> QED BY <2>1, <3>1 DEF ReqOK, Cursor, Loaded, Ready, Flag
  <2> QED BY <2>2, <2>3 DEF CInv
<1>2. CASE Restart
  BY <1>2, RestartStep
<1>3. ASSUME NEW p \in Reqs,
             \/ BeginRequest(p) \/ BeginRead(p) \/ LoadConnections(p) \/ GetConnection(p)
             \/ WriteConnection(p) \/ AnswerView(p) \/ FailRequest(p)
      PROVE  CInv'
  <2>1. CASE AnswerView(p) \/ FailRequest(p)
    BY <2>1, OpOK, EndStep DEF AnswerView, FailRequest, CInv, TypeOK
  <2> QED BY <1>3, <2>1, BeginRequestStep, BeginReadStep, LoadStep, GetStep, WriteStep
<1> QED BY <1>1, <1>2, <1>3 DEF Next

-----------------------------------------------------------------------------
(* Theorems.                                                               *)

LEMMA InvariantHolds == Spec => []CInv
  BY InitCInv, NextCInv, PTL DEF Spec

\* Rows, requests and history keep their types.
THEOREM TypeCorrect == Spec => []TypeOK
<1>1. CInv => TypeOK
  BY DEF CInv
<1> QED BY <1>1, InvariantHolds, PTL

\* The secrets_set column, the ciphertext and the secrets always agree: what
\* prepareConnectionUpsert carries over, seals anew or empties, and whichever
\* of two concurrent writes comes last.
THEOREM FlagTruthful == Spec => []SetFlagTruthful
<1>1. CInv => SetFlagTruthful
  BY DEF CInv
<1> QED BY <1>1, InvariantHolds, PTL

\* The rows that UpsertConnection writes statement by statement are those of
\* writes applied in one step each, for every target that was not written by
\* two requests at once.
THEOREM WritesKept == Spec => []LastWriteKept
<1>1. CInv => LastWriteKept
  BY DEF CInv
<1> QED BY <1>1, InvariantHolds, PTL

=============================================================================
