------------------------------ MODULE Connections ------------------------------
(***************************************************************************)
(* Connections: the stored settings of Vault, AAP and EDA with their       *)
(* encrypted secrets (internal/store/connections.go) and the requests that *)
(* read and write them (internal/api/handlers_settings.go).                *)
(*                                                                         *)
(* A PUT or PATCH goes through its targets in order; for each it reads the *)
(* row and writes it back whole, in two statements and no transaction.  A  *)
(* PATCH merges metadata with the rows it read once at its beginning,      *)
(* secrets with the row read just before the write.  Metadata has two      *)
(* kinds of fields: addr, stored as given (addresses, templates, mount,    *)
(* switches), and mode, which takes a default when it would be empty       *)
(* (deployment and auth_method of Vault).                                  *)
(*                                                                         *)
(* Requests are those of callers roleAllows has let in, at the router and  *)
(* again in the handler: a refused one changes nothing.                    *)
(***************************************************************************)
EXTENDS Integers, Sequences, FiniteSetsExt

CONSTANTS
  Order,      \* the targets in the order they are written
  Secrets,    \* names of secrets
  Values,     \* non-empty values
  Patches,    \* what a request may say of one target
  Default,    \* what an empty mode is stored as
  Keys,       \* encryption keys
  Reqs,       \* settings requests in flight
  NULL,
  MaxOps      \* bound: requests, restarts and faults

ASSUME ConnectionsNumbers == MaxOps \in Nat
ASSUME ConnectionsNull == NULL \notin Values /\ NULL \notin Keys

VARIABLES
  row,      \* the connections table
  key,      \* the key the server runs with, NULL when missing or invalid
  req,      \* requests
  ops,
  want,     \* history: the settings if each write were applied in one step
  mixed     \* history: targets two requests wrote over each other

vars == <<row, key, req, ops, want, mixed>>

Targets == {Order[i] : i \in DOMAIN Order}
Fields == {"addr", "mode"}
Empty == ""
\* A secret field of a request: not there, empty, JSON null, or a value.
SecretField == {"omit", "empty", "null"} \cup Values

Meta == [Fields -> Values \cup {Empty}]
SecretMap == [Secrets -> Values \cup {Empty}]      \* Empty: not in the map
NoSecrets == [s \in Secrets |-> Empty]
NoMeta == [f \in Fields |-> Empty]
NoRow == [there |-> FALSE, meta |-> NoMeta, enc |-> NULL, sec |-> NoSecrets, set |-> FALSE]
NoReq == [pc |-> "idle", kind |-> "patch", body |-> [t \in Targets |-> NULL], i |-> 1,
          base |-> [t \in Targets |-> NoMeta], new |-> NoRow, behind |-> {}]

\* sec is the content of the ciphertext, enc the key it was sealed with.
Row == [there : BOOLEAN, meta : Meta, enc : Keys \cup {NULL}, sec : SecretMap, set : BOOLEAN]
Request == [pc : {"idle", "load", "get", "write", "view"}, kind : {"put", "patch"},
            body : [Targets -> Patches \cup {NULL}], i : 1 .. Len(Order) + 1,
            base : [Targets -> Meta], new : Row, behind : SUBSET Targets]

\* The targets are different ones; requests are well formed.
ASSUME ConnectionsShapes ==
  /\ Order \in Seq(Targets)
  /\ \A i, j \in 1 .. Len(Order) : Order[i] = Order[j] => i = j
  /\ Patches \subseteq [meta : [Fields -> Values \cup {Empty, NULL}],
                       sec : [Secrets -> SecretField]]
  /\ Default \in Values

TypeOK ==
  /\ row \in [Targets -> Row]
  /\ key \in Keys \cup {NULL}
  /\ req \in [Reqs -> Request]
  /\ ops \in 0 .. MaxOps
  /\ want \in [Targets -> [there : BOOLEAN, meta : Meta, sec : SecretMap]]
  /\ mixed \subseteq Targets

Init ==
  /\ row = [t \in Targets |-> NoRow] /\ key \in Keys \cup {NULL}
  /\ req = [p \in Reqs |-> NoReq] /\ ops = 0
  /\ want = [t \in Targets |-> [there |-> FALSE, meta |-> NoMeta, sec |-> NoSecrets]]
  /\ mixed = {}

Op == ops < MaxOps /\ ops' = ops + 1

-----------------------------------------------------------------------------
(* Merging.                                                                *)

\* Mutant: an empty field clears the secret.
collectSecrets_EmptyClears(sec) ==
  [s \in {x \in Secrets : sec[x] # "omit"} |-> IF sec[s] \in Values THEN sec[s] ELSE Empty]
\* Mutant: JSON null is taken for a value.
collectSecrets_NullStored(sec) == [s \in {x \in Secrets : sec[x] \notin {"omit", "empty"}} |-> sec[s]]
\* The secrets a request changes: a new value, or Empty to clear.  Those it
\* leaves out or leaves empty are kept.
collectSecrets(sec) ==
  [s \in {x \in Secrets : sec[x] \notin {"omit", "empty"}} |->
     IF sec[s] = "null" THEN Empty ELSE sec[s]]

mergeSecrets(previous, incoming) ==
  [s \in Secrets |-> IF s \in DOMAIN incoming THEN incoming[s] ELSE previous[s]]

\* applyVaultMeta, applyAAPMeta, applyEDAMeta: NULL is a field left out, and
\* a PUT starts from nothing.
applyMeta(prev, patch, replace) ==
  [f \in Fields |->
     LET given == IF patch[f] # NULL THEN patch[f] ELSE IF replace THEN Empty ELSE prev[f]
     IN IF f = "mode" /\ given = Empty THEN Default ELSE given]

\* Mutant: the flag is not reset when the last secret is cleared.
Sealed_FlagKept(r, k, merged) ==
  IF merged = NoSecrets THEN [r EXCEPT !.enc = NULL, !.sec = NoSecrets]
  ELSE [r EXCEPT !.enc = k, !.sec = merged, !.set = TRUE]
Sealed(r, k, merged) ==
  IF merged = NoSecrets THEN [r EXCEPT !.enc = NULL, !.sec = NoSecrets, !.set = FALSE]
  ELSE [r EXCEPT !.enc = k, !.sec = merged, !.set = TRUE]

\* openSecrets: only with the key the ciphertext was sealed with.
Opens(r) == r.enc = NULL \/ r.enc = key

\* prepareConnectionUpsert: without new secrets the ciphertext is carried
\* over unopened; with new ones the key is needed, for the old ones too.
hasNewSecrets(incoming) == DOMAIN incoming # {}
Prepared(old, meta, incoming) ==
  LET r == [old EXCEPT !.there = TRUE, !.meta = meta] IN
  IF hasNewSecrets(incoming) THEN Sealed(r, key, mergeSecrets(old.sec, incoming)) ELSE r
Preparable(old, incoming) == hasNewSecrets(incoming) => key # NULL /\ Opens(old)

-----------------------------------------------------------------------------
(* Requests.                                                               *)

End(p) == req' = [req EXCEPT ![p] = NoReq]
\* The next target the request names, from index i on.
NextTarget(body, i) ==
  LET S == {j \in i .. Len(Order) : body[Order[j]] # NULL}
  IN IF S = {} THEN Len(Order) + 1 ELSE Min(S)

\* handlePutConnections needs all the targets, handlePatchConnections one.
BeginRequest(p) ==
  /\ req[p].pc = "idle" /\ Op
  /\ \E kind \in {"put", "patch"}, body \in [Targets -> Patches \cup {NULL}] :
       /\ \E t \in Targets : body[t] # NULL
       /\ kind = "put" => \A t \in Targets : body[t] # NULL
       /\ req' = [req EXCEPT ![p] = [NoReq EXCEPT
                    !.pc = IF kind = "put" THEN "get" ELSE "load",
                    !.kind = kind, !.body = body, !.i = NextTarget(body, 1)]]
  /\ UNCHANGED <<row, key, want, mixed>>

\* GET, which asks for read permission; a connection test asks for write
\* permission and then only reads, as the options of a connection do.
BeginRead(p) ==
  /\ req[p].pc = "idle"
  /\ req' = [req EXCEPT ![p].pc = "view"]
  /\ UNCHANGED <<row, key, ops, want, mixed>>

\* connectionByTarget, once for all the targets of a PATCH.
LoadConnections(p) ==
  /\ req[p].pc = "load"
  /\ req' = [req EXCEPT ![p].pc = "get", ![p].base = [t \in Targets |-> row[t].meta]]
  /\ UNCHANGED <<row, key, ops, want, mixed>>

\* UpsertConnection: getConnection and prepareConnectionUpsert; without the
\* key the request ends here, the targets before this one written.
GetConnection(p) ==
  LET t == Order[req[p].i]
      b == req[p].body[t]
      incoming == collectSecrets(b.sec) IN
  /\ req[p].pc = "get"
  /\ IF ~Preparable(row[t], incoming) THEN End(p)
     ELSE req' = [req EXCEPT ![p].pc = "write",
            ![p].new = Prepared(row[t], applyMeta(req[p].base[t], b.meta, req[p].kind = "put"),
                                incoming),
            \* a PUT depends on the row from here on, a PATCH since it loaded
            ![p].behind = IF req[p].kind = "put" THEN @ \ {t} ELSE @]
  /\ UNCHANGED <<row, key, ops, want, mixed>>

\* The settings with the request applied in one step.
Applied(w, b, replace) ==
  [there |-> TRUE, meta |-> applyMeta(w.meta, b.meta, replace),
   sec |-> [s \in Secrets |-> IF b.sec[s] \in {"omit", "empty"} THEN w.sec[s]
                              ELSE IF b.sec[s] = "null" THEN Empty ELSE b.sec[s]]]

WriteConnection(p) ==
  LET t == Order[req[p].i]
      b == req[p].body[t]
      n == NextTarget(req[p].body, req[p].i + 1) IN
  /\ req[p].pc = "write"
  /\ row' = [row EXCEPT ![t] = req[p].new]
  /\ want' = [want EXCEPT ![t] = Applied(@, b, req[p].kind = "put")]
  /\ mixed' = IF t \in req[p].behind THEN mixed \cup {t} ELSE mixed
  /\ req' = [q \in Reqs |->
       IF q = p THEN [req[p] EXCEPT !.i = n, !.new = NoRow,
                                    !.pc = IF n > Len(Order) THEN "view" ELSE "get"]
       ELSE IF req[q].pc \in {"get", "write"} THEN [req[q] EXCEPT !.behind = @ \cup {t}]
       ELSE req[q]]
  /\ UNCHANGED <<key, ops>>

\* writeConnectionsView: the answer, an error when some row does not open.
AnswerView(p) ==
  /\ req[p].pc = "view" /\ End(p)
  /\ UNCHANGED <<row, key, ops, want, mixed>>

\* A statement fails, or the client goes away.
FailRequest(p) ==
  /\ req[p].pc # "idle" /\ Op /\ End(p)
  /\ UNCHANGED <<row, key, want, mixed>>

\* The server restarts, perhaps with another key.
Restart ==
  /\ Op /\ key' \in Keys \cup {NULL}
  /\ req' = [p \in Reqs |-> NoReq]
  /\ UNCHANGED <<row, want, mixed>>

Next ==
  \/ \E p \in Reqs : \/ BeginRequest(p) \/ BeginRead(p) \/ LoadConnections(p) \/ GetConnection(p)
                     \/ WriteConnection(p) \/ AnswerView(p) \/ FailRequest(p)
  \/ Restart

Spec == Init /\ [][Next]_vars

-----------------------------------------------------------------------------
(* Properties.                                                             *)

\* What is stored for a target is what the writes say, one after the other:
\* secrets that a request leaves out or empty are kept, null clears them,
\* whatever key the server has run with in between; unless two requests were
\* writing the target at the same time.
LastWriteKept ==
  \A t \in Targets \ mixed :
    row[t].there = want[t].there /\ row[t].meta = want[t].meta /\ row[t].sec = want[t].sec

\* The secrets_set column tells whether there are secrets, and there is a
\* ciphertext exactly then, concurrent writes included.
SetFlagTruthful ==
  \A t \in Targets : row[t].set = (row[t].sec # NoSecrets) /\ row[t].set = (row[t].enc # NULL)

=============================================================================
