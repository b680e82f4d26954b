---------------------------- MODULE Credentials ----------------------------
(***************************************************************************)
(* What the API does to a user's credentials (auth.service.ts, the guarded *)
(* statements of neo4j-auth.repository.ts) and the window scan for default *)
(* passwords (identity-window.ts), while operators rotate the password     *)
(* (Rotation).                                                             *)
(*                                                                         *)
(* A credential carries the generation it was issued in; each use compares *)
(* it with the user's.  bcrypt runs between the read of a hash and what    *)
(* the comparison decides, so every write is guarded by what was read, and *)
(* a login reads the user again.  The guards run under the node's write    *)
(* lock (user-lock.ts): a guarded statement is one step.                   *)
(*                                                                         *)
(* The environment is one that refuses default passwords.  A refresh, and  *)
(* a check of a token or key, write nothing a property tells apart.        *)
(***************************************************************************)
EXTENDS Rotation

CONSTANTS
  Login,     \* logins, one after the other in each
  Scan,      \* scans, each of the whole store
  Deletion   \* requests to delete the account

ASSUME CredentialAssumption ==
  /\ Login \cap Scan = {}
  /\ Change \cap Key = {} /\ Change \cap Deletion = {} /\ Key \cap Deletion = {}

VARIABLES
  tokens,   \* <<generation, password>> of the tokens logins issued
  check,    \* the password comparisons
  request   \* the requests

credentialVars == <<tokens, check, request>>
allVars == <<rotationVars, credentialVars>>

Request == Change \cup Key \cup Deletion

NoUser == [exists |-> FALSE, enabled |-> FALSE, hash |-> Default, epoch |-> 0, marked |-> FALSE]
Idle   == [at |-> "idle", read |-> NoUser]
Over   == [at |-> "done", cep |-> 0, read |-> Default]

CheckState == [at : {"idle", "read", "mark", "reread"}, read : User]
RequestState == [at : {"new", "authorized", "read", "disabled", "purged", "done"},
                 cep : Nat, read : Password]

CredentialTypeOK ==
  /\ tokens \subseteq Nat \X Password
  /\ check \in [Login \cup Scan -> CheckState]
  /\ request \in [Request -> RequestState]

Init ==
  /\ RotationInit
  /\ tokens = {} /\ check = [l \in Login \cup Scan |-> Idle]
  /\ request = [q \in Request |-> [at |-> "new", cep |-> 0, read |-> Default]]

-----------------------------------------------------------------------------
(* Comparisons.                                                            *)

\* findUserByUsername, or the scan's read of the store.
LookUp(l) ==
  /\ check[l].at = "idle" /\ user.exists
  /\ check' = [check EXCEPT ![l] = [at |-> "read", read |-> user]]
  /\ UNCHANGED <<rotationVars, tokens, request>>

Marks(l) == check[l].read.hash = Default /\ (l \in Scan \/ check[l].read.enabled)

\* Mutant: the default password is let in where it is not marked yet.
DefaultGoesOn(l) == l \in Login /\ check[l].read.enabled /\ ~check[l].read.marked

GoesOn(l) ==
  l \in Login /\ check[l].read.enabled /\ ~check[l].read.marked /\ check[l].read.hash # Default

\* bcrypt has compared: a default password that matches is refused and to be marked,
\* another one that matches goes on, unless the account is marked; the rest is refused.
Compare(l) ==
  /\ check[l].at = "read"
  /\ \/ Marks(l)  /\ check' = [check EXCEPT ![l].at = "mark"]
     \/ GoesOn(l) /\ check' = [check EXCEPT ![l].at = "reread"]
     \/ ~(l \in Scan /\ Marks(l)) /\ check' = [check EXCEPT ![l] = Idle]
  /\ UNCHANGED <<rotationVars, tokens, request>>

\* Mutant: the account is marked whatever it holds by now.
MarksAnyway(l) == user.exists

MarkGuard(l) ==
  user.exists /\ ~user.marked /\ user.hash = check[l].read.hash /\ user.epoch = check[l].read.epoch

\* MARK_DEFAULT_SUSPECT_CYPHER, SCAN_MARK_CYPHER; a login goes on if it fails.
Mark(l) ==
  /\ check[l].at = "mark"
  /\ check' = [check EXCEPT ![l] = Idle]
  /\ user' = IF MarkGuard(l) THEN [user EXCEPT !.marked = TRUE] ELSE user
  /\ UNCHANGED <<keys, intent, decision, outcome, basis, apply, cancels, job, tokens, request>>

CannotMark(l) ==
  /\ check[l].at = "mark"
  /\ check' = [check EXCEPT ![l] = Idle]
  /\ UNCHANGED <<rotationVars, tokens, request>>

Unmoved(l) ==
  /\ user.exists /\ user.enabled /\ ~user.marked
  /\ user.hash = check[l].read.hash /\ user.epoch = check[l].read.epoch

\* The second read; then the tokens.
Issue(l) ==
  /\ check[l].at = "reread" /\ Unmoved(l)
  /\ tokens' = tokens \cup {<<check[l].read.epoch, check[l].read.hash>>}
  /\ check' = [check EXCEPT ![l] = Idle]
  /\ UNCHANGED <<rotationVars, request>>

RefuseLogin(l) ==
  /\ check[l].at = "reread"
  /\ check' = [check EXCEPT ![l] = Idle]
  /\ UNCHANGED <<rotationVars, tokens, request>>

-----------------------------------------------------------------------------
(* Requests.                                                               *)

\* verifyToken, verifyApiKey: what a credential of generation e is worth.
Accepted(e) == user.exists /\ user.enabled /\ ~user.marked /\ e = user.epoch

Usable(k) == keys[k].state = "live" /\ Accepted(keys[k].epoch)

Moves(q, from, to) == request[q].at = from /\ request' = [request EXCEPT ![q].at = to]

Authorize(q) ==
  /\ request[q].at = "new"
  /\ (\E t \in tokens : Accepted(t[1])) \/ (\E k \in Key : Usable(k))
  /\ request' = [request EXCEPT ![q].at = "authorized", ![q].cep = user.epoch]
  /\ UNCHANGED <<rotationVars, tokens, check>>

\* The handler's own read, in the authorizing generation.  (A key's is not compared.)
ReadUser(q) ==
  /\ request[q].at = "authorized" /\ user.exists
  /\ q \in Key \/ user.epoch = request[q].cep
  /\ request' = [request EXCEPT ![q].at = "read", ![q].read = user.hash]
  /\ UNCHANGED <<rotationVars, tokens, check>>

\* The request is refused, or fails, where it stands.
GiveUp(q) ==
  /\ request[q].at \notin {"new", "done"}
  /\ request' = [request EXCEPT ![q] = Over]
  /\ UNCHANGED <<rotationVars, tokens, check>>

\* Mutant: no guard.
Unguarded(c) == user.exists

WriteGuard(c) ==
  user.exists /\ user.epoch = request[c].cep /\ ~user.marked /\ user.hash = request[c].read

\* GUARDED_PASSWORD_CYPHER.  It does not raise the generation.
WriteHash(c) ==
  /\ Moves(c, "read", "done") /\ WriteGuard(c)
  /\ user' = [user EXCEPT !.hash = c]
  /\ UNCHANGED <<keys, intent, decision, outcome, basis, apply, cancels, job, tokens, check>>

\* Mutant: the key is of the user's generation, read afresh.
FreshGeneration(k) == user.epoch

KeyGeneration(k) == request[k].cep

\* createApiKey.
InsertKey(k) ==
  /\ Moves(k, "read", "done")
  /\ keys' = [keys EXCEPT ![k] = [epoch |-> KeyGeneration(k), state |-> "live"]]
  /\ UNCHANGED <<user, intent, decision, outcome, basis, apply, cancels, job, tokens, check>>

\* revokeApiKey, by the account's user.
RevokeKey(k) ==
  /\ keys[k].state = "live"
  /\ (\E t \in tokens : Accepted(t[1])) \/ (\E j \in Key : Usable(j))
  /\ keys' = [keys EXCEPT ![k].state = "revoked"]
  /\ UNCHANGED <<user, intent, decision, outcome, basis, apply, cancels, job, tokens, check, request>>

\* GUARDED_DISABLE_CYPHER.
Disable(d) ==
  /\ Moves(d, "read", "disabled")
  /\ user.exists /\ user.epoch = request[d].cep /\ ~user.marked
  /\ user' = [user EXCEPT !.enabled = FALSE]
  /\ UNCHANGED <<keys, intent, decision, outcome, basis, apply, cancels, job, tokens, check>>

\* deleteUserAccount: PostgreSQL's rows, then the node, whatever became of it meanwhile.
Purge(d) ==
  /\ Moves(d, "disabled", "purged")
  /\ keys' = [k \in Key |-> [keys[k] EXCEPT !.state = "none"]]
  /\ UNCHANGED <<user, intent, decision, outcome, basis, apply, cancels, job, tokens, check>>

Remove(d) ==
  /\ Moves(d, "purged", "done")
  /\ user' = [user EXCEPT !.exists = FALSE]
  /\ UNCHANGED <<keys, intent, decision, outcome, basis, apply, cancels, job, tokens, check>>

-----------------------------------------------------------------------------
CheckStep(l) == \/ LookUp(l) \/ Compare(l) \/ Mark(l) \/ CannotMark(l) \/ Issue(l) \/ RefuseLogin(l)
RequestStep(q) == \/ Authorize(q) \/ ReadUser(q) \/ GiveUp(q)

CredentialStep ==
  \/ \E l \in Login \cup Scan : CheckStep(l)
  \/ \E q \in Request : RequestStep(q)
  \/ \E c \in Change : WriteHash(c)
  \/ \E k \in Key : InsertKey(k) \/ RevokeKey(k)
  \/ \E d \in Deletion : Disable(d) \/ Purge(d) \/ Remove(d)

Next == (RotationStep /\ UNCHANGED credentialVars) \/ CredentialStep

Spec == Init /\ [][Next]_allVars

-----------------------------------------------------------------------------
(* Properties.                                                             *)

TypeOK == RotationTypeOK /\ CredentialTypeOK

\* The generation a password belongs to: the one its rotation aims at, or the one
\* that authorized the user's change.
GenerationOf(pw) ==
  IF pw \in Rotation THEN intent[pw] ELSE IF pw \in Change THEN request[pw].cep ELSE 0

\* "a request authorized before an operator rotation cannot overwrite it": the stored
\* hash is always one of the user's generation.
HashIsOfItsGeneration == user.hash \in Password /\ GenerationOf(user.hash) = user.epoch

\* No login gets a token in a generation its password does not belong to, however a
\* rotation falls into its bcrypt, and the default password gets none.
TokensAreOfTheirGeneration ==
  \A t \in tokens : t[2] # Default /\ GenerationOf(t[2]) = t[1]

\* "a key created in flight by a pre-rotation credential is born dead": a key that
\* works was authorized in the user's present generation.
UsableKeysAreCurrent == \A k \in Key : Usable(k) => request[k].cep = user.epoch

\* A marked account holds the default password: no mark of a login or scan that read
\* it before a rotation or a change lands after.
MarkedHoldsDefault == user.marked => user.hash = Default

\* "a request authorized before an operator rotation cannot delete the rotated account."
RotatedAccountStays ==
  ~user.exists => \E d \in Deletion : request[d].cep = user.epoch
=============================================================================
