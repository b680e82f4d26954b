------------------------------ MODULE Rotation ------------------------------
(***************************************************************************)
(* The operator's password rotation of one user (rotate-user-password.ts). *)
(*                                                                         *)
(* A rotation commits an intent in PostgreSQL, then one transaction in     *)
(* Neo4j that changes the password, raises the credential generation and   *)
(* creates the intent's decision `applied'.  Whoever does not hear the     *)
(* answer creates the decision `cancelled' instead; decisions are unique   *)
(* per intent.  The outcome is written to PostgreSQL only from a decision  *)
(* that was read.  A script may die anywhere, a statement may run after    *)
(* its sender gave up on it, and reconciling runs resolve open intents.    *)
(*                                                                         *)
(* The session lock that keeps operators apart is left out: "no outcome    *)
(* depends on it".  What else the program does to the account is in        *)
(* Credentials.                                                            *)
(***************************************************************************)
EXTENDS Naturals, FiniteSets

CONSTANTS
  Rotation,  \* runs of rotate-user-password; each names its intent and password
  Resolver,  \* runs of rotate-user-password --reconcile, repeated
  Key,       \* API keys
  Change,    \* passwords the user chooses
  Default,   \* the default password
  Initial,   \* the passwords the account may have at first
  None

ASSUME RotationAssumption ==
  /\ Rotation \cap Resolver = {} /\ Rotation \cap Change = {}
  /\ (Initial \cup {Default}) \cap (Rotation \cup Change) = {}
  /\ None \notin Rotation \cup {"applied", "guard_failed", "fenced"}

VARIABLES
  user,      \* the :User node
  keys,      \* api_keys
  intent,    \* the generation an intent row aims at; 0 without a row
  decision,  \* :CredentialRotationDecision
  outcome,   \* the outcome row of an intent
  basis,     \* the generation a rotation read
  apply,     \* a rotation's apply transaction
  cancels,   \* cancel statements whose sender gave up on them
  job        \* the scripts

rotationVars == <<user, keys, intent, decision, outcome, basis, apply, cancels, job>>

Script   == Rotation \cup Resolver
Password == Initial \cup {Default} \cup Rotation \cup Change
Reason   == {"guard_failed", "fenced"}
Verdict  == {"applied"} \cup Reason

User   == [exists : BOOLEAN, enabled : BOOLEAN, hash : Password, epoch : Nat, marked : BOOLEAN]
KeyRow == [epoch : Nat, state : {"none", "live", "revoked"}]
Job    == [at : {"new", "prepared", "intended", "applying", "look", "fence", "observe", "record",
                 "refused", "pending", "done", "dead"},
           on : Rotation \cup {None}, saw : Verdict \cup {None}]

RotationTypeOK ==
  /\ user \in User /\ keys \in [Key -> KeyRow]
  /\ intent \in [Rotation -> Nat] /\ basis \in [Rotation -> Nat]
  /\ decision \in [Rotation -> Verdict \cup {None}]
  /\ outcome \in [Rotation -> Verdict \cup {None}]
  /\ apply \in [Rotation -> {"unsent", "sent", "applied", "empty", "failed"}]
  /\ cancels \subseteq Rotation \X Reason
  /\ job \in [Script -> Job]

RotationInit ==
  /\ \E h \in Initial, m \in BOOLEAN :
       /\ m => h = Default
       /\ user = [exists |-> TRUE, enabled |-> TRUE, hash |-> h, epoch |-> 0, marked |-> m]
  /\ keys = [k \in Key |-> [epoch |-> 0, state |-> "none"]]
  /\ intent = [r \in Rotation |-> 0] /\ basis = [r \in Rotation |-> 0]
  /\ decision = [r \in Rotation |-> None] /\ outcome = [r \in Rotation |-> None]
  /\ apply = [r \in Rotation |-> "unsent"] /\ cancels = {}
  /\ job = [p \in Script |-> [at |-> "new", on |-> IF p \in Rotation THEN p ELSE None, saw |-> None]]

-----------------------------------------------------------------------------
OpenIntents == {r \in Rotation : intent[r] # 0 /\ outcome[r] = None}

Goes(p, from, to)   == job[p].at = from /\ job' = [job EXCEPT ![p].at = to]
Learns(p, from, to, v) == job[p].at = from /\ job' = [job EXCEPT ![p].at = to, ![p].saw = v]

\* prepareRotation up to its transaction: no open intent, one user, its generation.
Prepare(r) ==
  /\ user.exists /\ OpenIntents = {}
  /\ Goes(r, "new", "prepared")
  /\ basis' = [basis EXCEPT ![r] = user.epoch]
  /\ UNCHANGED <<user, keys, intent, decision, outcome, apply, cancels>>

\* Mutant: only the first check looks for open intents.
NoneOpenBefore == TRUE

NoneOpen == OpenIntents = {}

\* The intent, in one transaction with the second check.
CommitIntent(r) ==
  /\ NoneOpen
  /\ Goes(r, "prepared", "intended")
  /\ intent' = [intent EXCEPT ![r] = basis[r] + 1]
  /\ UNCHANGED <<user, keys, decision, outcome, basis, apply, cancels>>

Refuse(r) ==
  /\ job[r].at \in {"new", "prepared"}
  /\ ~user.exists \/ OpenIntents # {}
  /\ job' = [job EXCEPT ![r].at = "refused"]
  /\ UNCHANGED <<user, keys, intent, decision, outcome, basis, apply, cancels>>

SendApply(r) ==
  /\ Goes(r, "intended", "applying")
  /\ apply' = [apply EXCEPT ![r] = "sent"]
  /\ UNCHANGED <<user, keys, intent, decision, outcome, basis, cancels>>

\* Mutant: the decision is looked up before the statement, not with it.
UndecidedBefore(r) == TRUE

Undecided(r) == decision[r] = None

ApplyGuard(r) == user.exists /\ user.epoch = basis[r]

\* APPLY_CYPHER commits.
LandApply(r) ==
  /\ apply[r] = "sent" /\ ApplyGuard(r) /\ Undecided(r)
  /\ user' = [user EXCEPT !.hash = r, !.marked = FALSE, !.epoch = basis[r] + 1]
  /\ decision' = [decision EXCEPT ![r] = "applied"]
  /\ apply' = [apply EXCEPT ![r] = "applied"]
  /\ UNCHANGED <<keys, intent, outcome, basis, cancels, job>>

\* It writes nothing: its guards fail (another node may answer to the user's id,
\* too), or the decision is already made.
ApplyFails(r) ==
  /\ apply[r] = "sent"
  /\ \/ apply' = [apply EXCEPT ![r] = "empty"]
     \/ ~Undecided(r) /\ apply' = [apply EXCEPT ![r] = "failed"]
  /\ UNCHANGED <<user, keys, intent, decision, outcome, basis, cancels, job>>

\* The answer to the apply, or none.
Hear(r) ==
  /\ \/ apply[r] = "applied" /\ Learns(r, "applying", "record", "applied")
     \/ apply[r] = "empty" /\ Learns(r, "applying", "fence", "guard_failed")
     \/ Learns(r, "applying", "fence", "fenced")
  /\ UNCHANGED <<user, keys, intent, decision, outcome, basis, apply, cancels>>

\* Mutants: a later decision replaces the first; nothing is fenced.
Decides(r, v) == [decision EXCEPT ![r] = v]
Unfenced(r, v) == decision

Cancelled(r, v) == IF Undecided(r) THEN [decision EXCEPT ![r] = v] ELSE decision

\* fence: CANCEL_CYPHER is answered, by a commit or by the constraint.
Cancel(p) ==
  /\ Goes(p, "fence", "observe")
  /\ decision' = Cancelled(job[p].on, job[p].saw)
  /\ UNCHANGED <<user, keys, intent, outcome, basis, apply, cancels>>

\* It is not answered, and may run later.
CancelUnheard(p) ==
  /\ Goes(p, "fence", "observe")
  /\ cancels' = cancels \cup {<<job[p].on, job[p].saw>>}
  /\ UNCHANGED <<user, keys, intent, decision, outcome, basis, apply>>

LandCancel(r, v) ==
  /\ <<r, v>> \in cancels
  /\ decision' = Cancelled(r, v)
  /\ cancels' = cancels \ {<<r, v>>}
  /\ UNCHANGED <<user, keys, intent, outcome, basis, apply, job>>

\* observeDecision finds one; none yet: a first look fences, a second gives up.
Observe(p) ==
  /\ job[p].at \in {"look", "observe"}
  /\ LET d == decision[job[p].on]
     IN  \/ d # None /\ Learns(p, job[p].at, "record", d)
         \/ d = None /\ Learns(p, "look", "fence", "fenced")
         \/ d = None /\ Goes(p, "observe", "pending")
  /\ UNCHANGED <<user, keys, intent, decision, outcome, basis, apply, cancels>>

\* The decision cannot be read.
CannotObserve(p) ==
  /\ Learns(p, "look", "fence", "fenced") \/ Goes(p, "observe", "pending")
  /\ UNCHANGED <<user, keys, intent, decision, outcome, basis, apply, cancels>>

Revoked(k, r) == keys[k].state = "live" /\ keys[k].epoch < intent[r]

\* recordOutcome.  An outcome recorded first stands, and is the answer; the commit may
\* go unheard.
Record(p) ==
  /\ job[p].at = "record"
  /\ LET r == job[p].on
         v == IF outcome[r] = None THEN job[p].saw ELSE outcome[r]
     IN  /\ Learns(p, "record", "done", v) \/ Goes(p, "record", "pending")
         /\ outcome' = [outcome EXCEPT ![r] = v]
         /\ keys' = IF outcome[r] = None /\ v = "applied"
                    THEN [k \in Key |-> IF Revoked(k, r) THEN [keys[k] EXCEPT !.state = "revoked"] ELSE keys[k]]
                    ELSE keys
  /\ UNCHANGED <<user, intent, decision, basis, apply, cancels>>

CannotRecord(p) ==
  /\ Goes(p, "record", "pending")
  /\ UNCHANGED <<user, keys, intent, decision, outcome, basis, apply, cancels>>

\* reconcileRotations takes an open intent.
Resolve(v, r) ==
  /\ job[v].at \in {"new", "done", "pending"} /\ r \in OpenIntents
  /\ job' = [job EXCEPT ![v] = [at |-> "look", on |-> r, saw |-> None]]
  /\ UNCHANGED <<user, keys, intent, decision, outcome, basis, apply, cancels>>

\* A rotation is killed; a killed reconciliation leaves what a pending one leaves.
Die(r) ==
  /\ job[r].at \in {"intended", "applying", "fence", "observe", "record"}
  /\ job' = [job EXCEPT ![r].at = "dead"]
  /\ UNCHANGED <<user, keys, intent, decision, outcome, basis, apply, cancels>>

-----------------------------------------------------------------------------
ScriptStep(p) ==
  \/ Cancel(p) \/ CancelUnheard(p) \/ Observe(p) \/ CannotObserve(p) \/ Record(p) \/ CannotRecord(p)

RotationStep ==
  \/ \E r \in Rotation : \/ Prepare(r) \/ CommitIntent(r) \/ Refuse(r) \/ SendApply(r)
                         \/ LandApply(r) \/ ApplyFails(r) \/ Hear(r) \/ Die(r)
                         \/ \E v \in Reason : LandCancel(r, v)
                         \/ \E v \in Resolver : Resolve(v, r)
  \/ \E p \in Script : ScriptStep(p)

RotationSpec == RotationInit /\ [][RotationStep]_rotationVars

\* Somebody reconciles again and again, and both stores are reachable again and again.
RotationFairness ==
  \A v \in Resolver :
    /\ WF_rotationVars(\E r \in Rotation : Resolve(v, r))
    /\ WF_rotationVars(ScriptStep(v))
    /\ SF_rotationVars(Cancel(v)) /\ SF_rotationVars(Observe(v)) /\ SF_rotationVars(Record(v))

-----------------------------------------------------------------------------
(* Properties.                                                             *)

\* The outcome row and the script's answer say what was decided, and a rotation that
\* is not decided `applied' has never changed the account, however late its writer
\* ran: "a fenced intent cannot apply".
OutcomesAreDecisions ==
  \A r \in Rotation :
    /\ outcome[r] # None => outcome[r] = decision[r]
    /\ job[r].at = "done" => job[r].saw = decision[r]
    /\ user.hash = r => decision[r] = "applied" /\ user.epoch = intent[r]

\* Every decision `applied' raised the generation by one: no rotation is lost under
\* another.
GenerationsCount == user.epoch = Cardinality({r \in Rotation : decision[r] = "applied"})

\* "two operator runs cannot both pass the check": at most one intent is open.
OneOpenIntent == Cardinality(OpenIntents) <= 1

RotationInv == RotationTypeOK /\ OneOpenIntent /\ GenerationsCount /\ OutcomesAreDecisions

DecisionStands(r) ==
  /\ decision[r] # None => decision'[r] = decision[r]
  /\ outcome[r] # None => outcome'[r] = outcome[r]

\* "exactly one immutable Neo4j node": a decision is made once, and so is an outcome.
DecidedOnce == [][\A r \in Rotation : DecisionStands(r)]_rotationVars

Account == INSTANCE AtomicRotation WITH
  asked      <- {r \in Rotation : intent[r] # 0},
  verdict    <- decision,
  told       <- outcome,
  password   <- user.hash,
  generation <- user.epoch

\* With its two stores, its late statements and whoever reconciles, the rotation of one
\* user is an atomic one: "a fenced intent cannot apply", an applied one is no other's.
ImplementsAtomicRotation == Account!Spec

\* An intent that was left open is resolved in the end.
IntentsResolve == \A r \in Rotation : r \in OpenIntents ~> r \notin OpenIntents
=============================================================================
