-------------------------- MODULE CredentialProofs --------------------------
(***************************************************************************)
(* Rotations and credentials, for any number of operators, reconciliations,*)
(* logins, scans, requests and keys.                                       *)
(*                                                                         *)
(* The strengthening of the rotation's promises says what each script      *)
(* knows: from the intent on, a rotation aims one above the generation it  *)
(* read; its decision is `applied' exactly when its transaction committed; *)
(* and who is about to record has seen the decision.  That of the          *)
(* credentials' says what each pending comparison, issued token and        *)
(* written password stands for.                                            *)
(***************************************************************************)
EXTENDS Credentials, TLAPS, FiniteSetTheorems

JobKnows(p) ==
  /\ p \in Rotation => job[p].on = p
  /\ job[p].at # "new" => job[p].on \in Rotation
  /\ job[p].at = "fence" => job[p].saw \in Reason
  /\ job[p].at \in {"record", "done"} => job[p].saw # None /\ job[p].saw = decision[job[p].on]

RotationIs(r) ==
  /\ apply[r] # "unsent" => job[r].at \notin {"new", "prepared", "intended", "refused"}
  /\ decision[r] = "applied" <=> apply[r] = "applied"
  /\ job[r].at \notin {"new", "prepared", "refused"} => intent[r] = basis[r] + 1
  /\ outcome[r] # None => outcome[r] = decision[r]
  /\ user.hash = r => decision[r] = "applied" /\ user.epoch = intent[r]

Applied == {r \in Rotation : decision[r] = "applied"}

Counted ==
  /\ IsFiniteSet(Applied) /\ user.epoch = Cardinality(Applied)
  /\ IsFiniteSet(OpenIntents) /\ Cardinality(OpenIntents) <= 1

ScriptsKnow == \A p \in Script : JobKnows(p)

RotationsAre == \A r \in Rotation : RotationIs(r)

RotationIInv == RotationTypeOK /\ ScriptsKnow /\ RotationsAre /\ Counted

-----------------------------------------------------------------------------
(* Steps of one script.                                                    *)

JobAt == {"new", "prepared", "intended", "applying", "look", "fence", "observe", "record",
          "refused", "pending", "done", "dead"}

OthersStay(p) == \A q \in Script : q # p => job'[q] = job[q]

\* A script that moves on keeps its intent and what it saw.
LEMMA GoesTo ==
  ASSUME job \in [Script -> Job], NEW p \in Script, NEW from, NEW to \in JobAt, Goes(p, from, to)
  PROVE  /\ job' \in [Script -> Job] /\ OthersStay(p)
         /\ job[p].at = from /\ job'[p].at = to
         /\ job'[p].on = job[p].on /\ job'[p].saw = job[p].saw
<1>1. job[p] \in Job
  OBVIOUS
<1> QED BY <1>1 DEF Goes, Job, JobAt, OthersStay

\* A script that learns something keeps its intent.
LEMMA LearnsOf ==
  ASSUME job \in [Script -> Job], NEW p \in Script, NEW from, NEW to \in JobAt,
         NEW v \in Verdict \cup {None}, Learns(p, from, to, v)
  PROVE  /\ job' \in [Script -> Job] /\ OthersStay(p)
         /\ job[p].at = from /\ job'[p].at = to
         /\ job'[p].on = job[p].on /\ job'[p].saw = v
<1>1. job[p] \in Job
  OBVIOUS
<1> QED BY <1>1 DEF Learns, Job, JobAt, OthersStay

\* So does one that is given a place by EXCEPT alone.
LEMMA AtIs ==
  ASSUME job \in [Script -> Job], NEW p \in Script, NEW to \in JobAt,
         job' = [job EXCEPT ![p].at = to]
  PROVE  /\ job' \in [Script -> Job] /\ OthersStay(p) /\ job'[p].at = to
         /\ job'[p].on = job[p].on /\ job'[p].saw = job[p].saw
<1>1. job[p] \in Job
  OBVIOUS
<1> QED BY <1>1 DEF Job, JobAt, OthersStay

\* A cancellation decides what nobody has decided, and only that.
LEMMA CancelDecides ==
  ASSUME decision \in [Rotation -> Verdict \cup {None}], NEW r \in Rotation, NEW v \in Reason,
         decision' = Cancelled(r, v)
  PROVE  /\ decision' \in [Rotation -> Verdict \cup {None}]
         /\ \A s \in Rotation : decision[s] # None => decision'[s] = decision[s]
         /\ \A s \in Rotation : decision'[s] = "applied" <=> decision[s] = "applied"
<1>1. "applied" \notin Reason /\ None \notin Reason /\ None # "applied"
  BY RotationAssumption DEF Reason
<1> QED BY <1>1 DEF Cancelled, Undecided, Verdict

-----------------------------------------------------------------------------
(* What every step keeps.                                                  *)

DecisionsStay == \A r \in Rotation : decision[r] # None => decision'[r] = decision[r]
OutcomesStay  == \A r \in Rotation : outcome[r] # None => outcome'[r] = outcome[r]

\* Half of "exactly one immutable Neo4j node": no step replaces a decision.
LEMMA DecisionsAreKept ==
  ASSUME RotationIInv, RotationStep
  PROVE  DecisionsStay
<1> USE DEF RotationIInv
<1>1. \A r \in Rotation : LandApply(r) => DecisionsStay
  BY DEF LandApply, Undecided, DecisionsStay, RotationTypeOK
<1>2. ASSUME NEW p \in Script, Cancel(p) PROVE DecisionsStay
  <2>1. job[p].at = "fence"
    BY <1>2 DEF Cancel, Goes
  <2>2. job[p].on \in Rotation /\ job[p].saw \in Reason
    BY <2>1 DEF ScriptsKnow, JobKnows
  <2> QED BY <1>2, <2>2, CancelDecides DEF Cancel, DecisionsStay, RotationTypeOK
<1>3. ASSUME NEW r \in Rotation, NEW v \in Reason, LandCancel(r, v) PROVE DecisionsStay
  BY <1>3, CancelDecides DEF LandCancel, DecisionsStay, RotationTypeOK
<1>4. CASE UNCHANGED decision
  BY <1>4 DEF DecisionsStay
<1> QED
  BY <1>1, <1>2, <1>3, <1>4
  DEF RotationStep, Prepare, CommitIntent, Refuse, SendApply, ApplyFails, Hear, Die, Resolve,
      ScriptStep, CancelUnheard, Observe, CannotObserve, Record, CannotRecord

\* The other half: a recorded outcome stands.
LEMMA OutcomesAreKept ==
  ASSUME RotationIInv, RotationStep
  PROVE  OutcomesStay
<1>1. ASSUME NEW p \in Script, Record(p) PROVE OutcomesStay
  <2>1. outcome' = [outcome EXCEPT ![job[p].on] = IF outcome[job[p].on] = None THEN job[p].saw
                                                   ELSE outcome[job[p].on]]
    BY <1>1 DEF Record
  <2> QED BY <2>1 DEF OutcomesStay, RotationIInv, RotationTypeOK
<1>2. CASE UNCHANGED outcome
  BY <1>2 DEF OutcomesStay
<1> QED
  BY <1>1, <1>2
  DEF RotationStep, Prepare, CommitIntent, Refuse, SendApply, LandApply, ApplyFails, Hear, Die,
      LandCancel, Resolve, ScriptStep, Cancel, CancelUnheard, Observe, CannotObserve, CannotRecord

\* A script's knowledge is of what is decided for good: the other scripts keep theirs.
LEMMA OthersKnow ==
  ASSUME ScriptsKnow, DecisionsStay, NEW p \in Script, OthersStay(p), JobKnows(p)'
  PROVE  ScriptsKnow'
<1> SUFFICES ASSUME NEW q \in Script, q # p PROVE JobKnows(q)'
  BY DEF ScriptsKnow
<1>1. job'[q] = job[q] /\ JobKnows(q)
  BY DEF OthersStay, ScriptsKnow
<1>2. job[q].at \in {"record", "done"} => decision'[job[q].on] = decision[job[q].on]
  BY <1>1 DEF JobKnows, DecisionsStay
<1> QED BY <1>1, <1>2 DEF JobKnows

\* So does everybody in a step that leaves the scripts alone.
LEMMA AllKnow ==
  ASSUME ScriptsKnow, DecisionsStay, UNCHANGED job
  PROVE  ScriptsKnow'
<1> SUFFICES ASSUME NEW q \in Script PROVE JobKnows(q)'
  BY DEF ScriptsKnow
<1>1. JobKnows(q)
  BY DEF ScriptsKnow
<1>2. job[q].at \in {"record", "done"} => decision'[job[q].on] = decision[job[q].on]
  BY <1>1 DEF JobKnows, DecisionsStay
<1> QED BY <1>1, <1>2 DEF JobKnows

-----------------------------------------------------------------------------
(* The strengthening is inductive.                                         *)

LEMMA RotationsBegin == RotationInit => RotationIInv
<1> SUFFICES ASSUME RotationInit PROVE RotationIInv
  OBVIOUS
<1>1. RotationTypeOK
  <2>1. user \in User
    BY DEF RotationInit, User, Password
  <2>2. job \in [Script -> Job]
    BY DEF RotationInit, Job, Script
  <2> QED BY <2>1, <2>2 DEF RotationInit, RotationTypeOK, KeyRow
<1>2. ScriptsKnow
  BY RotationAssumption DEF RotationInit, ScriptsKnow, JobKnows, Script
<1>3. RotationsAre
  BY RotationAssumption DEF RotationInit, RotationsAre, RotationIs, Script
<1>4. Counted
  <2>1. Applied = {} /\ OpenIntents = {}
    BY RotationAssumption DEF RotationInit, Applied, OpenIntents
  <2>2. user.epoch = 0
    BY DEF RotationInit
  <2> QED BY <2>1, <2>2, FS_EmptySet DEF Counted
<1> QED BY <1>1, <1>2, <1>3, <1>4 DEF RotationIInv

LEMMA RotationTypes ==
  ASSUME RotationIInv, RotationStep
  PROVE  RotationTypeOK'
<1> USE DEF RotationIInv
<1>t. RotationTypeOK
  OBVIOUS
<1>1. ASSUME NEW r \in Rotation,
             Prepare(r) \/ CommitIntent(r) \/ Refuse(r) \/ SendApply(r) \/ LandApply(r)
               \/ ApplyFails(r) \/ Hear(r) \/ Die(r)
      PROVE  RotationTypeOK'
  <2>0. r \in Script /\ job[r] \in Job /\ user.epoch \in Nat
    BY <1>t DEF RotationTypeOK, Script, User
  <2>1. CASE Prepare(r)
    <3>1. job' \in [Script -> Job]
      BY <1>t, <2>0, <2>1, GoesTo DEF Prepare, JobAt, RotationTypeOK
    <3> QED BY <1>t, <2>0, <2>1, <3>1 DEF Prepare, RotationTypeOK
  <2>2. CASE CommitIntent(r)
    <3>1. job' \in [Script -> Job]
      BY <1>t, <2>0, <2>2, GoesTo DEF CommitIntent, JobAt, RotationTypeOK
    <3> QED BY <1>t, <2>2, <3>1 DEF CommitIntent, RotationTypeOK
  <2>3. CASE Refuse(r)
    <3>1. job' \in [Script -> Job]
      BY <1>t, <2>0, <2>3, AtIs DEF Refuse, JobAt, RotationTypeOK
    <3> QED BY <1>t, <2>3, <3>1 DEF Refuse, RotationTypeOK
  <2>4. CASE SendApply(r)
    <3>1. job' \in [Script -> Job]
      BY <1>t, <2>0, <2>4, GoesTo DEF SendApply, JobAt, RotationTypeOK
    <3> QED BY <1>t, <2>4, <3>1 DEF SendApply, RotationTypeOK
  <2>5. CASE LandApply(r)
    <3>1. user' \in User
      <4>1. user \in User /\ r \in Password /\ basis[r] + 1 \in Nat
        BY <1>t DEF RotationTypeOK, Password
      <4>2. user' = [user EXCEPT !.hash = r, !.marked = FALSE, !.epoch = basis[r] + 1]
        BY <2>5 DEF LandApply
      <4> QED BY <4>1, <4>2 DEF User
    <3>2. decision' \in [Rotation -> Verdict \cup {None}]
      BY <1>t, <2>5 DEF LandApply, RotationTypeOK, Verdict
    <3> QED BY <1>t, <2>5, <3>1, <3>2 DEF LandApply, RotationTypeOK
  <2>6. CASE ApplyFails(r)
    BY <1>t, <2>6 DEF ApplyFails, RotationTypeOK
  <2>7. CASE Hear(r)
    <3>1. "applied" \in Verdict /\ "fenced" \in Verdict /\ "guard_failed" \in Verdict
      BY DEF Verdict, Reason
    <3>2. job' \in [Script -> Job]
      BY <1>t, <2>0, <2>7, <3>1, LearnsOf DEF Hear, JobAt, RotationTypeOK
    <3> QED BY <1>t, <2>7, <3>2 DEF Hear, RotationTypeOK
  <2>8. CASE Die(r)
    <3>1. job' \in [Script -> Job]
      BY <1>t, <2>0, <2>8, AtIs DEF Die, JobAt, RotationTypeOK
    <3> QED BY <1>t, <2>8, <3>1 DEF Die, RotationTypeOK
  <2> QED BY <1>1, <2>1, <2>2, <2>3, <2>4, <2>5, <2>6, <2>7, <2>8
<1>2. ASSUME NEW r \in Rotation, NEW v \in Reason, LandCancel(r, v) PROVE RotationTypeOK'
  <2>1. decision' \in [Rotation -> Verdict \cup {None}]
    BY <1>t, <1>2, CancelDecides DEF LandCancel, RotationTypeOK
  <2> QED BY <1>t, <1>2, <2>1 DEF LandCancel, RotationTypeOK
<1>3. ASSUME NEW r \in Rotation, NEW v \in Resolver, Resolve(v, r) PROVE RotationTypeOK'
  <2>1. [at |-> "look", on |-> r, saw |-> None] \in Job
    BY DEF Job
  <2>2. job' \in [Script -> Job]
    BY <1>t, <1>3, <2>1 DEF Resolve, RotationTypeOK
  <2> QED BY <1>t, <1>3, <2>2 DEF Resolve, RotationTypeOK
<1>4. ASSUME NEW p \in Script, ScriptStep(p) PROVE RotationTypeOK'
  <2>0. /\ job[p] \in Job /\ job[p].saw \in Verdict \cup {None} /\ "fenced" \in Verdict
        /\ job[p].at = "fence" => job[p].on \in Rotation /\ job[p].saw \in Reason
        /\ job[p].at = "record" => job[p].on \in Rotation
    BY <1>t DEF RotationTypeOK, Job, Verdict, Reason, ScriptsKnow, JobKnows
  <2>1. CASE Cancel(p)
    <3>1. job' \in [Script -> Job] /\ job[p].at = "fence"
      BY <1>t, <2>1, GoesTo DEF Cancel, JobAt, RotationTypeOK
    <3>2. decision' \in [Rotation -> Verdict \cup {None}]
      BY <1>t, <2>0, <2>1, <3>1, CancelDecides DEF Cancel, RotationTypeOK
    <3> QED BY <1>t, <2>1, <3>1, <3>2 DEF Cancel, RotationTypeOK
  <2>2. CASE CancelUnheard(p)
    <3>1. job' \in [Script -> Job] /\ job[p].at = "fence"
      BY <1>t, <2>2, GoesTo DEF CancelUnheard, JobAt, RotationTypeOK
    <3> QED BY <1>t, <2>0, <2>2, <3>1 DEF CancelUnheard, RotationTypeOK
  <2>3. CASE Observe(p)
    <3>1. job[p].on \in Rotation /\ job[p].at \in JobAt
      BY <1>t, <2>3 DEF Observe, ScriptsKnow, JobKnows, JobAt, RotationTypeOK, Job
    <3>2. decision[job[p].on] \in Verdict \cup {None} /\ job \in [Script -> Job]
      BY <1>t, <3>1 DEF RotationTypeOK
    <3>3. \/ Learns(p, job[p].at, "record", decision[job[p].on])
          \/ Learns(p, "look", "fence", "fenced")
          \/ Goes(p, "observe", "pending")
      BY <2>3 DEF Observe
    <3>4. CASE Learns(p, job[p].at, "record", decision[job[p].on])
      <4> DEFINE d == decision[job[p].on]
      <4>1. d \in Verdict \cup {None} /\ Learns(p, job[p].at, "record", d)
        BY <3>2, <3>4
      <4> HIDE DEF d
      <4>2. job' \in [Script -> Job]
        BY <3>2, <4>1, LearnsOf DEF JobAt
      <4> QED BY <1>t, <2>3, <4>2 DEF Observe, RotationTypeOK
    <3>5. CASE Learns(p, "look", "fence", "fenced") \/ Goes(p, "observe", "pending")
      <4>1. job' \in [Script -> Job]
        BY <2>0, <3>2, <3>5, LearnsOf, GoesTo DEF JobAt
      <4> QED BY <1>t, <2>3, <4>1 DEF Observe, RotationTypeOK
    <3> QED BY <3>3, <3>4, <3>5
  <2>4. CASE CannotObserve(p)
    <3>1. job' \in [Script -> Job]
      BY <1>t, <2>0, <2>4, GoesTo, LearnsOf DEF CannotObserve, JobAt, RotationTypeOK
    <3> QED BY <1>t, <2>4, <3>1 DEF CannotObserve, RotationTypeOK
  <2>5. CASE Record(p)
    <3> DEFINE r == job[p].on
               v == IF outcome[r] = None THEN job[p].saw ELSE outcome[r]
    <3>1. r \in Rotation /\ v \in Verdict \cup {None}
      BY <1>t, <2>0, <2>5 DEF Record, RotationTypeOK
    <3>2. (Learns(p, "record", "done", v) \/ Goes(p, "record", "pending"))
          /\ outcome' = [outcome EXCEPT ![r] = v]
      BY <2>5 DEF Record
    <3>3. keys' \in [Key -> KeyRow]
      <4>1. \A k \in Key : keys[k] \in KeyRow /\ [keys[k] EXCEPT !.state = "revoked"] \in KeyRow
        BY <1>t DEF RotationTypeOK, KeyRow
      <4>2. \/ keys' = keys
            \/ keys' = [k \in Key |-> IF Revoked(k, r) THEN [keys[k] EXCEPT !.state = "revoked"]
                                                       ELSE keys[k]]
        BY <2>5 DEF Record
      <4> QED BY <1>t, <4>1, <4>2 DEF RotationTypeOK
    <3> HIDE DEF r, v
    <3>4. job' \in [Script -> Job]
      BY <1>t, <3>1, <3>2, GoesTo, LearnsOf DEF JobAt, RotationTypeOK
    <3>5. outcome' \in [Rotation -> Verdict \cup {None}]
      BY <1>t, <3>1, <3>2 DEF RotationTypeOK
    <3>6. UNCHANGED <<user, intent, decision, basis, apply, cancels>>
      BY <2>5 DEF Record
    <3> QED BY <1>t, <3>3, <3>4, <3>5, <3>6 DEF RotationTypeOK
  <2>6. CASE CannotRecord(p)
    <3>1. job' \in [Script -> Job]
      BY <1>t, <2>6, GoesTo DEF CannotRecord, JobAt, RotationTypeOK
    <3> QED BY <1>t, <2>6, <3>1 DEF CannotRecord, RotationTypeOK
  <2> QED BY <1>4, <2>1, <2>2, <2>3, <2>4, <2>5, <2>6 DEF ScriptStep
<1> QED BY <1>1, <1>2, <1>3, <1>4 DEF RotationStep

LEMMA ScriptsGoOnKnowing ==
  ASSUME RotationIInv, RotationStep
  PROVE  ScriptsKnow'
<1>t. RotationTypeOK /\ ScriptsKnow /\ RotationsAre /\ DecisionsStay /\ job \in [Script -> Job]
  BY DecisionsAreKept DEF RotationIInv, RotationTypeOK
<1>n. None \notin Rotation /\ None \notin Verdict /\ Rotation \cap Resolver = {}
  BY RotationAssumption DEF Verdict, Reason
<1>1. ASSUME NEW r \in Rotation,
             Prepare(r) \/ CommitIntent(r) \/ Refuse(r) \/ SendApply(r) \/ LandApply(r)
               \/ ApplyFails(r) \/ Hear(r) \/ Die(r)
      PROVE  ScriptsKnow'
  <2>0. r \in Script /\ JobKnows(r) /\ job[r].on = r
    BY <1>t DEF Script, ScriptsKnow, JobKnows
  <2>1. CASE Prepare(r) \/ CommitIntent(r) \/ SendApply(r)
    <3>1. \E from \in JobAt : \E to \in {"prepared", "intended", "applying"} : Goes(r, from, to)
      BY <2>1 DEF Prepare, CommitIntent, SendApply, JobAt
    <3>2. OthersStay(r) /\ job'[r].at \in {"prepared", "intended", "applying"}
          /\ job'[r].on = job[r].on
      BY <1>t, <2>0, <3>1, GoesTo DEF JobAt
    <3> QED BY <1>t, <2>0, <3>2, OthersKnow DEF JobKnows
  <2>2. CASE Refuse(r) \/ Die(r)
    <3>1. OthersStay(r) /\ job'[r].at \in {"refused", "dead"} /\ job'[r].on = job[r].on
      BY <1>t, <2>0, <2>2, AtIs DEF Refuse, Die, JobAt
    <3> QED BY <1>t, <2>0, <3>1, OthersKnow DEF JobKnows
  <2>3. CASE LandApply(r) \/ ApplyFails(r)
    BY <1>t, <2>3, AllKnow DEF LandApply, ApplyFails
  <2>4. CASE Hear(r)
    <3>1. \/ decision[r] = "applied" /\ Learns(r, "applying", "record", "applied")
          \/ Learns(r, "applying", "fence", "guard_failed")
          \/ Learns(r, "applying", "fence", "fenced")
      BY <1>t, <2>4 DEF Hear, RotationsAre, RotationIs
    <3>2. /\ OthersStay(r) /\ job'[r].on = r
          /\ \/ job'[r].at = "fence" /\ job'[r].saw \in Reason
             \/ job'[r].at = "record" /\ job'[r].saw = "applied" /\ decision[r] = "applied"
      BY <1>t, <2>0, <3>1, LearnsOf DEF JobAt, Verdict, Reason
    <3>3. decision' = decision
      BY <2>4 DEF Hear
    <3> QED BY <1>t, <1>n, <2>0, <3>2, <3>3, OthersKnow DEF JobKnows, Verdict
  <2> QED BY <1>1, <2>1, <2>2, <2>3, <2>4
<1>2. ASSUME NEW r \in Rotation, NEW v \in Reason, LandCancel(r, v) PROVE ScriptsKnow'
  BY <1>t, <1>2, AllKnow DEF LandCancel
<1>3. ASSUME NEW r \in Rotation, NEW v \in Resolver, Resolve(v, r) PROVE ScriptsKnow'
  <2>1. v \in Script /\ v \notin Rotation /\ OthersStay(v)
        /\ job'[v] = [at |-> "look", on |-> r, saw |-> None]
    BY <1>t, <1>n, <1>3 DEF Resolve, Script, OthersStay
  <2> QED BY <1>t, <2>1, OthersKnow DEF JobKnows
<1>4. ASSUME NEW p \in Script, ScriptStep(p) PROVE ScriptsKnow'
  <2>0. JobKnows(p) /\ (p \in Rotation => job[p].on = p)
    BY <1>t DEF ScriptsKnow, JobKnows
  <2>1. CASE Cancel(p) \/ CancelUnheard(p)
    <3>1. Goes(p, "fence", "observe")
      BY <2>1 DEF Cancel, CancelUnheard
    <3>2. OthersStay(p) /\ job[p].at = "fence" /\ job'[p].at = "observe" /\ job'[p].on = job[p].on
      BY <1>t, <3>1, GoesTo DEF JobAt
    <3> QED BY <1>t, <2>0, <3>2, OthersKnow DEF JobKnows
  <2>2. CASE Observe(p)
    <3> DEFINE d == decision[job[p].on]
    <3>1. job[p].on \in Rotation /\ d \in Verdict \cup {None} /\ decision' = decision
      BY <1>t, <2>0, <2>2 DEF Observe, JobKnows, RotationTypeOK
    <3>2. \/ d # None /\ Learns(p, job[p].at, "record", d)
          \/ Learns(p, "look", "fence", "fenced")
          \/ Goes(p, "observe", "pending")
      BY <2>2 DEF Observe
    <3>3. (decision[job[p].on])' = d \/ job'[p].on # job[p].on
      BY <3>1
    <3>4. d = decision[job[p].on]
      OBVIOUS
    <3> HIDE DEF d
    <3>5. OthersStay(p) /\ job'[p].on = job[p].on
          /\ \/ job'[p].at = "record" /\ job'[p].saw = d /\ d # None
             \/ job'[p].at = "fence" /\ job'[p].saw \in Reason
             \/ job'[p].at = "pending"
      BY <1>t, <3>1, <3>2, LearnsOf, GoesTo DEF JobAt, Verdict, Reason
    <3>6. job'[p].at = "record" => job'[p].saw = decision'[job'[p].on] /\ job'[p].saw # None
      BY <3>1, <3>4, <3>5
    <3>7. JobKnows(p)'
      BY <2>0, <3>1, <3>5, <3>6 DEF JobKnows
    <3> QED BY <1>t, <3>5, <3>7, OthersKnow
  <2>3. CASE CannotObserve(p)
    <3>1. Learns(p, "look", "fence", "fenced") \/ Goes(p, "observe", "pending")
      BY <2>3 DEF CannotObserve
    <3>2. OthersStay(p) /\ job'[p].on = job[p].on /\ job[p].at # "new"
          /\ \/ job'[p].at = "fence" /\ job'[p].saw \in Reason
             \/ job'[p].at = "pending"
      BY <1>t, <3>1, LearnsOf, GoesTo DEF JobAt, Verdict, Reason
    <3> QED BY <1>t, <2>0, <3>2, OthersKnow DEF JobKnows
  <2>4. CASE Record(p)
    <3> DEFINE r == job[p].on
               v == IF outcome[r] = None THEN job[p].saw ELSE outcome[r]
    <3>1. r \in Rotation /\ v = decision[r] /\ v # None /\ decision' = decision
      BY <1>t, <2>0, <2>4 DEF Record, JobKnows, RotationsAre, RotationIs
    <3>2. Learns(p, "record", "done", v) \/ Goes(p, "record", "pending")
      BY <2>4 DEF Record
    <3>3. r = job[p].on /\ v \in Verdict \cup {None}
      BY <1>t, <3>1 DEF RotationTypeOK
    <3> HIDE DEF r, v
    <3>4. OthersStay(p) /\ job'[p].on = job[p].on
          /\ \/ job'[p].at = "done" /\ job'[p].saw = v
             \/ job'[p].at = "pending"
      <4>1. ASSUME Learns(p, "record", "done", v)
            PROVE  OthersStay(p) /\ job'[p].on = job[p].on /\ job'[p].at = "done" /\ job'[p].saw = v
        <5>1. job \in [Script -> Job] /\ v \in Verdict \cup {None} /\ "done" \in JobAt
          BY <1>t, <3>3 DEF JobAt
        <5> QED BY <4>1, <5>1, LearnsOf
      <4>2. ASSUME Goes(p, "record", "pending")
            PROVE  OthersStay(p) /\ job'[p].on = job[p].on /\ job'[p].at = "pending"
        BY <1>t, <4>2, GoesTo DEF JobAt
      <4> QED BY <3>2, <4>1, <4>2
    <3>5. JobKnows(p)'
      BY <2>0, <3>1, <3>3, <3>4 DEF JobKnows
    <3> QED BY <1>t, <3>4, <3>5, OthersKnow
  <2>5. CASE CannotRecord(p)
    <3>1. OthersStay(p) /\ job[p].at = "record" /\ job'[p].at = "pending" /\ job'[p].on = job[p].on
      BY <1>t, <2>5, GoesTo DEF CannotRecord, JobAt
    <3> QED BY <1>t, <2>0, <3>1, OthersKnow DEF JobKnows
  <2> QED BY <1>4, <2>1, <2>2, <2>3, <2>4, <2>5 DEF ScriptStep
<1> QED BY <1>1, <1>2, <1>3, <1>4 DEF RotationStep

Early == {"new", "prepared", "intended", "refused"}

\* A step that neither sends nor lands r's transaction nor moves its intent.
LEMMA RotationStays ==
  ASSUME NEW r \in Rotation, RotationIs(r),
         apply'[r] = apply[r], intent'[r] = intent[r], basis'[r] = basis[r],
         decision'[r] = "applied" <=> decision[r] = "applied",
         outcome'[r] # None => outcome'[r] = decision'[r],
         \/ job'[r].at = job[r].at
         \/ job[r].at \notin Early \ {"intended"} /\ job'[r].at \notin Early,
         user'.hash = r => user.hash = r /\ user'.epoch = user.epoch
  PROVE  RotationIs(r)'
BY DEF RotationIs, Early

\* What a script's own steps do to its place.
LEMMA ScriptsAreLate ==
  ASSUME job \in [Script -> Job], NEW p \in Script, ScriptStep(p), ScriptsKnow
  PROVE  OthersStay(p) /\ job[p].at \notin Early /\ job'[p].at \notin Early
<1>1. job[p] \in Job /\ (job[p].at # "new" => job[p].on \in Rotation)
  BY DEF ScriptsKnow, JobKnows
<1>2. \A to \in JobAt : job' = [job EXCEPT ![p].at = to] => OthersStay(p) /\ job'[p].at = to
  BY AtIs
<1>3. ASSUME NEW v, NEW to \in JobAt, job' = [job EXCEPT ![p].at = to, ![p].saw = v]
      PROVE  OthersStay(p) /\ job'[p].at = to
  BY <1>1, <1>3 DEF OthersStay, Job
<1> QED BY <1>2, <1>3
        DEF ScriptStep, Cancel, CancelUnheard, Observe, CannotObserve, Record, CannotRecord,
            Goes, Learns, Early, JobAt

LEMMA RotationsGoOn ==
  ASSUME RotationIInv, RotationStep
  PROVE  RotationsAre'
<1>t. /\ RotationTypeOK /\ ScriptsKnow /\ RotationsAre /\ DecisionsStay
      /\ job \in [Script -> Job] /\ Rotation \subseteq Script
  BY DecisionsAreKept DEF RotationIInv, RotationTypeOK, Script
<1>n. None # "applied" /\ Rotation \cap Resolver = {}
  BY RotationAssumption
<1> SUFFICES ASSUME NEW s \in Rotation PROVE RotationIs(s)'
  BY DEF RotationsAre
<1>s. RotationIs(s) /\ JobKnows(s) /\ s \in Script
  BY <1>t DEF RotationsAre, ScriptsKnow
<1>d. outcome[s] # None => outcome[s] = decision'[s]
  BY <1>t, <1>s DEF RotationIs, DecisionsStay
<1>1. ASSUME NEW r \in Rotation, Prepare(r) PROVE RotationIs(s)'
  <2>1. OthersStay(r) /\ job[r].at = "new" /\ job'[r].at = "prepared"
    BY <1>t, <1>1, GoesTo DEF Prepare, JobAt
  <2>2. \A q \in Rotation : q # r => basis'[q] = basis[q]
    BY <1>t, <1>1 DEF Prepare, RotationTypeOK
  <2>3. UNCHANGED <<user, keys, intent, decision, outcome, apply, cancels>>
    BY <1>1 DEF Prepare
  <2> QED BY <1>s, <2>1, <2>2, <2>3 DEF RotationIs, OthersStay
<1>2. ASSUME NEW r \in Rotation, CommitIntent(r) PROVE RotationIs(s)'
  <2>1. OthersStay(r) /\ job[r].at = "prepared" /\ job'[r].at = "intended"
    BY <1>t, <1>2, GoesTo DEF CommitIntent, JobAt
  <2>2. intent'[r] = basis[r] + 1 /\ \A q \in Rotation : q # r => intent'[q] = intent[q]
    BY <1>t, <1>2 DEF CommitIntent, RotationTypeOK
  <2>3. UNCHANGED <<user, keys, decision, outcome, basis, apply, cancels>>
    BY <1>2 DEF CommitIntent
  <2> QED BY <1>s, <2>1, <2>2, <2>3 DEF RotationIs, OthersStay
<1>3. ASSUME NEW r \in Rotation, Refuse(r) PROVE RotationIs(s)'
  <2>1. OthersStay(r) /\ job[r].at \in {"new", "prepared"} /\ job'[r].at = "refused"
    BY <1>t, <1>3, AtIs DEF Refuse, JobAt
  <2>2. UNCHANGED <<user, keys, intent, decision, outcome, basis, apply, cancels>>
    BY <1>3 DEF Refuse
  <2> QED BY <1>s, <2>1, <2>2 DEF RotationIs, OthersStay
<1>4. ASSUME NEW r \in Rotation, SendApply(r) PROVE RotationIs(s)'
  <2>1. OthersStay(r) /\ job[r].at = "intended" /\ job'[r].at = "applying"
    BY <1>t, <1>4, GoesTo DEF SendApply, JobAt
  <2>2. apply'[r] = "sent" /\ \A q \in Rotation : q # r => apply'[q] = apply[q]
    BY <1>t, <1>4 DEF SendApply, RotationTypeOK
  <2>3. UNCHANGED <<user, keys, intent, decision, outcome, basis, cancels>>
    BY <1>4 DEF SendApply
  <2> QED BY <1>s, <2>1, <2>2, <2>3 DEF RotationIs, OthersStay
<1>5. ASSUME NEW r \in Rotation, LandApply(r) PROVE RotationIs(s)'
  <2>1. /\ apply[r] = "sent" /\ decision[r] = None /\ user.epoch = basis[r]
        /\ apply'[r] = "applied" /\ decision'[r] = "applied"
        /\ \A q \in Rotation : q # r => apply'[q] = apply[q] /\ decision'[q] = decision[q]
    BY <1>t, <1>5 DEF LandApply, ApplyGuard, Undecided, RotationTypeOK
  <2>2. user'.hash = r /\ user'.epoch = basis[r] + 1
    <3>1. user \in User
      BY <1>t DEF RotationTypeOK
    <3>2. user' = [user EXCEPT !.hash = r, !.marked = FALSE, !.epoch = basis[r] + 1]
      BY <1>5 DEF LandApply
    <3> QED BY <3>1, <3>2 DEF User
  <2>3. UNCHANGED <<keys, intent, outcome, basis, cancels, job>>
    BY <1>5 DEF LandApply
  <2> QED BY <1>s, <1>d, <1>n, <2>1, <2>2, <2>3 DEF RotationIs
<1>6. ASSUME NEW r \in Rotation, ApplyFails(r) PROVE RotationIs(s)'
  <2>1. /\ apply[r] = "sent" /\ apply'[r] \in {"empty", "failed"}
        /\ \A q \in Rotation : q # r => apply'[q] = apply[q]
    BY <1>t, <1>6 DEF ApplyFails, RotationTypeOK
  <2>2. UNCHANGED <<user, keys, intent, decision, outcome, basis, cancels, job>>
    BY <1>6 DEF ApplyFails
  <2> QED BY <1>s, <2>1, <2>2 DEF RotationIs
<1>7. ASSUME NEW r \in Rotation, Hear(r) \/ Die(r) PROVE RotationIs(s)'
  <2>1. OthersStay(r) /\ job[r].at \notin Early \ {"intended"} /\ job'[r].at \notin Early
    <3>1. CASE Hear(r)
      BY <1>t, <3>1, LearnsOf DEF Hear, JobAt, Early, Verdict, Reason
    <3>2. CASE Die(r)
      BY <1>t, <3>2, AtIs DEF Die, JobAt, Early
    <3> QED BY <1>7, <3>1, <3>2
  <2>2. UNCHANGED <<user, keys, intent, decision, outcome, basis, apply, cancels>>
    BY <1>7 DEF Hear, Die
  <2> QED BY <1>s, <1>d, <2>1, <2>2, RotationStays DEF OthersStay
<1>8. ASSUME NEW r \in Rotation, NEW v \in Reason, LandCancel(r, v) PROVE RotationIs(s)'
  <2>1. decision'[s] = "applied" <=> decision[s] = "applied"
    BY <1>t, <1>8, CancelDecides DEF LandCancel, RotationTypeOK
  <2>2. UNCHANGED <<user, keys, intent, outcome, basis, apply, job>>
    BY <1>8 DEF LandCancel
  <2> QED BY <1>s, <1>d, <2>1, <2>2, RotationStays
<1>9. ASSUME NEW r \in Rotation, NEW v \in Resolver, Resolve(v, r) PROVE RotationIs(s)'
  <2>1. job'[s] = job[s]
    BY <1>t, <1>n, <1>9 DEF Resolve
  <2>2. UNCHANGED <<user, keys, intent, decision, outcome, basis, apply, cancels>>
    BY <1>9 DEF Resolve
  <2> QED BY <1>s, <1>d, <2>1, <2>2, RotationStays
<1>10. ASSUME NEW p \in Script, ScriptStep(p) PROVE RotationIs(s)'
  <2>1. OthersStay(p) /\ job[p].at \notin Early /\ job'[p].at \notin Early /\ JobKnows(p)
    BY <1>t, <1>10, ScriptsAreLate DEF RotationTypeOK, ScriptsKnow
  <2>2. \/ job'[s].at = job[s].at
        \/ job[s].at \notin Early \ {"intended"} /\ job'[s].at \notin Early
    BY <1>s, <2>1 DEF OthersStay
  <2>3. UNCHANGED <<user, intent, basis, apply>>
    BY <1>10 DEF ScriptStep, Cancel, CancelUnheard, Observe, CannotObserve, Record, CannotRecord
  <2>4. CASE Cancel(p)
    <3>1. job[p].at = "fence" /\ job[p].on \in Rotation /\ job[p].saw \in Reason
      BY <2>1, <2>4 DEF Cancel, Goes, JobKnows
    <3>2. decision'[s] = "applied" <=> decision[s] = "applied"
      BY <1>t, <2>4, <3>1, CancelDecides DEF Cancel, RotationTypeOK
    <3>3. outcome' = outcome
      BY <2>4 DEF Cancel
    <3> QED BY <1>s, <1>d, <2>2, <2>3, <3>2, <3>3, RotationStays
  <2>5. CASE Record(p)
    <3>1. job[p].on \in Rotation /\ job[p].saw = decision[job[p].on] /\ decision' = decision
      BY <2>1, <2>5 DEF Record, JobKnows
    <3>2. outcome'[s] = outcome[s] \/ outcome'[s] = decision[s]
      BY <1>t, <2>5, <3>1 DEF Record, RotationTypeOK
    <3> QED BY <1>s, <1>d, <2>2, <2>3, <3>1, <3>2, RotationStays
  <2>6. CASE CancelUnheard(p) \/ Observe(p) \/ CannotObserve(p) \/ CannotRecord(p)
    <3>1. UNCHANGED <<decision, outcome>>
      BY <2>6 DEF CancelUnheard, Observe, CannotObserve, CannotRecord
    <3> QED BY <1>s, <1>d, <2>2, <2>3, <3>1, RotationStays
  <2> QED BY <1>10, <2>4, <2>5, <2>6 DEF ScriptStep
<1> QED BY <1>1, <1>2, <1>3, <1>4, <1>5, <1>6, <1>7, <1>8, <1>9, <1>10 DEF RotationStep

\* Only a landing transaction raises the generation, and by the one decision it adds;
\* only an intent found alone is committed.
LEMMA CountsGoOn ==
  ASSUME RotationIInv, RotationStep
  PROVE  Counted'
<1>t. RotationTypeOK /\ ScriptsKnow /\ RotationsAre /\ DecisionsStay /\ Counted /\ OutcomesStay
      /\ user.epoch \in Nat
  BY DecisionsAreKept, OutcomesAreKept DEF RotationIInv, RotationTypeOK, User
<1>n. None # "applied"
  BY RotationAssumption
<1>a. ASSUME Applied' = Applied, user'.epoch = user.epoch, OpenIntents' \subseteq OpenIntents
      PROVE  Counted'
  <2>1. IsFiniteSet(OpenIntents') /\ Cardinality(OpenIntents') <= Cardinality(OpenIntents)
    BY <1>a, <1>t, FS_Subset DEF Counted
  <2>2. Cardinality(OpenIntents') \in Nat /\ Cardinality(OpenIntents) \in Nat
    BY <1>t, <2>1, FS_CardinalityType DEF Counted
  <2> QED BY <1>a, <1>t, <2>1, <2>2 DEF Counted
<1>o. UNCHANGED intent => OpenIntents' \subseteq OpenIntents
  BY <1>t DEF OpenIntents, OutcomesStay
<1>1. ASSUME NEW r \in Rotation, LandApply(r) PROVE Counted'
  <2>1. decision[r] = None /\ user.epoch = basis[r] /\ UNCHANGED <<intent, outcome>>
    BY <1>1 DEF LandApply, ApplyGuard, Undecided
  <2>2. Applied' = Applied \cup {r} /\ r \notin Applied
    BY <1>t, <1>n, <1>1, <2>1 DEF LandApply, Applied, RotationTypeOK
  <2>3. user'.epoch = user.epoch + 1
    <3>1. user \in User
      BY <1>t DEF RotationTypeOK
    <3>2. user' = [user EXCEPT !.hash = r, !.marked = FALSE, !.epoch = basis[r] + 1]
      BY <1>1 DEF LandApply
    <3> QED BY <2>1, <3>1, <3>2 DEF User
  <2>4. IsFiniteSet(Applied') /\ Cardinality(Applied') = Cardinality(Applied) + 1
    BY <1>t, <2>2, FS_AddElement DEF Counted
  <2>5. OpenIntents' = OpenIntents
    BY <2>1 DEF OpenIntents
  <2> QED BY <1>t, <2>3, <2>4, <2>5 DEF Counted
<1>2. ASSUME NEW r \in Rotation, CommitIntent(r) PROVE Counted'
  <2>1. OpenIntents = {} /\ UNCHANGED <<user, decision, outcome>>
    BY <1>2 DEF CommitIntent, NoneOpen
  <2>2. \A q \in Rotation : q # r => intent'[q] = intent[q]
    BY <1>t, <1>2 DEF CommitIntent, RotationTypeOK
  <2>3. OpenIntents' \subseteq {r}
    BY <2>1, <2>2 DEF OpenIntents
  <2>4. IsFiniteSet({r}) /\ Cardinality({r}) = 1
    BY FS_Singleton
  <2>5. IsFiniteSet(OpenIntents') /\ Cardinality(OpenIntents') <= 1
    BY <2>3, <2>4, FS_Subset
  <2>6. Applied' = Applied
    BY <2>1 DEF Applied
  <2> QED BY <1>t, <2>1, <2>5, <2>6 DEF Counted
<1>3. ASSUME NEW r \in Rotation, NEW v \in Reason, LandCancel(r, v) PROVE Counted'
  <2>1. \A s \in Rotation : decision'[s] = "applied" <=> decision[s] = "applied"
    BY <1>t, <1>3, CancelDecides DEF LandCancel, RotationTypeOK
  <2>2. UNCHANGED <<user, intent>>
    BY <1>3 DEF LandCancel
  <2>3. Applied' = Applied
    BY <2>1 DEF Applied
  <2> QED BY <1>a, <1>o, <2>2, <2>3
<1>4. ASSUME NEW p \in Script, Cancel(p) PROVE Counted'
  <2>1. job[p].at = "fence" /\ job[p].on \in Rotation /\ job[p].saw \in Reason
    BY <1>t, <1>4 DEF Cancel, Goes, ScriptsKnow, JobKnows
  <2>2. \A s \in Rotation : decision'[s] = "applied" <=> decision[s] = "applied"
    BY <1>t, <1>4, <2>1, CancelDecides DEF Cancel, RotationTypeOK
  <2>3. UNCHANGED <<user, intent>>
    BY <1>4 DEF Cancel
  <2>4. Applied' = Applied
    BY <2>2 DEF Applied
  <2> QED BY <1>a, <1>o, <2>3, <2>4
<1>5. CASE UNCHANGED <<user, intent, decision>>
  <2>1. Applied' = Applied
    BY <1>5 DEF Applied
  <2> QED BY <1>a, <1>o, <1>5, <2>1
<1> QED
  BY <1>1, <1>2, <1>3, <1>4, <1>5
  DEF RotationStep, Prepare, Refuse, SendApply, ApplyFails, Hear, Die, Resolve, ScriptStep,
      CancelUnheard, Observe, CannotObserve, Record, CannotRecord

-----------------------------------------------------------------------------
(* What the rotation promises.                                             *)

LEMMA RotationsAreInvariant == RotationSpec => []RotationIInv
<1>1. ASSUME RotationIInv, [RotationStep]_rotationVars PROVE RotationIInv'
  <2>1. CASE RotationStep
    BY <1>1, <2>1, RotationTypes, ScriptsGoOnKnowing, RotationsGoOn, CountsGoOn DEF RotationIInv
  <2>2. CASE UNCHANGED rotationVars
    BY <1>1, <2>2
    DEF rotationVars, RotationIInv, RotationTypeOK, ScriptsKnow, JobKnows, RotationsAre, RotationIs,
        Counted, Applied, OpenIntents
  <2> QED BY <1>1, <2>1, <2>2
<1> QED BY <1>1, RotationsBegin, PTL DEF RotationSpec

\* What is recorded and answered is what was decided, and only an applied rotation has
\* ever changed the account.
LEMMA KnownOutcomes == RotationIInv => OutcomesAreDecisions
BY DEF RotationIInv, RotationsAre, RotationIs, ScriptsKnow, JobKnows, OutcomesAreDecisions, Script

\* Two operators never both pass the check, the generation counts the rotations that were
\* applied, so that none is lost under another, and outcomes are what was decided.
THEOREM RotationIsCounted == RotationSpec => []RotationInv
<1>1. RotationIInv => RotationInv
  BY KnownOutcomes
  DEF RotationIInv, RotationInv, OneOpenIntent, Counted, GenerationsCount, Applied
<1> QED BY <1>1, RotationsAreInvariant, PTL

\* A decision is made once, and so is an outcome.
THEOREM RotationDecidesOnce == RotationSpec => DecidedOnce
<1>1. RotationIInv /\ [RotationStep]_rotationVars
        => [\A r \in Rotation : DecisionStands(r)]_rotationVars
  BY DecisionsAreKept, OutcomesAreKept DEF DecisionsStay, OutcomesStay, DecisionStands
<1> QED BY <1>1, RotationsAreInvariant, PTL DEF RotationSpec, DecidedOnce

-----------------------------------------------------------------------------
(* A rotation is atomic.                                                   *)

Unasked == {"new", "prepared", "refused"}

\* Whoever works on an intent, and whatever still may land for one, was asked to.
IntentsAre ==
  /\ \A r \in Rotation : job[r].at \in Unasked => intent[r] = 0
  /\ \A p \in Script : job[p].at \notin Unasked => intent[job[p].on] # 0
  /\ \A c \in cancels : intent[c[1]] # 0

\* A step of one script that commits no intent, and may leave a cancel behind.
LEMMA IntentsStay ==
  ASSUME IntentsAre, NEW p \in Script, OthersStay(p), job'[p].on = job[p].on,
         job[p].at \in Unasked <=> job'[p].at \in Unasked, UNCHANGED intent,
         \A c \in cancels' : c \in cancels \/ (c[1] = job[p].on /\ job[p].at \notin Unasked)
  PROVE  IntentsAre'
<1>1. \A r \in Rotation : job'[r].at \in Unasked => intent'[r] = 0
  BY DEF IntentsAre, OthersStay, Script
<1>2. \A q \in Script : job'[q].at \notin Unasked => intent'[job'[q].on] # 0
  BY DEF IntentsAre, OthersStay
<1>3. \A c \in cancels' : intent'[c[1]] # 0
  BY DEF IntentsAre
<1> QED BY <1>1, <1>2, <1>3 DEF IntentsAre

LEMMA IntentsGoOn ==
  ASSUME RotationIInv, IntentsAre, RotationStep
  PROVE  IntentsAre'
<1>t. /\ job \in [Script -> Job] /\ intent \in [Rotation -> Nat] /\ basis \in [Rotation -> Nat]
      /\ Rotation \subseteq Script /\ ScriptsKnow
      /\ \A r \in Rotation : job[r].on = r
      /\ Rotation \cap Resolver = {} /\ Resolver \subseteq Script
  BY RotationAssumption DEF RotationIInv, RotationTypeOK, ScriptsKnow, JobKnows, Script
<1>1. ASSUME NEW r \in Rotation, CommitIntent(r) PROVE IntentsAre'
  <2>1. OthersStay(r) /\ job'[r].at = "intended" /\ job'[r].on = r
    BY <1>t, <1>1, GoesTo DEF CommitIntent, JobAt
  <2>2. intent' = [intent EXCEPT ![r] = basis[r] + 1] /\ cancels' = cancels
    BY <1>1 DEF CommitIntent
  <2>3. basis[r] + 1 # 0
    BY <1>t
  <2>4. \A q \in Rotation : intent[q] # 0 => intent'[q] # 0
    BY <1>t, <2>2, <2>3
  <2>5. \A q \in Rotation : job'[q].at \in Unasked => intent'[q] = 0
    BY <1>t, <2>1, <2>2 DEF IntentsAre, OthersStay, Unasked
  <2>6. \A q \in Script : job'[q].at \notin Unasked => intent'[job'[q].on] # 0
    <3>1. intent'[r] # 0
      BY <1>t, <2>2, <2>3
    <3>2. ASSUME NEW q \in Script, q # r, job'[q].at \notin Unasked PROVE intent'[job'[q].on] # 0
      <4>1. job'[q] = job[q] /\ job[q].on \in Rotation /\ intent[job[q].on] # 0
        BY <1>t, <2>1, <3>2 DEF OthersStay, IntentsAre, ScriptsKnow, JobKnows, Unasked
      <4> QED BY <2>4, <4>1
    <3> QED BY <2>1, <3>1, <3>2
  <2>7. \A c \in cancels' : intent'[c[1]] # 0
    <3>1. ASSUME NEW c \in cancels PROVE intent'[c[1]] # 0
      <4>1. c[1] \in Rotation /\ intent[c[1]] # 0
        BY DEF RotationIInv, RotationTypeOK, IntentsAre
      <4> QED BY <2>4, <4>1
    <3> QED BY <2>2, <3>1
  <2> QED BY <2>5, <2>6, <2>7 DEF IntentsAre
<1>2. ASSUME NEW r \in Rotation, NEW v \in Resolver, Resolve(v, r) PROVE IntentsAre'
  <2>1. /\ intent[r] # 0 /\ UNCHANGED <<intent, cancels>>
        /\ job' = [job EXCEPT ![v] = [at |-> "look", on |-> r, saw |-> None]]
    BY <1>2 DEF Resolve, OpenIntents
  <2>2. OthersStay(v) /\ job'[v].on = r
    BY <1>t, <2>1 DEF OthersStay
  <2> QED BY <1>t, <2>1, <2>2 DEF IntentsAre, OthersStay
<1>3. ASSUME NEW r \in Rotation, NEW v \in Reason, LandCancel(r, v) PROVE IntentsAre'
  BY <1>3 DEF LandCancel, IntentsAre
<1>4. ASSUME NEW r \in Rotation, LandApply(r) \/ ApplyFails(r) PROVE IntentsAre'
  BY <1>4 DEF LandApply, ApplyFails, IntentsAre
<1>5. ASSUME NEW r \in Rotation, Prepare(r) \/ Refuse(r) \/ SendApply(r) \/ Hear(r) \/ Die(r)
      PROVE  IntentsAre'
  <2>1. UNCHANGED <<intent, cancels>>
    BY <1>5 DEF Prepare, Refuse, SendApply, Hear, Die
  <2>2. /\ OthersStay(r) /\ job'[r].on = job[r].on
        /\ job[r].at \in Unasked <=> job'[r].at \in Unasked
    <3>1. CASE Prepare(r) \/ SendApply(r)
      BY <1>t, <3>1, GoesTo DEF Prepare, SendApply, JobAt, Unasked
    <3>2. CASE Refuse(r) \/ Die(r)
      BY <1>t, <3>2, AtIs DEF Refuse, Die, JobAt, Unasked
    <3>3. CASE Hear(r)
      BY <1>t, <3>3, LearnsOf DEF Hear, JobAt, Unasked, Verdict, Reason
    <3> QED BY <1>5, <3>1, <3>2, <3>3
  <2> QED BY <1>t, <2>1, <2>2, IntentsStay
<1>6. ASSUME NEW p \in Script, ScriptStep(p) PROVE IntentsAre'
  <2>1. OthersStay(p) /\ job[p].at \notin Unasked /\ job'[p].at \notin Unasked
    BY <1>t, <1>6, ScriptsAreLate DEF Early, Unasked
  <2>2. job'[p].on = job[p].on
    <3>1. job[p] \in Job
      BY <1>t
    <3> QED BY <1>t, <1>6, <3>1
        DEF ScriptStep, Cancel, CancelUnheard, Observe, CannotObserve, Record, CannotRecord, Goes,
            Learns, Job
  <2>3. intent' = intent /\ (cancels' = cancels \/ cancels' = cancels \cup {<<job[p].on, job[p].saw>>})
    BY <1>6 DEF ScriptStep, Cancel, CancelUnheard, Observe, CannotObserve, Record, CannotRecord
  <2> QED BY <2>1, <2>2, <2>3, IntentsStay
<1> QED BY <1>1, <1>2, <1>3, <1>4, <1>5, <1>6 DEF RotationStep

LEMMA IntentsBegin == RotationInit => IntentsAre
BY DEF RotationInit, IntentsAre, Unasked, Script

\* At first no rotation is asked for.
LEMMA AccountBegins == RotationInit => Account!Init
<1> SUFFICES ASSUME RotationInit PROVE Account!Init
  OBVIOUS
<1>1. user.hash \in Initial /\ user.epoch = 0
  BY DEF RotationInit
<1>2. {r \in Rotation : intent[r] # 0} = {}
  BY DEF RotationInit
<1> QED BY <1>1, <1>2 DEF Account!Init, RotationInit

\* A cancel calls the rotation off, or comes too late.
LEMMA CancelCallsOff ==
  ASSUME RotationTypeOK, NEW r \in Rotation, NEW v \in Reason, intent[r] # 0,
         decision' = Cancelled(r, v), UNCHANGED <<user, intent, outcome>>
  PROVE  Account!Next
<1>1. CASE decision[r] = None
  <2>1. Account!CallOff(r)
    BY <1>1 DEF Account!CallOff, Cancelled, Undecided
  <2> QED BY <2>1 DEF Account!Next
<1>2. CASE decision[r] # None
  <2>1. decision' = decision
    BY <1>2 DEF Cancelled, Undecided
  <2> QED BY <2>1 DEF Account!Next, Account!Unseen, Account!vars
<1> QED BY <1>1, <1>2

\* The intent asks, the apply transaction applies, a cancel calls off, the outcome tells;
\* nothing else shows.
LEMMA RotationStepIsAtomic ==
  ASSUME RotationIInv, IntentsAre, RotationStep
  PROVE  Account!Next
<1>t. RotationTypeOK /\ ScriptsKnow /\ RotationsAre
  BY DEF RotationIInv
<1>1. ASSUME NEW r \in Rotation, CommitIntent(r) PROVE Account!Next
  <2> DEFINE asked == {q \in Rotation : intent[q] # 0}
  <2>1. /\ intent' = [intent EXCEPT ![r] = basis[r] + 1] /\ basis[r] + 1 # 0
        /\ OpenIntents = {} /\ UNCHANGED <<user, decision, outcome>>
    BY <1>t, <1>1 DEF CommitIntent, NoneOpen, RotationTypeOK
  <2>2. r \notin asked
    <3>1. job[r].at = "prepared"
      BY <1>1 DEF CommitIntent, Goes
    <3> QED BY <3>1 DEF IntentsAre, Unasked
  <2>3. \A q \in asked : outcome[q] # None
    BY <2>1 DEF OpenIntents
  <2>4. asked' = asked \cup {r}
    BY <1>t, <2>1 DEF RotationTypeOK
  <2>5. Account!Ask(r)
    BY <2>1, <2>2, <2>3, <2>4 DEF Account!Ask
  <2> QED BY <2>5 DEF Account!Next
<1>2. ASSUME NEW r \in Rotation, LandApply(r) PROVE Account!Next
  <2>1. intent[r] # 0
    <3>1. job[r].at \notin Unasked /\ job[r].on = r /\ r \in Script
      BY <1>t, <1>2 DEF LandApply, RotationsAre, RotationIs, ScriptsKnow, JobKnows, Unasked, Script
    <3> QED BY <3>1 DEF IntentsAre
  <2>2. user \in User /\ user.epoch = basis[r]
    BY <1>t, <1>2 DEF LandApply, ApplyGuard, RotationTypeOK
  <2>3. user'.hash = r /\ user'.epoch = user.epoch + 1
    BY <1>2, <2>2 DEF LandApply, User
  <2>4. Account!Apply(r)
    BY <1>2, <2>1, <2>3 DEF Account!Apply, LandApply, Undecided
  <2> QED BY <2>4 DEF Account!Next
<1>3. ASSUME NEW r \in Rotation, NEW v \in Reason, LandCancel(r, v) PROVE Account!Next
  <2>1. intent[r] # 0
    BY <1>3 DEF LandCancel, IntentsAre
  <2> QED BY <1>t, <1>3, <2>1, CancelCallsOff DEF LandCancel
<1>4. ASSUME NEW p \in Script, Cancel(p) PROVE Account!Next
  <2>1. job[p].at = "fence"
    BY <1>4 DEF Cancel, Goes
  <2>2. job[p].on \in Rotation /\ job[p].saw \in Reason /\ intent[job[p].on] # 0
    BY <1>t, <2>1 DEF ScriptsKnow, JobKnows, IntentsAre, Unasked
  <2> QED BY <1>t, <1>4, <2>2, CancelCallsOff DEF Cancel
<1>5. ASSUME NEW p \in Script, Record(p) PROVE Account!Next
  <2> DEFINE r == job[p].on
  <2>1. /\ r \in Rotation /\ decision[r] # None /\ job[p].saw = decision[r]
        /\ UNCHANGED <<user, intent, decision>>
        /\ outcome' = [outcome EXCEPT ![r] = IF outcome[r] = None THEN job[p].saw ELSE outcome[r]]
    BY <1>t, <1>5 DEF Record, ScriptsKnow, JobKnows
  <2> HIDE DEF r
  <2>2. CASE outcome[r] = None
    <3>1. Account!Tell(r)
      BY <2>1, <2>2 DEF Account!Tell
    <3> QED BY <2>1, <3>1 DEF Account!Next
  <2>3. CASE outcome[r] # None
    <3>1. outcome' = outcome
      BY <1>t, <2>1, <2>3 DEF RotationTypeOK
    <3> QED BY <2>1, <3>1 DEF Account!Next, Account!Unseen, Account!vars
  <2> QED BY <2>2, <2>3
<1>6. CASE UNCHANGED <<user, intent, decision, outcome>>
  BY <1>6 DEF Account!Next, Account!Unseen, Account!vars
<1> QED
  BY <1>1, <1>2, <1>3, <1>4, <1>5, <1>6
  DEF RotationStep, Prepare, Refuse, SendApply, ApplyFails, Hear, Die, Resolve, ScriptStep,
      CancelUnheard, Observe, CannotObserve, CannotRecord

\* Statements that run late, scripts that die or lose answers, operators and reconciling
\* runs that meet: the rotation of one user is an atomic one.
THEOREM RotationIsAtomic == RotationSpec => ImplementsAtomicRotation
<1>1. ASSUME RotationIInv, IntentsAre, [RotationStep]_rotationVars
      PROVE  IntentsAre' /\ [Account!Next]_Account!vars
  <2>1. CASE RotationStep
    BY <1>1, <2>1, IntentsGoOn, RotationStepIsAtomic
  <2>2. CASE UNCHANGED rotationVars
    BY <1>1, <2>2 DEF rotationVars, IntentsAre, Account!vars
  <2> QED BY <1>1, <2>1, <2>2
<1> QED
  BY <1>1, IntentsBegin, AccountBegins, RotationsAreInvariant, PTL
  DEF RotationSpec, ImplementsAtomicRotation, Account!Spec

-----------------------------------------------------------------------------
(* The credentials' strengthening.                                         *)

CheckIs(l) ==
  /\ check[l].at = "mark" => check[l].read.hash = Default
  /\ check[l].at = "reread" => check[l].read.hash # Default

\* A password that is or was in use: its generation no longer moves.
Settled(pw) ==
  /\ pw \in Rotation => decision[pw] = "applied"
  /\ pw \in Change => request[pw].at = "done"

KeyIs(k) == keys[k].state = "live" => request[k].at = "done" /\ keys[k].epoch = request[k].cep

HashIs   == Settled(user.hash) /\ GenerationOf(user.hash) = user.epoch
TokensAre == \A t \in tokens : t[2] # Default /\ Settled(t[2]) /\ GenerationOf(t[2]) = t[1]
ChecksAre == \A l \in Login \cup Scan : CheckIs(l)
KeysAre   == \A k \in Key : KeyIs(k)

CredentialIInv ==
  RotationIInv /\ CredentialTypeOK /\ HashIs /\ TokensAre /\ ChecksAre /\ KeysAre /\ MarkedHoldsDefault

RequestsStay == \A q \in Request : request[q].at = "done" => request'[q] = request[q]

LEMMA CredentialsBegin == Init => CredentialIInv
<1> SUFFICES ASSUME Init PROVE CredentialIInv
  OBVIOUS
<1>1. RotationIInv
  BY RotationsBegin DEF Init
<1>2. CredentialTypeOK
  <2>1. NoUser \in User /\ Default \in Password
    BY DEF NoUser, User, Password
  <2> QED BY <2>1 DEF Init, CredentialTypeOK, CheckState, RequestState, Idle
<1>3. HashIs /\ MarkedHoldsDefault
  BY RotationAssumption DEF Init, RotationInit, HashIs, Settled, GenerationOf, MarkedHoldsDefault
<1>4. TokensAre /\ ChecksAre /\ KeysAre
  BY DEF Init, RotationInit, TokensAre, ChecksAre, CheckIs, Idle, KeysAre, KeyIs
<1> QED BY <1>1, <1>2, <1>3, <1>4 DEF CredentialIInv

\* No intent of an applied rotation moves, nor a finished request.
LEMMA SettledStays ==
  ASSUME RotationIInv, RotationStep \/ UNCHANGED <<decision, intent>>, RequestsStay, NEW pw, Settled(pw)
  PROVE  Settled(pw)' /\ GenerationOf(pw)' = GenerationOf(pw)
<1>1. pw \in Rotation => decision'[pw] = "applied" /\ intent'[pw] = intent[pw]
  <2> SUFFICES ASSUME pw \in Rotation PROVE decision'[pw] = "applied" /\ intent'[pw] = intent[pw]
    OBVIOUS
  <2>1. decision[pw] = "applied" /\ job[pw].at # "prepared"
    BY DEF Settled, RotationIInv, RotationsAre, RotationIs
  <2>2. CASE UNCHANGED <<decision, intent>>
    BY <2>1, <2>2
  <2>3. CASE RotationStep
    <3>1. decision'[pw] = "applied"
      BY <2>1, <2>3, DecisionsAreKept, RotationAssumption DEF DecisionsStay
    <3>2. ASSUME NEW r \in Rotation, CommitIntent(r) PROVE intent'[pw] = intent[pw]
      <4>1. r # pw
        BY <2>1, <3>2 DEF CommitIntent, Goes
      <4> QED BY <3>2, <4>1 DEF CommitIntent, RotationIInv, RotationTypeOK
    <3>3. intent'[pw] = intent[pw]
      BY <2>3, <3>2
      DEF RotationStep, Prepare, Refuse, SendApply, LandApply, ApplyFails, Hear, Die, LandCancel,
          Resolve, ScriptStep, Cancel, CancelUnheard, Observe, CannotObserve, Record, CannotRecord
    <3> QED BY <3>1, <3>3
  <2> QED BY <2>2, <2>3
<1>2. pw \in Change => request'[pw] = request[pw]
  BY DEF Settled, RequestsStay, Request
<1> QED BY <1>1, <1>2 DEF Settled, GenerationOf

\* What is true of tokens stays true, whatever happens to the account.
LEMMA OldTokensAre ==
  ASSUME RotationIInv, RotationStep \/ UNCHANGED <<decision, intent>>, RequestsStay, TokensAre,
         NEW t \in tokens
  PROVE  t[2] # Default /\ Settled(t[2])' /\ GenerationOf(t[2])' = t[1]
<1>1. t[2] # Default /\ Settled(t[2]) /\ GenerationOf(t[2]) = t[1]
  BY DEF TokensAre
<1>2. ASSUME NEW pw, pw = t[2] PROVE Settled(pw)' /\ GenerationOf(pw)' = GenerationOf(pw)
  BY <1>1, <1>2, SettledStays
<1> QED BY <1>1, <1>2

\* A rotation's step leaves every credential what it stands for.
LEMMA RotatesCredentials ==
  ASSUME CredentialIInv, RotationStep, UNCHANGED credentialVars
  PROVE  CredentialIInv'
<1>1. RotationIInv'
  BY RotationTypes, ScriptsGoOnKnowing, RotationsGoOn, CountsGoOn DEF RotationIInv, CredentialIInv
<1>2. CredentialTypeOK'
  BY DEF CredentialIInv, CredentialTypeOK, credentialVars
<1>3. RotationIInv /\ RequestsStay /\ user \in User /\ keys \in [Key -> KeyRow]
  BY DEF CredentialIInv, credentialVars, RequestsStay, RotationIInv, RotationTypeOK
<1>4. TokensAre'
  <2>1. tokens' = tokens
    BY DEF credentialVars
  <2> QED BY <1>3, <2>1, OldTokensAre DEF CredentialIInv, TokensAre
<1>5. ChecksAre'
  BY DEF CredentialIInv, ChecksAre, CheckIs, credentialVars
<1>6. KeysAre'
  <2>1. \A k \in Key : keys'[k] = keys[k] \/ keys'[k].state = "revoked"
    <3>1. ASSUME NEW p \in Script, Record(p), NEW k \in Key
          PROVE  keys'[k] = keys[k] \/ keys'[k].state = "revoked"
      <4>1. keys' = keys \/ keys' = [j \in Key |-> IF Revoked(j, job[p].on)
                                                 THEN [keys[j] EXCEPT !.state = "revoked"] ELSE keys[j]]
        BY <3>1 DEF Record
      <4>2. keys[k] \in KeyRow
        BY <1>3
      <4> QED BY <4>1, <4>2 DEF KeyRow
    <3> QED BY <3>1
        DEF RotationStep, Prepare, CommitIntent, Refuse, SendApply, LandApply, ApplyFails, Hear, Die,
            LandCancel, Resolve, ScriptStep, Cancel, CancelUnheard, Observe, CannotObserve, CannotRecord
  <2> QED BY <2>1 DEF CredentialIInv, KeysAre, KeyIs, credentialVars
<1>7. HashIs' /\ MarkedHoldsDefault'
  <2>1. ASSUME NEW r \in Rotation, LandApply(r) PROVE HashIs' /\ MarkedHoldsDefault'
    <3>1. user'.hash = r /\ ~user'.marked
      BY <1>3, <2>1 DEF LandApply, User
    <3>2. RotationIs(r)'
      BY <1>1 DEF RotationIInv, RotationsAre
    <3> QED BY <3>1, <3>2, RotationAssumption
        DEF HashIs, Settled, GenerationOf, RotationIs, MarkedHoldsDefault
  <2>2. CASE user' = user
    <3>1. ASSUME NEW pw, pw = user.hash PROVE Settled(pw)' /\ GenerationOf(pw)' = GenerationOf(pw)
      BY <1>3, <3>1, SettledStays DEF CredentialIInv, HashIs
    <3> QED BY <2>2, <3>1 DEF CredentialIInv, HashIs, MarkedHoldsDefault
  <2> QED BY <2>1, <2>2
      DEF RotationStep, Prepare, CommitIntent, Refuse, SendApply, ApplyFails, Hear, Die, LandCancel,
          Resolve, ScriptStep, Cancel, CancelUnheard, Observe, CannotObserve, Record, CannotRecord
<1> QED BY <1>1, <1>2, <1>4, <1>5, <1>6, <1>7 DEF CredentialIInv

\* Whatever the program does to the account keeps what the rotations rely on: it never
\* moves the generation, and stores no password but the user's own.
LEMMA AccountSteps ==
  ASSUME RotationIInv, UNCHANGED <<intent, decision, outcome, basis, apply, cancels, job>>,
         user' \in User, user'.epoch = user.epoch, user'.hash \in {user.hash} \cup Change,
         keys' \in [Key -> KeyRow]
  PROVE  RotationIInv'
<1>1. RotationTypeOK'
  BY DEF RotationIInv, RotationTypeOK
<1>2. ScriptsKnow'
  BY DEF RotationIInv, ScriptsKnow, JobKnows
<1>3. RotationsAre'
  BY RotationAssumption DEF RotationIInv, RotationsAre, RotationIs
<1>4. Counted'
  BY DEF RotationIInv, Counted, Applied, OpenIntents
<1> QED BY <1>1, <1>2, <1>3, <1>4 DEF RotationIInv

\* A step that changes the account's state, not its password.
LEMMA PasswordStays ==
  ASSUME CredentialIInv, UNCHANGED <<intent, decision>>, RequestsStay,
         user'.hash = user.hash, user'.epoch = user.epoch
  PROVE  HashIs'
<1>1. ASSUME NEW pw, pw = user.hash PROVE Settled(pw)' /\ GenerationOf(pw)' = GenerationOf(pw)
  BY <1>1, SettledStays DEF CredentialIInv, HashIs
<1> QED BY <1>1 DEF CredentialIInv, HashIs

\* Keys that are live belong to requests that are over.
LEMMA KeysStay ==
  ASSUME CredentialIInv, RequestsStay,
         \A k \in Key : keys'[k] = keys[k] \/ keys'[k].state # "live"
  PROVE  KeysAre'
BY DEF CredentialIInv, KeysAre, KeyIs, RequestsStay, Request

LEMMA ComparesCredentials ==
  ASSUME CredentialIInv, NEW l \in Login \cup Scan, CheckStep(l)
  PROVE  CredentialIInv'
<1>0. /\ RotationIInv /\ CredentialTypeOK /\ user \in User /\ keys \in [Key -> KeyRow]
      /\ check \in [Login \cup Scan -> CheckState] /\ check[l] \in CheckState
      /\ CheckIs(l) /\ HashIs /\ MarkedHoldsDefault /\ Default \in Password
  BY DEF CredentialIInv, CredentialTypeOK, RotationIInv, RotationTypeOK, ChecksAre, Password
<1>u. /\ UNCHANGED <<keys, intent, decision, outcome, basis, apply, cancels, job, request>>
      /\ RequestsStay
  BY DEF CheckStep, LookUp, Compare, Mark, CannotMark, Issue, RefuseLogin, rotationVars, RequestsStay
<1>1. /\ user' \in User /\ user'.epoch = user.epoch /\ user'.hash = user.hash
      /\ user'.marked => user'.hash = Default
  <2>1. ASSUME Mark(l), MarkGuard(l) PROVE user' = [user EXCEPT !.marked = TRUE] /\ user.hash = Default
    BY <1>0, <2>1 DEF Mark, MarkGuard, CheckIs
  <2>2. user' = user \/ (user' = [user EXCEPT !.marked = TRUE] /\ user.hash = Default)
    BY <2>1 DEF CheckStep, LookUp, Compare, Mark, CannotMark, Issue, RefuseLogin, rotationVars
  <2> QED BY <1>0, <2>2 DEF User, MarkedHoldsDefault
<1>2. RotationIInv'
  BY <1>0, <1>1, <1>u, AccountSteps
<1>3. HashIs' /\ KeysAre'
  BY <1>1, <1>u, PasswordStays, KeysStay
<1>4. check' \in [Login \cup Scan -> CheckState] /\ ChecksAre'
  <2>1. NoUser \in User
    BY <1>0 DEF NoUser, User
  <2>2. \/ check' = [check EXCEPT ![l] = [at |-> "read", read |-> user]]
        \/ check' = [check EXCEPT ![l] = Idle]
        \/ check' = [check EXCEPT ![l].at = "mark"] /\ check[l].read.hash = Default
        \/ check' = [check EXCEPT ![l].at = "reread"] /\ check[l].read.hash # Default
    BY DEF CheckStep, LookUp, Compare, Mark, CannotMark, Issue, RefuseLogin, Marks, GoesOn
  <2>3. \A m \in Login \cup Scan : m # l => check'[m] = check[m]
    BY <1>0, <2>2
  <2>4. check'[l] \in CheckState /\ CheckIs(l)'
    <3> DEFINE At(a) == check' = [check EXCEPT ![l].at = a]
    <3>1. CASE check' = [check EXCEPT ![l] = [at |-> "read", read |-> user]]
      BY <1>0, <3>1 DEF CheckState, CheckIs
    <3>2. CASE check' = [check EXCEPT ![l] = Idle]
      BY <1>0, <2>1, <3>2 DEF CheckState, CheckIs, Idle
    <3>3. CASE At("mark") /\ check[l].read.hash = Default
      BY <1>0, <3>3 DEF CheckState, CheckIs
    <3>4. CASE At("reread") /\ check[l].read.hash # Default
      BY <1>0, <3>4 DEF CheckState, CheckIs
    <3> QED BY <2>2, <3>1, <3>2, <3>3, <3>4
  <2>5. check' \in [Login \cup Scan -> CheckState]
    BY <1>0, <2>2, <2>3, <2>4
  <2> QED BY <2>3, <2>4, <2>5 DEF CredentialIInv, ChecksAre, CheckIs
<1>5. tokens' \subseteq Nat \X Password /\ TokensAre'
  <2>1. ASSUME NEW t \in tokens PROVE t[2] # Default /\ Settled(t[2])' /\ GenerationOf(t[2])' = t[1]
    BY <1>0, <1>u, OldTokensAre DEF CredentialIInv
  <2>2. CASE Issue(l)
    <3>1. tokens' = tokens \cup {<<user.epoch, user.hash>>} /\ user.hash # Default
      BY <1>0, <2>2 DEF Issue, Unmoved, CheckIs
    <3>2. ASSUME NEW pw, pw = user.hash PROVE Settled(pw)' /\ GenerationOf(pw)' = user.epoch
      BY <1>0, <1>u, <3>2, SettledStays DEF HashIs
    <3>3. tokens' \subseteq Nat \X Password
      BY <1>0, <3>1 DEF CredentialTypeOK, User
    <3>4. ASSUME NEW t \in tokens' PROVE t[2] # Default /\ Settled(t[2])' /\ GenerationOf(t[2])' = t[1]
      <4>1. CASE t \in tokens
        BY <2>1, <4>1
      <4>2. CASE t = <<user.epoch, user.hash>>
        <5>1. t[1] = user.epoch /\ t[2] = user.hash
          BY <4>2
        <5> QED BY <3>1, <3>2, <5>1
      <4> QED BY <3>1, <4>1, <4>2
    <3> QED BY <3>3, <3>4 DEF TokensAre
  <2>3. CASE tokens' = tokens
    BY <1>0, <2>1, <2>3 DEF TokensAre, CredentialTypeOK
  <2> QED BY <2>2, <2>3 DEF CheckStep, LookUp, Compare, Mark, CannotMark, RefuseLogin
<1>6. CredentialTypeOK'
  BY <1>0, <1>u, <1>4, <1>5 DEF CredentialTypeOK
<1> QED BY <1>1, <1>2, <1>3, <1>4, <1>5, <1>6 DEF CredentialIInv, MarkedHoldsDefault

\* Requests: what each action does to the requests and to the rest.
LEMMA RequestsCredentials ==
  ASSUME CredentialIInv, NEW q \in Request, RequestStep(q)
  PROVE  CredentialIInv'
<1>0. /\ RotationIInv /\ CredentialTypeOK /\ user \in User /\ keys \in [Key -> KeyRow]
      /\ request \in [Request -> RequestState] /\ request[q] \in RequestState
      /\ user.hash \in Password /\ user.epoch \in Nat /\ Default \in Password
  BY DEF CredentialIInv, CredentialTypeOK, RotationIInv, RotationTypeOK, Password, User
<1>u. UNCHANGED <<rotationVars, tokens, check>>
  BY DEF RequestStep, Authorize, ReadUser, GiveUp
<1>1. request' \in [Request -> RequestState] /\ RequestsStay
  <2>1. request[q].at # "done"
    BY DEF RequestStep, Authorize, ReadUser, GiveUp
  <2>2. \/ request' = [request EXCEPT ![q].at = "authorized", ![q].cep = user.epoch]
        \/ request' = [request EXCEPT ![q].at = "read", ![q].read = user.hash]
        \/ request' = [request EXCEPT ![q] = Over]
    BY DEF RequestStep, Authorize, ReadUser, GiveUp
  <2> QED BY <1>0, <2>1, <2>2 DEF RequestState, RequestsStay, Over
<1>2. RotationIInv' /\ ChecksAre' /\ MarkedHoldsDefault'
  BY <1>0, <1>u, AccountSteps DEF CredentialIInv, ChecksAre, CheckIs, MarkedHoldsDefault, rotationVars
<1>3. HashIs' /\ KeysAre'
  BY <1>1, <1>u, PasswordStays, KeysStay DEF rotationVars
<1>4. TokensAre'
  BY <1>0, <1>1, <1>u, OldTokensAre DEF CredentialIInv, TokensAre, rotationVars
<1>5. CredentialTypeOK'
  BY <1>0, <1>1, <1>u DEF CredentialTypeOK
<1> QED BY <1>2, <1>3, <1>4, <1>5 DEF CredentialIInv

LEMMA RequestMoves ==
  ASSUME request \in [Request -> RequestState], NEW q \in Request,
         NEW from \in {"read", "disabled", "purged"}, NEW to \in {"disabled", "purged", "done"},
         Moves(q, from, to)
  PROVE  /\ request' \in [Request -> RequestState] /\ RequestsStay
         /\ request'[q].at = to /\ request'[q].cep = request[q].cep
<1>1. request[q] \in RequestState
  OBVIOUS
<1> QED BY <1>1 DEF Moves, RequestState, RequestsStay

LEMMA WritesCredentials ==
  ASSUME CredentialIInv,
         \/ \E c \in Change : WriteHash(c)
         \/ \E k \in Key : InsertKey(k) \/ RevokeKey(k)
         \/ \E d \in Deletion : Disable(d) \/ Purge(d) \/ Remove(d)
  PROVE  CredentialIInv'
<1>0. /\ RotationIInv /\ CredentialTypeOK /\ user \in User /\ keys \in [Key -> KeyRow]
      /\ request \in [Request -> RequestState] /\ user.epoch \in Nat
      /\ Change \subseteq Request /\ Key \subseteq Request /\ Deletion \subseteq Request
      /\ Change \subseteq Password /\ \A k \in Key : keys[k] \in KeyRow
      /\ TokensAre /\ ChecksAre /\ KeysAre /\ HashIs /\ MarkedHoldsDefault
  BY DEF CredentialIInv, CredentialTypeOK, RotationIInv, RotationTypeOK, Password, User, Request
<1>u. UNCHANGED <<intent, decision, outcome, basis, apply, cancels, job, tokens, check>>
  BY DEF WriteHash, InsertKey, RevokeKey, Disable, Purge, Remove
<1>c. ChecksAre'
  BY <1>0, <1>u DEF ChecksAre, CheckIs
<1>t. RequestsStay => TokensAre'
  BY <1>0, <1>u, OldTokensAre DEF TokensAre
<1>y. request' \in [Request -> RequestState] => CredentialTypeOK'
  BY <1>0, <1>u DEF CredentialTypeOK
<1>1. ASSUME NEW c \in Change, WriteHash(c) PROVE CredentialIInv'
  <2>1. /\ request' \in [Request -> RequestState] /\ RequestsStay
        /\ request'[c].at = "done" /\ request'[c].cep = request[c].cep
    BY <1>0, <1>1, RequestMoves DEF WriteHash
  <2>2. /\ user' \in User /\ user'.hash = c /\ user'.epoch = user.epoch /\ ~user'.marked
        /\ request[c].cep = user.epoch /\ keys' = keys
    BY <1>0, <1>1 DEF WriteHash, WriteGuard, User
  <2>3. RotationIInv'
    BY <1>0, <1>u, <2>2, AccountSteps
  <2>4. HashIs' /\ MarkedHoldsDefault'
    BY <2>1, <2>2, RotationAssumption DEF HashIs, Settled, GenerationOf, MarkedHoldsDefault
  <2>5. KeysAre'
    BY <2>1, <2>2, KeysStay
  <2> QED BY <1>c, <1>t, <1>y, <2>1, <2>3, <2>4, <2>5 DEF CredentialIInv
<1>2. ASSUME NEW k \in Key, InsertKey(k) PROVE CredentialIInv'
  <2>1. /\ request' \in [Request -> RequestState] /\ RequestsStay
        /\ request'[k].at = "done" /\ request'[k].cep = request[k].cep
    BY <1>0, <1>2, RequestMoves DEF InsertKey
  <2>2. /\ user' = user /\ request[k].cep \in Nat
        /\ keys' = [keys EXCEPT ![k] = [epoch |-> request[k].cep, state |-> "live"]]
    BY <1>0, <1>2 DEF InsertKey, KeyGeneration, RequestState
  <2>3. keys' \in [Key -> KeyRow]
    BY <1>0, <2>2 DEF KeyRow
  <2>4. RotationIInv' /\ HashIs' /\ MarkedHoldsDefault'
    BY <1>0, <1>u, <2>1, <2>2, <2>3, AccountSteps, PasswordStays DEF MarkedHoldsDefault
  <2>5. KeysAre'
    <3> SUFFICES ASSUME NEW j \in Key PROVE KeyIs(j)'
      BY DEF KeysAre
    <3>1. CASE j = k
      BY <1>0, <2>1, <2>2, <3>1 DEF KeyIs
    <3>2. CASE j # k
      BY <1>0, <2>1, <2>2, <3>2 DEF KeysAre, KeyIs, RequestsStay
    <3> QED BY <3>1, <3>2
  <2> QED BY <1>c, <1>t, <1>y, <2>1, <2>4, <2>5 DEF CredentialIInv
<1>3. ASSUME NEW k \in Key, RevokeKey(k) PROVE CredentialIInv'
  <2>1. user' = user /\ request' = request /\ keys' = [keys EXCEPT ![k].state = "revoked"]
    BY <1>3 DEF RevokeKey
  <2>2. /\ keys' \in [Key -> KeyRow] /\ RequestsStay
        /\ \A j \in Key : keys'[j] = keys[j] \/ keys'[j].state # "live"
    BY <1>0, <2>1 DEF KeyRow, RequestsStay
  <2>3. RotationIInv' /\ HashIs' /\ KeysAre' /\ MarkedHoldsDefault'
    BY <1>0, <1>u, <2>1, <2>2, AccountSteps, PasswordStays, KeysStay DEF MarkedHoldsDefault
  <2> QED BY <1>0, <1>c, <1>t, <1>y, <2>1, <2>2, <2>3 DEF CredentialIInv
<1>4. ASSUME NEW d \in Deletion, Disable(d) \/ Purge(d) \/ Remove(d) PROVE CredentialIInv'
  <2>1. request' \in [Request -> RequestState] /\ RequestsStay
    BY <1>0, <1>4, RequestMoves DEF Disable, Purge, Remove
  <2>2. \/ user' = user
        \/ user' = [user EXCEPT !.enabled = FALSE]
        \/ user' = [user EXCEPT !.exists = FALSE]
    BY <1>4 DEF Disable, Purge, Remove
  <2>3. /\ user' \in User /\ user'.hash = user.hash /\ user'.epoch = user.epoch
        /\ user'.marked = user.marked
    BY <1>0, <2>2 DEF User
  <2>4. keys' = keys \/ keys' = [k \in Key |-> [keys[k] EXCEPT !.state = "none"]]
    BY <1>4 DEF Disable, Purge, Remove
  <2>5. /\ keys' \in [Key -> KeyRow]
        /\ \A j \in Key : keys'[j] = keys[j] \/ keys'[j].state # "live"
    BY <1>0, <2>4 DEF KeyRow
  <2>6. RotationIInv' /\ HashIs' /\ KeysAre' /\ MarkedHoldsDefault'
    BY <1>0, <1>u, <2>1, <2>3, <2>5, AccountSteps, PasswordStays, KeysStay DEF MarkedHoldsDefault
  <2> QED BY <1>c, <1>t, <1>y, <2>1, <2>6 DEF CredentialIInv
<1> QED BY <1>1, <1>2, <1>3, <1>4

-----------------------------------------------------------------------------
(* What credentials promise.                                               *)

LEMMA CredentialsAreInvariant == Spec => []CredentialIInv
<1>1. ASSUME CredentialIInv, [Next]_allVars PROVE CredentialIInv'
  <2>1. CASE RotationStep /\ UNCHANGED credentialVars
    BY <1>1, <2>1, RotatesCredentials
  <2>2. CASE CredentialStep
    BY <1>1, <2>2, ComparesCredentials, RequestsCredentials, WritesCredentials DEF CredentialStep
  <2>3. CASE UNCHANGED allVars
    <3>1. RotationIInv'
      BY <1>1, <2>3
      DEF allVars, rotationVars, CredentialIInv, RotationIInv, RotationTypeOK, ScriptsKnow, JobKnows,
          RotationsAre, RotationIs, Counted, Applied, OpenIntents
    <3> QED BY <1>1, <2>3, <3>1
        DEF allVars, rotationVars, credentialVars, CredentialIInv, CredentialTypeOK, HashIs, Settled,
            GenerationOf, TokensAre, ChecksAre, CheckIs, KeysAre, KeyIs, MarkedHoldsDefault
  <2> QED BY <1>1, <2>1, <2>2, <2>3 DEF Next
<1> QED BY <1>1, CredentialsBegin, PTL DEF Spec

\* Types, with the rotation's promises kept beside everything else the program does.
THEOREM CredentialTypes == Spec => [](TypeOK /\ OutcomesAreDecisions)
<1>1. CredentialIInv => TypeOK /\ OutcomesAreDecisions
  BY KnownOutcomes
  DEF CredentialIInv, RotationIInv, TypeOK
<1> QED BY <1>1, CredentialsAreInvariant, PTL

\* No request that was authorized before a rotation overwrites its password.
THEOREM StoredHashIsCurrent == Spec => []HashIsOfItsGeneration
<1>1. CredentialIInv => HashIsOfItsGeneration
  BY DEF CredentialIInv, RotationIInv, RotationTypeOK, User, HashIs, HashIsOfItsGeneration
<1> QED BY <1>1, CredentialsAreInvariant, PTL

\* No login is issued a token in a generation its password does not belong to.
THEOREM TokensAreCurrent == Spec => []TokensAreOfTheirGeneration
<1>1. CredentialIInv => TokensAreOfTheirGeneration
  BY DEF CredentialIInv, TokensAre, TokensAreOfTheirGeneration
<1> QED BY <1>1, CredentialsAreInvariant, PTL

\* A key that works was authorized in the user's present generation.
THEOREM KeysAreCurrent == Spec => []UsableKeysAreCurrent
<1>1. CredentialIInv => UsableKeysAreCurrent
  BY DEF CredentialIInv, KeysAre, KeyIs, UsableKeysAreCurrent, Usable, Accepted
<1> QED BY <1>1, CredentialsAreInvariant, PTL

\* Only an account with the default password is marked.
THEOREM MarksAreTrue == Spec => []MarkedHoldsDefault
BY CredentialsAreInvariant, PTL DEF CredentialIInv

\* The account's other steps show as a change of the password, or not at all.
LEMMA AccountStepIsAtomic ==
  ASSUME CredentialIInv, CredentialStep
  PROVE  Account!Next
<1>1. user \in User /\ UNCHANGED <<intent, decision, outcome>>
  BY DEF CredentialIInv, RotationIInv, RotationTypeOK, CredentialStep, CheckStep, LookUp, Compare,
         Mark, CannotMark, Issue, RefuseLogin, RequestStep, Authorize, ReadUser, GiveUp, WriteHash,
         InsertKey, RevokeKey, Disable, Purge, Remove, rotationVars
<1>2. ASSUME NEW c \in Change, WriteHash(c) PROVE Account!Next
  <2>1. user'.hash = c /\ user'.epoch = user.epoch
    BY <1>1, <1>2 DEF WriteHash, User
  <2>2. Account!ChangePassword
    BY <1>1, <2>1 DEF Account!ChangePassword
  <2> QED BY <2>2 DEF Account!Next
<1>3. CASE \/ user' = user \/ user' = [user EXCEPT !.marked = TRUE]
           \/ user' = [user EXCEPT !.enabled = FALSE] \/ user' = [user EXCEPT !.exists = FALSE]
  <2>1. user'.hash = user.hash /\ user'.epoch = user.epoch
    BY <1>1, <1>3 DEF User
  <2> QED BY <1>1, <2>1 DEF Account!Next, Account!Unseen, Account!vars
<1> QED
  BY <1>2, <1>3
  DEF CredentialStep, CheckStep, LookUp, Compare, Mark, CannotMark, Issue, RefuseLogin, RequestStep,
      Authorize, ReadUser, GiveUp, InsertKey, RevokeKey, Disable, Purge, Remove, rotationVars

\* Beside logins, scans, password changes, keys and deletions a rotation is still atomic.
THEOREM RotationIsAtomicBesideRequests == Spec => ImplementsAtomicRotation
<1>1. Init => IntentsAre /\ Account!Init
  BY IntentsBegin, AccountBegins DEF Init
<1>2. ASSUME CredentialIInv, IntentsAre, [Next]_allVars
      PROVE  IntentsAre' /\ [Account!Next]_Account!vars
  <2>0. RotationIInv
    BY <1>2 DEF CredentialIInv
  <2>1. CASE RotationStep /\ UNCHANGED credentialVars
    BY <1>2, <2>0, <2>1, IntentsGoOn, RotationStepIsAtomic
  <2>2. CASE CredentialStep
    <3>1. UNCHANGED <<intent, cancels, job>>
      BY <2>2
      DEF CredentialStep, CheckStep, LookUp, Compare, Mark, CannotMark, Issue, RefuseLogin,
          RequestStep, Authorize, ReadUser, GiveUp, WriteHash, InsertKey, RevokeKey, Disable, Purge,
          Remove, rotationVars
    <3>2. IntentsAre'
      BY <1>2, <3>1 DEF IntentsAre
    <3> QED BY <1>2, <2>2, <3>2, AccountStepIsAtomic
  <2>3. CASE UNCHANGED allVars
    BY <1>2, <2>3 DEF allVars, rotationVars, IntentsAre, Account!vars
  <2> QED BY <1>2, <2>1, <2>2, <2>3 DEF Next
<1> QED
  BY <1>1, <1>2, CredentialsAreInvariant, PTL
  DEF Spec, ImplementsAtomicRotation, Account!Spec
=============================================================================
