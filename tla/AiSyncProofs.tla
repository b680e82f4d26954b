---------------------------- MODULE AiSyncProofs ----------------------------
(***************************************************************************)
(* The sync's safety, for any number of releases, runs, snapshots and      *)
(* failures.                                                               *)
(*                                                                         *)
(* CursorIsApplied says what holds when a run is over; its strengthening   *)
(* says of each run under way which approved releases of its snapshot are  *)
(* still to do, which one is at hand, and that the others are complete.    *)
(***************************************************************************)
EXTENDS AiSync, TLAPS

Approved(t) == {r \in Release : c4[t][r] = "approved"}

\* r is in the inventory with its models and their relationships.
Complete(r) ==
  r \in Held /\ Pins[r] \subseteq models /\ \A m \in Pins[r] : <<r, m>> \in uses

Given(r, s, t) == \E u \in t .. now : c4[u][r] = s

AtHand(w) == run[w].at \in {"look", "write", "pins"}
Listed(w) == run[w].at \notin {"idle", "list"}
Begun(w)  == run[w].at \notin {"idle", "list", "cursor"}

\* What is done and what is left of the listing.
Progress(w) ==
  /\ Listed(w) => run[w].asOf <= now
  /\ run[w].at \in {"idle", "list", "cursor"} => ~run[w].late
  /\ Listed(w) /\ ~run[w].late => run[w].todo \subseteq Approved(run[w].asOf)
  /\ Listed(w) => \A r \in Approved(run[w].asOf) :
       \/ Complete(r)
       \/ ~run[w].late /\ (r \in run[w].todo \/ (AtHand(w) /\ r = run[w].rel))

\* What is known of the release at hand.
Hand(w) ==
  /\ run[w].at \in {"look", "write"} =>
       run[w].status \in Applicable /\ Given(run[w].rel, run[w].status, run[w].asOf)
  /\ run[w].at = "write" /\ run[w].existing # NoCI => run[w].rel \in Held
  /\ run[w].at = "pins" =>
       /\ run[w].rel \in Held
       /\ \A m \in Pins[run[w].rel] : m \in run[w].pins \/ (m \in models /\ <<run[w].rel, m>> \in uses)

RunsAre == \A w \in Run : Progress(w) /\ Hand(w)

CIsAre ==
  \A r \in Release :
    cis[r] = NoCI \/ (cis[r].status \in Applicable /\ Given(r, cis[r].status, cis[r].asOf))

\* Unless a job stalled, there is one run, and it is not behind the cursor.
Alone ==
  ~stalled =>
    /\ \A v, w \in Run : run[v].at # "idle" /\ run[w].at # "idle" => v = w
    /\ \A w \in Run : Begun(w) => run[w].asOf >= cursor

SyncIInv == TypeOK /\ RunsAre /\ CIsAre /\ CursorIsApplied /\ Alone

-----------------------------------------------------------------------------
\* History is fixed and the inventory only gains.
Gains ==
  /\ now' \in Time /\ now <= now' /\ \A t \in 0 .. now : c4'[t] = c4[t]
  /\ Held \subseteq Held' /\ models \subseteq models' /\ uses \subseteq uses'

LEMMA CompleteStays ==
  ASSUME Gains, NEW r \in Release, Complete(r)
  PROVE  Complete(r)'
BY DEF Gains, Complete

LEMMA GivenStays ==
  ASSUME TypeOK, Gains, NEW r \in Release, NEW s, NEW t \in Time, Given(r, s, t)
  PROVE  Given(r, s, t)'
<1>1. PICK u \in t .. now : c4[u][r] = s
  BY DEF Given
<1>2. u \in 0 .. now /\ u \in t .. now'
  BY <1>1 DEF TypeOK, Time, Gains
<1> QED BY <1>1, <1>2 DEF Given, Gains

LEMMA ApprovedStays ==
  ASSUME TypeOK, Gains, NEW t \in Time, t <= now
  PROVE  Approved(t)' = Approved(t)
<1>1. t \in 0 .. now
  BY DEF TypeOK, Time
<1> QED BY <1>1 DEF Gains, Approved

\* A run that takes no step keeps what is known of it.
LEMMA RunStays ==
  ASSUME TypeOK, Gains, NEW w \in Run, Progress(w), Hand(w), run'[w] = run[w]
  PROVE  Progress(w)' /\ Hand(w)'
<1>1. run[w] \in RunState /\ run[w].asOf \in Time /\ run[w].rel \in Release /\ now \in Time
  BY DEF TypeOK, RunState
<1>2. Progress(w)'
  <2>1. Listed(w) => run[w].asOf <= now'
    BY <1>1 DEF Progress, Gains, Time
  <2>2. Listed(w) => Approved(run[w].asOf)' = Approved(run[w].asOf)
    <3>1. ASSUME NEW t, t = run[w].asOf, Listed(w) PROVE Approved(t)' = Approved(t)
      BY <1>1, <3>1, ApprovedStays DEF Progress
    <3> QED BY <3>1 DEF Approved
  <2>3. \A r \in Release : Complete(r) => Complete(r)'
    BY CompleteStays
  <2>4. \A t : Approved(t) \subseteq Release
    BY DEF Approved
  <2> QED BY <2>1, <2>2, <2>3, <2>4 DEF Progress, Listed, AtHand
<1>3. Hand(w)'
  <2>1. run[w].at \in {"look", "write"} => Given(run[w].rel, run[w].status, run[w].asOf)'
    <3>1. ASSUME NEW r, r = run[w].rel, NEW s, s = run[w].status, NEW t, t = run[w].asOf,
                 Given(r, s, t)
          PROVE  Given(r, s, t)'
      BY <1>1, <3>1, GivenStays
    <3> QED BY <3>1 DEF Hand, Given
  <2> QED BY <2>1 DEF Hand, Gains, Given
<1> QED BY <1>2, <1>3

\* One run steps, the others keep what is known of them.
LEMMA OneSteps ==
  ASSUME TypeOK, RunsAre, Gains, NEW w \in Run, NEW s \in RunState, Becomes(w, s),
         Progress(w)', Hand(w)'
  PROVE  run' \in [Run -> RunState] /\ RunsAre'
<1>1. run' \in [Run -> RunState]
  BY DEF TypeOK, Becomes
<1>2. ASSUME NEW v \in Run PROVE Progress(v)' /\ Hand(v)'
  <2>1. CASE v # w
    <3>1. run'[v] = run[v]
      BY <2>1 DEF TypeOK, Becomes
    <3> QED BY <3>1, RunStays DEF RunsAre
  <2> QED BY <2>1
<1> QED BY <1>1, <1>2 DEF RunsAre

LEMMA StatesAre ==
  ASSUME TypeOK
  PROVE  /\ Idle \in RunState /\ NoCI \in CI /\ Idle.rel \in Release
         /\ \A w \in Run : run[w] \in RunState
<1>1. Idle.rel \in Release
  BY SyncAssumption DEF Idle
<1>2. NoCI \in CI /\ 0 \in Time
  BY SyncAssumption DEF NoCI, CI, Time
<1> QED BY <1>1, <1>2 DEF TypeOK, Idle, RunState, Status

\* A run that is or becomes idle is nobody's burden.
LEMMA IdleIsKnown ==
  ASSUME NEW w \in Run, run'[w] = Idle
  PROVE  Progress(w)' /\ Hand(w)'
BY DEF Idle, Progress, Hand, Listed, AtHand

\* The steps that only read.
LEMMA ReadingSteps ==
  ASSUME SyncIInv, NEW w \in Run,
         \/ Begin(w) \/ Fail(w) \/ ReadCursor(w) \/ ListHeld(w) \/ Look(w) \/ Pinned(w)
         \/ \E r \in Release : TakeListed(w, r) \/ \E t \in Time : Fetch(w, r, t)
         \/ \E t \in Time : List(w, t)
  PROVE  run' \in [Run -> RunState] /\ RunsAre'
<1>0. /\ TypeOK /\ RunsAre /\ CIsAre /\ run[w] \in RunState /\ Progress(w) /\ Hand(w) /\ now \in Time
      /\ Idle \in RunState /\ Idle.rel \in Release /\ cis \in [Release -> CI]
      /\ run \in [Run -> RunState]
  BY StatesAre DEF SyncIInv, TypeOK, RunsAre
<1>u. UNCHANGED <<source, inventory>>
  BY DEF Begin, Fail, ReadCursor, ListHeld, Look, Pinned, TakeListed, Fetch, List
<1>g. Gains
  BY <1>0, <1>u DEF Gains, source, inventory, Time, Held
<1>i. ASSUME Becomes(w, Idle) PROVE run' \in [Run -> RunState] /\ RunsAre'
  <2>1. run'[w] = Idle
    BY <1>0, <1>i DEF Becomes
  <2> QED BY <1>0, <1>g, <1>i, <2>1, IdleIsKnown, OneSteps
<1>s. ASSUME NEW s \in RunState, Becomes(w, s), Progress(w)', Hand(w)'
      PROVE  run' \in [Run -> RunState] /\ RunsAre'
  BY <1>0, <1>g, <1>s, OneSteps
<1>b. \A s : Becomes(w, s) => run'[w] = s
  BY <1>0 DEF Becomes
<1> USE DEF SyncIInv
<1>1. CASE Begin(w)
  <2> DEFINE s == [run[w] EXCEPT !.at = "list"]
  <2>1. Becomes(w, s) /\ run[w].at = "idle" /\ run'[w] = s
    BY <1>1, <1>b DEF Begin
  <2>2. s \in RunState /\ s.at = "list" /\ s.late = run[w].late
    BY <1>0 DEF RunState
  <2> HIDE DEF s
  <2>3. Progress(w)' /\ Hand(w)'
    BY <1>0, <2>1, <2>2 DEF Progress, Hand, Listed, AtHand
  <2> QED BY <1>s, <2>1, <2>2, <2>3
<1>2. CASE Fail(w)
  BY <1>2, <1>i DEF Fail
<1>3. CASE ReadCursor(w)
  <2> DEFINE s == [run[w] EXCEPT !.at = "next"]
  <2>1. run[w].at = "cursor" /\ (Becomes(w, Idle) \/ Becomes(w, s))
    BY <1>3 DEF ReadCursor
  <2>2. /\ s \in RunState /\ s.at = "next" /\ s.late = run[w].late /\ s.todo = run[w].todo
        /\ s.asOf = run[w].asOf
    BY <1>0 DEF RunState
  <2> HIDE DEF s
  <2>3. ASSUME Becomes(w, s) PROVE Progress(w)' /\ Hand(w)'
    <3>1. run'[w] = s
      BY <1>b, <2>3
    <3>2. Progress(w)'
      BY <1>0, <1>u, <2>1, <2>2, <3>1
      DEF Progress, Listed, AtHand, source, inventory, Approved, Complete, Held
    <3> QED BY <2>2, <3>1, <3>2 DEF Hand
  <2> QED BY <1>i, <1>s, <2>1, <2>2, <2>3
<1>4. CASE ListHeld(w)
  <2> DEFINE s == [run[w] EXCEPT !.late = TRUE, !.seen = {}, !.todo = Held \ run[w].seen]
  <2>1. /\ run[w].at = "next" /\ ~run[w].late /\ run[w].todo = {} /\ Becomes(w, s) /\ run'[w] = s
    BY <1>4, <1>b DEF ListHeld
  <2>2. s \in RunState /\ s.at = run[w].at /\ s.late /\ s.asOf = run[w].asOf
    BY <1>0 DEF RunState, Held
  <2> HIDE DEF s
  <2>3. Progress(w)'
    BY <1>0, <1>u, <2>1, <2>2
    DEF Progress, Listed, AtHand, source, inventory, Approved, Complete, Held
  <2>4. Hand(w)'
    BY <2>1, <2>2 DEF Hand
  <2> QED BY <1>s, <2>1, <2>2, <2>3, <2>4
<1>5. CASE Look(w)
  <2> DEFINE s == [run[w] EXCEPT !.at = "write", !.existing = cis[run[w].rel]]
  <2>1. run[w].at = "look" /\ Becomes(w, s) /\ run'[w] = s
    BY <1>5, <1>b DEF Look
  <2>2. /\ s \in RunState /\ s.at = "write" /\ s.late = run[w].late /\ s.todo = run[w].todo
        /\ s.asOf = run[w].asOf /\ s.rel = run[w].rel /\ s.status = run[w].status
        /\ s.existing = cis[run[w].rel]
    BY <1>0 DEF RunState
  <2> HIDE DEF s
  <2>3. Progress(w)'
    BY <1>0, <1>u, <2>1, <2>2
    DEF Progress, Listed, AtHand, source, inventory, Approved, Complete, Held
  <2>4. Hand(w)'
    <3>1. run[w].rel \in Release
      BY <1>0 DEF RunState
    <3> QED BY <1>0, <1>u, <2>1, <2>2, <3>1 DEF Hand, Given, source, inventory, Held
  <2> QED BY <1>s, <2>1, <2>2, <2>3, <2>4
<1>6. CASE Pinned(w)
  <2> DEFINE s == [run[w] EXCEPT !.at = "next", !.rel = Idle.rel, !.status = Idle.status]
  <2>1. run[w].at = "pins" /\ run[w].pins = {} /\ Becomes(w, s) /\ run'[w] = s
    BY <1>6, <1>b DEF Pinned
  <2>2. /\ s \in RunState /\ s.at = "next" /\ s.late = run[w].late /\ s.todo = run[w].todo
        /\ s.asOf = run[w].asOf
    BY <1>0 DEF RunState
  <2> HIDE DEF s
  <2>3. Complete(run[w].rel)
    <3>1. run[w].rel \in Release /\ Pins[run[w].rel] \subseteq Model
      BY <1>0, SyncAssumption DEF RunState
    <3> QED BY <1>0, <2>1, <3>1 DEF Hand, Complete
  <2>4. Progress(w)'
    BY <1>0, <1>u, <2>1, <2>2, <2>3
    DEF Progress, Listed, AtHand, source, inventory, Approved, Complete, Held
  <2>5. Hand(w)'
    BY <2>1, <2>2 DEF Hand
  <2> QED BY <1>s, <2>1, <2>2, <2>4, <2>5
<1>7. ASSUME NEW r \in Release, TakeListed(w, r) PROVE run' \in [Run -> RunState] /\ RunsAre'
  <2> DEFINE s == [run[w] EXCEPT !.at = "look", !.rel = r, !.status = "approved", !.todo = @ \ {r}]
  <2>1. /\ run[w].at = "next" /\ ~run[w].late /\ r \in run[w].todo
        /\ Becomes(w, s) /\ run'[w] = s
    BY <1>7, <1>b DEF TakeListed
  <2>2. /\ s \in RunState /\ s.at = "look" /\ s.late = run[w].late /\ s.todo = run[w].todo \ {r}
        /\ s.asOf = run[w].asOf /\ s.rel = r /\ s.status = "approved" /\ run[w].asOf \in Time
    BY <1>0 DEF RunState, Status
  <2> HIDE DEF s
  <2>3. Progress(w)'
    BY <1>0, <1>u, <2>1, <2>2
    DEF Progress, Listed, AtHand, source, inventory, Approved, Complete, Held
  <2>4. c4[run[w].asOf][r] = "approved" /\ run[w].asOf <= now
    BY <1>0, <2>1 DEF Progress, Listed, Approved
  <2>5. Given(r, "approved", run[w].asOf)
    BY <1>0, <2>2, <2>4 DEF Given, Time
  <2>6. Hand(w)'
    BY <1>u, <2>1, <2>2, <2>5 DEF Hand, Given, source, Applicable
  <2> QED BY <1>s, <2>1, <2>2, <2>3, <2>6
<1>8. ASSUME NEW r \in Release, NEW t \in Time, Fetch(w, r, t)
      PROVE  run' \in [Run -> RunState] /\ RunsAre'
  <2> DEFINE q == c4[t][r]
             a == [run[w] EXCEPT !.at = "look", !.rel = r, !.status = q, !.todo = @ \ {r}]
             b == [run[w] EXCEPT !.todo = @ \ {r}]
  <2>1. /\ run[w].at = "next" /\ run[w].late /\ r \in run[w].todo /\ t \in run[w].asOf .. now
        /\ (q \in Applicable /\ Becomes(w, a)) \/ Becomes(w, b)
    BY <1>8 DEF Fetch, Applied
  <2>2. q \in Status
    BY <1>0 DEF TypeOK
  <2>3. Given(r, q, run[w].asOf)
    BY <2>1 DEF Given
  <2> HIDE DEF q
  <2>4. /\ a \in RunState /\ a.at = "look" /\ a.late = run[w].late /\ a.asOf = run[w].asOf
        /\ a.rel = r /\ a.status = q
    BY <1>0, <2>2 DEF RunState
  <2>5. b \in RunState /\ b.at = run[w].at /\ b.late = run[w].late /\ b.asOf = run[w].asOf
    BY <1>0 DEF RunState
  <2> HIDE DEF a, b
  <2>6. ASSUME q \in Applicable, Becomes(w, a) PROVE run' \in [Run -> RunState] /\ RunsAre'
    <3>1. run'[w] = a
      BY <1>b, <2>6
    <3>2. Progress(w)'
      BY <1>0, <1>u, <2>1, <2>4, <3>1
      DEF Progress, Listed, AtHand, source, inventory, Approved, Complete, Held
    <3>3. Hand(w)'
      BY <1>u, <2>3, <2>4, <2>6, <3>1 DEF Hand, Given, source
    <3> QED BY <1>s, <2>4, <2>6, <3>2, <3>3
  <2>7. ASSUME Becomes(w, b) PROVE run' \in [Run -> RunState] /\ RunsAre'
    <3>1. run'[w] = b
      BY <1>b, <2>7
    <3>2. Progress(w)'
      BY <1>0, <1>u, <2>1, <2>5, <3>1
      DEF Progress, Listed, AtHand, source, inventory, Approved, Complete, Held
    <3>3. Hand(w)'
      BY <2>1, <2>5, <3>1 DEF Hand
    <3> QED BY <1>s, <2>5, <2>7, <3>2, <3>3
  <2> QED BY <2>1, <2>6, <2>7
<1>9. ASSUME NEW t \in Time, List(w, t) PROVE run' \in [Run -> RunState] /\ RunsAre'
  <2> DEFINE s == [run[w] EXCEPT !.at = "cursor", !.asOf = t, !.seen = Approved(t),
                                 !.todo = Approved(t)]
  <2>1. run[w].at = "list" /\ t <= now /\ Becomes(w, s) /\ run'[w] = s
    BY <1>9, <1>b DEF List, Approved
  <2>2. /\ s \in RunState /\ s.at = "cursor" /\ s.late = run[w].late /\ s.todo = Approved(t)
        /\ s.asOf = t
    BY <1>0 DEF RunState, Approved
  <2>3. Approved(t)' = Approved(t)
    BY <1>u DEF Approved, source
  <2> HIDE DEF s
  <2>4. ASSUME NEW n, n = s.asOf PROVE Approved(n)' = s.todo
    BY <2>2, <2>3, <2>4
  <2>5. Progress(w)'
    BY <1>0, <1>u, <2>1, <2>2, <2>3, <2>4 DEF Progress, Listed, AtHand, source, Approved
  <2>6. Hand(w)'
    BY <2>1, <2>2 DEF Hand
  <2> QED BY <1>s, <2>1, <2>2, <2>5, <2>6
<1> QED BY <1>1, <1>2, <1>3, <1>4, <1>5, <1>6, <1>7, <1>8, <1>9

LEMMA Begins == Init => SyncIInv
<1> SUFFICES ASSUME Init PROVE SyncIInv
  OBVIOUS
<1>0. Idle.rel \in Release /\ 0 \in Time /\ MaxFailures \in Nat
  BY SyncAssumption DEF Idle, Time
<1>1. NoCI \in CI /\ Idle \in RunState
  BY <1>0 DEF NoCI, CI, Idle, RunState, Status
<1>2. TypeOK
  <2>1. c4 \in [Time -> [Release -> Status]]
    BY DEF Init, Status
  <2>2. now = 0 /\ cursor \in 0 .. now /\ failures \in 0 .. MaxFailures
    BY <1>0 DEF Init
  <2>3. run \in [Run -> RunState] /\ cis \in [Release -> CI]
    BY <1>1 DEF Init
  <2> QED BY <1>0, <2>1, <2>2, <2>3 DEF Init, TypeOK
<1>3. RunsAre
  BY DEF Init, RunsAre, Progress, Hand, Listed, AtHand, Idle
<1>4. CIsAre /\ Alone /\ CursorIsApplied
  BY <1>0 DEF Init, CIsAre, Alone, Begun, Idle, CursorIsApplied
<1> QED BY <1>2, <1>3, <1>4 DEF SyncIInv

\* The inventory and the past at the cursor, when nothing is written.
LEMMA PastStays ==
  ASSUME TypeOK, Gains, CIsAre, CursorIsApplied, UNCHANGED cis
  PROVE  CIsAre' /\ (cursor' = cursor => CursorIsApplied')
<1>1. CIsAre'
  <2> SUFFICES ASSUME NEW r \in Release, cis[r] # NoCI
               PROVE  cis[r].status \in Applicable /\ Given(r, cis[r].status, cis[r].asOf)'
    BY DEF CIsAre, Given
  <2>1. cis[r] \in CI /\ cis[r].asOf \in Time
    BY DEF TypeOK, CI
  <2>2. ASSUME NEW s, s = cis[r].status, NEW t, t = cis[r].asOf PROVE Given(r, s, t)'
    BY <2>1, <2>2, GivenStays DEF CIsAre
  <2> QED BY <2>2 DEF CIsAre, Given
<1>2. ASSUME cursor' = cursor PROVE CursorIsApplied'
  <2>1. c4'[cursor] = c4[cursor]
    BY DEF Gains, TypeOK
  <2> QED BY <1>2, <2>1 DEF CursorIsApplied, Gains
<1> QED BY <1>1, <1>2

\* C4 moves on: the newest snapshot is added, the older ones are as they were.
LEMMA PublishingSteps ==
  ASSUME SyncIInv, NEW r \in Release, NEW s \in Status, Publish(r, s)
  PROVE  SyncIInv'
<1>0. /\ TypeOK /\ now \in Time /\ now' = now + 1 /\ now < MaxTime
      /\ c4 \in [Time -> [Release -> Status]] /\ MaxTime \in Nat
      /\ c4' = [c4 EXCEPT ![now + 1] = [c4[now] EXCEPT ![r] = s]]
      /\ UNCHANGED <<inventory, cursor, run, stalled, failures>>
  BY SyncAssumption DEF SyncIInv, TypeOK, Publish
<1>1. /\ now' \in Time /\ c4[now] \in [Release -> Status]
  BY <1>0 DEF Time
<1>2. Gains
  BY <1>0, <1>1 DEF Gains, Time, inventory, Held
<1>3. c4' \in [Time -> [Release -> Status]]
  BY <1>0, <1>1
<1>4. TypeOK'
  BY <1>0, <1>1, <1>3 DEF TypeOK, inventory, Time
<1>5. RunsAre'
  BY <1>0, <1>2, RunStays DEF SyncIInv, RunsAre
<1>6. CIsAre' /\ CursorIsApplied'
  BY <1>0, <1>2, PastStays DEF SyncIInv, inventory
<1>7. Alone'
  BY <1>0 DEF SyncIInv, Alone, Begun
<1> QED BY <1>4, <1>5, <1>6, <1>7 DEF SyncIInv

\* upsert.
LEMMA WritingSteps ==
  ASSUME SyncIInv, NEW w \in Run, Write(w)
  PROVE  TypeOK' /\ RunsAre' /\ CIsAre' /\ CursorIsApplied'
<1> DEFINE r == run[w].rel
           n == [status |-> run[w].status, asOf |-> run[w].asOf]
           s == [run[w] EXCEPT !.at = "pins", !.existing = NoCI, !.pins = Pins[run[w].rel]]
<1>0. /\ TypeOK /\ RunsAre /\ CIsAre /\ CursorIsApplied /\ run[w] \in RunState /\ Progress(w) /\ Hand(w)
      /\ now \in Time /\ cis \in [Release -> CI] /\ run \in [Run -> RunState] /\ NoCI \in CI
      /\ r \in Release /\ run[w].asOf \in Time
  BY StatesAre DEF SyncIInv, TypeOK, RunsAre, RunState
<1>1. /\ run[w].at = "write" /\ Becomes(w, s) /\ run'[w] = s
      /\ UNCHANGED <<source, models, uses, cursor, stalled, failures>>
      /\ (Same(w) /\ cis' = cis) \/ cis' = [cis EXCEPT ![r] = n]
  BY <1>0 DEF Write, Becomes
<1>2. /\ run[w].status \in Applicable /\ Given(r, run[w].status, run[w].asOf)
      /\ n \in CI /\ n # NoCI /\ n.status = run[w].status /\ n.asOf = run[w].asOf
  BY <1>0, <1>1 DEF Hand, Applicable, CI, NoCI
<1>3. r \in Held'
  <2>1. CASE Same(w) /\ cis' = cis
    <3>1. run[w].existing # NoCI
      BY <1>2, <2>1 DEF Same, NoCI, Applicable
    <3> QED BY <1>0, <1>1, <2>1, <3>1 DEF Hand, Held
  <2>2. CASE cis' = [cis EXCEPT ![r] = n]
    BY <1>0, <1>2, <2>2 DEF Held
  <2> QED BY <1>1, <2>1, <2>2
<1>4. Gains
  <2>1. Held \subseteq Held'
    BY <1>0, <1>1, <1>2 DEF Held
  <2> QED BY <1>0, <1>1, <2>1 DEF Gains, source, Time
<1>5. /\ s \in RunState /\ s.at = "pins" /\ s.late = run[w].late /\ s.todo = run[w].todo
      /\ s.asOf = run[w].asOf /\ s.rel = r /\ s.pins = Pins[r]
  BY <1>0, SyncAssumption DEF RunState
<1> HIDE DEF s, n
<1>6. Progress(w)'
  <2>1. \A q \in Release : Complete(q) => Complete(q)'
    BY <1>4, CompleteStays
  <2>2. \A t : Approved(t) \subseteq Release /\ Approved(t)' = Approved(t)
    BY <1>1 DEF Approved, source
  <2>3. now' = now
    BY <1>1 DEF source
  <2> HIDE DEF r
  <2>4. r = run[w].rel
    BY DEF r
  <2>5. Approved(run[w].asOf)' = Approved(run[w].asOf)
    BY <1>1, <1>5 DEF Approved, source
  <2> QED BY <1>0, <1>1, <1>5, <2>1, <2>2, <2>3, <2>4, <2>5 DEF Progress, Listed, AtHand
<1>7. Hand(w)'
  BY <1>1, <1>3, <1>5 DEF Hand
<1>8. run' \in [Run -> RunState] /\ RunsAre'
  BY <1>0, <1>1, <1>4, <1>5, <1>6, <1>7, OneSteps
<1>9. TypeOK'
  <2>1. cis' \in [Release -> CI]
    BY <1>0, <1>1, <1>2
  <2> QED BY <1>0, <1>1, <1>8, <2>1 DEF TypeOK, source
<1>10. CIsAre'
  <2> SUFFICES ASSUME NEW q \in Release
               PROVE  cis'[q] = NoCI
                        \/ (cis'[q].status \in Applicable /\ Given(q, cis'[q].status, cis'[q].asOf))
    BY <1>1 DEF CIsAre, Given, source
  <2>1. CASE cis'[q] = cis[q]
    BY <1>0, <2>1 DEF CIsAre
  <2>2. CASE q = r /\ cis'[q] = n
    BY <1>2, <2>2
  <2> QED BY <1>0, <1>1, <2>1, <2>2
<1>11. CursorIsApplied'
  BY <1>0, <1>1, <1>4 DEF CursorIsApplied, Gains, source
<1> QED BY <1>8, <1>9, <1>10, <1>11

\* The upsert and the link of a pinned model.
LEMMA PinningSteps ==
  ASSUME SyncIInv, NEW w \in Run, NEW m \in Model, Pin(w, m)
  PROVE  TypeOK' /\ RunsAre' /\ CIsAre' /\ CursorIsApplied'
<1> DEFINE s == [run[w] EXCEPT !.pins = @ \ {m}]
<1>0. /\ TypeOK /\ RunsAre /\ CIsAre /\ CursorIsApplied /\ run[w] \in RunState /\ Progress(w) /\ Hand(w)
      /\ now \in Time /\ run \in [Run -> RunState] /\ run[w].rel \in Release
  BY DEF SyncIInv, TypeOK, RunsAre, RunState
<1>1. /\ run[w].at = "pins" /\ m \in run[w].pins /\ models' = models \cup {m}
      /\ UNCHANGED <<source, cis, cursor, stalled, failures>>
      /\ \/ uses' = uses \cup {<<run[w].rel, m>>} /\ Becomes(w, s) /\ run'[w] = s
         \/ UNCHANGED <<uses, run>>
  BY <1>0 DEF Pin, Becomes
<1>2. Gains
  BY <1>0, <1>1 DEF Gains, source, Time, Held
<1>3. /\ s \in RunState /\ s.at = "pins" /\ s.late = run[w].late /\ s.todo = run[w].todo
      /\ s.asOf = run[w].asOf /\ s.rel = run[w].rel /\ s.pins = run[w].pins \ {m}
  BY <1>0, <1>1 DEF RunState
<1> HIDE DEF s
<1>4. run' \in [Run -> RunState] /\ RunsAre'
  <2>1. CASE uses' = uses \cup {<<run[w].rel, m>>} /\ Becomes(w, s) /\ run'[w] = s
    <3>1. Progress(w)'
      <4>1. \A q \in Release : Complete(q) => Complete(q)'
        BY <1>2, CompleteStays
      <4>2. Approved(run[w].asOf)' = Approved(run[w].asOf) /\ now' = now
            /\ Approved(run[w].asOf) \subseteq Release
        BY <1>1, <1>3, <2>1 DEF Approved, source
      <4> QED BY <1>0, <1>1, <1>3, <2>1, <4>1, <4>2 DEF Progress, Listed, AtHand
    <3>2. Hand(w)'
      <4>1. run[w].rel \in Held'
        BY <1>0, <1>1, <1>2 DEF Hand, Gains
      <4>2. \A k \in Pins[run[w].rel] :
              k \in s.pins \/ (k \in models' /\ <<run[w].rel, k>> \in uses')
        BY <1>0, <1>1, <1>2, <1>3, <2>1 DEF Hand, Gains
      <4> QED BY <1>3, <2>1, <4>1, <4>2 DEF Hand
    <3> QED BY <1>0, <1>2, <1>3, <2>1, <3>1, <3>2, OneSteps
  <2>2. CASE UNCHANGED <<uses, run>>
    BY <1>0, <1>2, <2>2, RunStays DEF RunsAre
  <2> QED BY <1>1, <2>1, <2>2
<1>5. TypeOK'
  BY <1>0, <1>1, <1>4 DEF TypeOK, source
<1>6. CIsAre' /\ CursorIsApplied'
  BY <1>0, <1>1, <1>2, PastStays
<1> QED BY <1>4, <1>5, <1>6

\* The cursor moves when the whole snapshot is complete, and only forward.
LEMMA AdvancingSteps ==
  ASSUME SyncIInv, NEW w \in Run, Advance(w)
  PROVE  TypeOK' /\ RunsAre' /\ CIsAre' /\ CursorIsApplied' /\ cursor' >= cursor
<1>0. /\ TypeOK /\ RunsAre /\ CIsAre /\ CursorIsApplied /\ run[w] \in RunState /\ Progress(w)
      /\ now \in Time /\ run \in [Run -> RunState] /\ Idle \in RunState
      /\ run[w].asOf \in Time /\ cursor \in 0 .. now
  BY StatesAre DEF SyncIInv, TypeOK, RunsAre, RunState
<1>1. /\ run[w].at = "next" /\ run[w].late /\ Becomes(w, Idle) /\ run'[w] = Idle
      /\ UNCHANGED <<source, inventory, stalled, failures>>
      /\ cursor' = cursor \/ (cursor' = run[w].asOf /\ run[w].asOf >= cursor)
  BY <1>0 DEF Advance, AllDone, Becomes, Advances
<1>2. Gains
  BY <1>0, <1>1 DEF Gains, source, inventory, Time, Held
<1>3. run' \in [Run -> RunState] /\ RunsAre'
  BY <1>0, <1>1, <1>2, IdleIsKnown, OneSteps
<1>4. run[w].asOf <= now
  BY <1>0, <1>1 DEF Progress, Listed
<1>5. cursor' >= cursor /\ cursor' \in 0 .. now'
  BY <1>0, <1>1, <1>4 DEF source, Time
<1>6. TypeOK'
  BY <1>0, <1>1, <1>3, <1>5 DEF TypeOK, source, inventory
<1>7. CIsAre'
  BY <1>0, <1>1, <1>2, PastStays DEF inventory
<1>8. CursorIsApplied'
  <2>1. CASE cursor' = cursor
    BY <1>0, <1>1, <1>2, <2>1, PastStays DEF inventory
  <2>2. CASE cursor' = run[w].asOf
    <3>1. \A r \in Approved(run[w].asOf) : Complete(r)
      BY <1>0, <1>1 DEF Progress, Listed
    <3> QED BY <1>1, <2>2, <3>1 DEF CursorIsApplied, Approved, Complete, source, inventory, Held
  <2> QED BY <1>1, <2>1, <2>2
<1> QED BY <1>3, <1>5, <1>6, <1>7, <1>8

\* What a run does between the cursor and the end.
Works(w) ==
  \/ ListHeld(w) \/ Look(w) \/ Write(w) \/ Pinned(w)
  \/ \E r \in Release : TakeListed(w, r) \/ \E t \in Time : Fetch(w, r, t)
  \/ \E m \in Model : Pin(w, m)

LEMMA WorkingSteps ==
  ASSUME run \in [Run -> RunState], NEW w \in Run, Works(w)
  PROVE  /\ UNCHANGED <<cursor, stalled, failures>> /\ Begun(w) /\ Begun(w)'
         /\ run'[w].asOf = run[w].asOf /\ \A v \in Run : v # w => run'[v] = run[v]
<1>0. run[w] \in RunState /\ run \in [Run -> RunState]
  OBVIOUS
<1>1. Works(w)
  OBVIOUS
<1>2. UNCHANGED <<cursor, stalled, failures>> /\ Begun(w)
  BY DEF Works, ListHeld, Look, Write, Pinned, TakeListed, Fetch, Pin, Begun
<1>3. \A v \in Run : v # w => run'[v] = run[v]
  BY DEF Works, ListHeld, Look, Write, Pinned, TakeListed, Fetch, Pin, Becomes
<1>4. run'[w].asOf = run[w].asOf /\ Begun(w)'
  <2>1. CASE ListHeld(w)
    BY <1>0, <2>1 DEF ListHeld, Becomes, RunState, Begun
  <2>2. CASE Look(w)
    BY <1>0, <2>2 DEF Look, Becomes, RunState, Begun
  <2>3. CASE Write(w)
    BY <1>0, <2>3 DEF Write, Becomes, RunState, Begun
  <2>4. CASE Pinned(w)
    BY <1>0, <2>4 DEF Pinned, Becomes, RunState, Begun
  <2>5. ASSUME NEW r \in Release, TakeListed(w, r) PROVE run'[w].asOf = run[w].asOf /\ Begun(w)'
    BY <1>0, <2>5 DEF TakeListed, Becomes, RunState, Begun
  <2>6. ASSUME NEW r \in Release, NEW t \in Time, Fetch(w, r, t)
        PROVE  run'[w].asOf = run[w].asOf /\ Begun(w)'
    <3>1. \/ run'[w] = [run[w] EXCEPT !.at = "look", !.rel = r, !.status = Applied(c4[t][r]),
                                     !.todo = @ \ {r}]
          \/ run'[w] = [run[w] EXCEPT !.todo = @ \ {r}]
      BY <1>0, <2>6 DEF Fetch, Becomes
    <3>2. run[w].at = "next"
      BY <2>6 DEF Fetch
    <3> QED BY <1>0, <3>1, <3>2 DEF RunState, Begun
  <2>7. ASSUME NEW m \in Model, Pin(w, m) PROVE run'[w].asOf = run[w].asOf /\ Begun(w)'
    BY <1>0, <2>7 DEF Pin, Becomes, RunState, Begun
  <2> QED BY <1>1, <2>1, <2>2, <2>3, <2>4, <2>5, <2>6, <2>7 DEF Works
<1> QED BY <1>2, <1>3, <1>4

\* As long as nothing stalls there is one run, which passed the cursor.
LEMMA AloneStays ==
  ASSUME SyncIInv, NEW w \in Run, Begin(w) \/ Fail(w) \/ Proceed(w) \/ \E t \in Time : List(w, t)
  PROVE  Alone'
<1>0. run \in [Run -> RunState] /\ run[w] \in RunState /\ Alone /\ TypeOK /\ cursor \in Nat
  BY DEF SyncIInv, TypeOK
<1>1. CASE Begin(w)
  <2>1. /\ run'[w].at = "list" /\ \A v \in Run : v # w => run'[v] = run[v]
        /\ run[w].at = "idle" /\ cursor' = cursor
        /\ ~stalled' => ~stalled /\ \A v \in Run : run[v].at = "idle"
    BY <1>0, <1>1 DEF Begin, Becomes, RunState
  <2> QED BY <1>0, <2>1 DEF Alone, Begun
<1>2. CASE ReadCursor(w)
  <2>1. /\ \A v \in Run : v # w => run'[v] = run[v]
        /\ run'[w].at = "idle" \/ (run'[w].asOf = run[w].asOf /\ run[w].asOf >= cursor)
        /\ run[w].at = "cursor" /\ cursor' = cursor /\ stalled' = stalled
    <3>1. /\ run[w].asOf \in Nat /\ [run[w] EXCEPT !.at = "next"].asOf = run[w].asOf
          /\ Idle.at = "idle"
      BY <1>0 DEF RunState, Time, Idle
    <3> QED BY <1>0, <1>2, <3>1 DEF ReadCursor, Becomes, Stale
  <2> QED BY <1>0, <2>1 DEF Alone, Begun
<1>3. CASE Advance(w) \/ Fail(w)
  <2>1. /\ \A v \in Run : v # w => run'[v] = run[v]
        /\ run'[w].at = "idle" /\ run[w].at # "idle" /\ stalled' = stalled
    BY <1>0, <1>3 DEF Advance, AllDone, Fail, Becomes, Idle
  <2> QED BY <1>0, <2>1 DEF Alone, Begun
<1>4. CASE Works(w)
  BY <1>0, <1>4, WorkingSteps DEF Alone, Begun
<1>5. CASE \E t \in Time : List(w, t)
  <2>1. /\ \A v \in Run : v # w => run'[v] = run[v]
        /\ run'[w].at = "cursor" /\ run[w].at = "list" /\ stalled' = stalled /\ cursor' = cursor
    BY <1>0, <1>5 DEF List, Becomes, RunState
  <2> QED BY <1>0, <2>1 DEF Alone, Begun
<1> QED BY <1>1, <1>2, <1>3, <1>4, <1>5 DEF Proceed, Works

LEMMA SyncSteps ==
  ASSUME SyncIInv, [Next]_vars
  PROVE  SyncIInv' /\ cursor' >= cursor
<1>0. TypeOK /\ cursor \in Nat
  BY DEF SyncIInv, TypeOK
<1>1. ASSUME NEW r \in Release, NEW s \in Status, Publish(r, s) PROVE SyncIInv' /\ cursor' >= cursor
  <2>1. cursor' = cursor
    BY <1>1 DEF Publish
  <2> QED BY <1>0, <1>1, <2>1, PublishingSteps
<1>2. ASSUME NEW w \in Run,
             Begin(w) \/ Fail(w) \/ Proceed(w) \/ \E t \in Time : List(w, t)
      PROVE  SyncIInv' /\ cursor' >= cursor
  <2>1. Alone'
    BY <1>2, AloneStays
  <2>2. CASE Write(w)
    <3>1. cursor' = cursor
      BY <2>2 DEF Write
    <3> QED BY <1>0, <2>1, <2>2, <3>1, WritingSteps DEF SyncIInv
  <2>3. CASE Advance(w)
    BY <2>1, <2>3, AdvancingSteps DEF SyncIInv
  <2>4. CASE \E m \in Model : Pin(w, m)
    <3>1. cursor' = cursor
      BY <2>4 DEF Pin
    <3> QED BY <1>0, <2>1, <2>4, <3>1, PinningSteps DEF SyncIInv
  <2>5. CASE \/ Begin(w) \/ Fail(w) \/ ReadCursor(w) \/ ListHeld(w) \/ Look(w) \/ Pinned(w)
             \/ \E r \in Release : TakeListed(w, r) \/ \E t \in Time : Fetch(w, r, t)
             \/ \E t \in Time : List(w, t)
    <3>1. run' \in [Run -> RunState] /\ RunsAre'
      BY <2>5, ReadingSteps
    <3>2. UNCHANGED <<source, inventory, cursor>> /\ stalled' \in BOOLEAN
          /\ failures' \in 0 .. MaxFailures
      <4>1. stalled \in BOOLEAN /\ failures \in 0 .. MaxFailures /\ MaxFailures \in Nat
        BY <1>0, SyncAssumption DEF TypeOK
      <4>2. CASE Fail(w)
        BY <4>1, <4>2 DEF Fail
      <4>3. CASE \/ Begin(w) \/ ReadCursor(w) \/ ListHeld(w) \/ Look(w) \/ Pinned(w)
                 \/ \E r \in Release : TakeListed(w, r) \/ \E t \in Time : Fetch(w, r, t)
                 \/ \E t \in Time : List(w, t)
        BY <4>1, <4>3 DEF Begin, ReadCursor, ListHeld, Look, Pinned, TakeListed, Fetch, List
      <4> QED BY <2>5, <4>2, <4>3
    <3>3. TypeOK'
      BY <1>0, <3>1, <3>2 DEF TypeOK, source, inventory
    <3>4. CIsAre' /\ CursorIsApplied'
      BY <3>2 DEF SyncIInv, CIsAre, CursorIsApplied, Given, Held, source, inventory
    <3> QED BY <1>0, <2>1, <3>1, <3>2, <3>3, <3>4 DEF SyncIInv
  <2> QED BY <1>2, <2>2, <2>3, <2>4, <2>5 DEF Proceed
<1>3. CASE UNCHANGED vars
  <2>1. SyncIInv'
    BY <1>3
    DEF vars, SyncIInv, TypeOK, RunsAre, Progress, Hand, Listed, AtHand, Begun, Approved, Complete,
        Given, CIsAre, CursorIsApplied, Alone, Held
  <2> QED BY <1>0, <1>3, <2>1 DEF vars
<1> QED BY <1>1, <1>2, <1>3 DEF Next

\* As long as no run stalled or failed, what is newer than the cursor is the work of a run
\* that is still at it.
Fresh ==
  ~stalled /\ failures = 0 =>
    \A r \in Release :
      cis[r].asOf <= cursor \/ \E w \in Run : Begun(w) /\ cis[r].asOf <= run[w].asOf

LEMMA FreshStays ==
  ASSUME SyncIInv, Fresh, [Next]_vars PROVE Fresh'
<1>0. /\ TypeOK /\ Alone /\ run \in [Run -> RunState] /\ cursor \in Nat /\ failures \in Nat
      /\ \A r \in Release : cis[r] \in CI /\ cis[r].asOf \in Nat
      /\ \A w \in Run : run[w] \in RunState /\ run[w].asOf \in Nat
  BY DEF SyncIInv, TypeOK, CI, RunState, Time
<1>1. ASSUME NEW w \in Run, Works(w) PROVE Fresh'
  <2>1. /\ UNCHANGED <<cursor, stalled, failures>> /\ Begun(w) /\ Begun(w)'
        /\ run'[w].asOf = run[w].asOf /\ \A v \in Run : v # w => run'[v] = run[v]
    BY <1>0, <1>1, WorkingSteps
  <2>2. \A v \in Run : Begun(v) => Begun(v)' /\ run'[v].asOf = run[v].asOf
    BY <2>1 DEF Begun
  <2>3. \A r \in Release : cis'[r] = cis[r] \/ cis'[r].asOf = run[w].asOf
    <3>1. cis' = cis \/ Write(w)
      BY <1>1 DEF Works, ListHeld, Look, Pinned, TakeListed, Fetch, Pin, inventory
    <3> QED BY <1>0, <3>1 DEF Write, TypeOK
  <2> QED BY <1>0, <2>1, <2>2, <2>3 DEF Fresh
<1>2. ASSUME NEW w \in Run, Advance(w) PROVE Fresh'
  <2> SUFFICES ASSUME ~stalled, failures = 0, NEW r \in Release PROVE cis[r].asOf <= cursor'
    BY <1>2 DEF Fresh, Advance, inventory
  <2>1. Begun(w) /\ run[w].at # "idle"
    BY <1>2 DEF Advance, AllDone, Begun
  <2>2. run[w].asOf >= cursor /\ \A v \in Run : Begun(v) => v = w
    BY <2>1 DEF SyncIInv, Alone, Begun
  <2>3. cursor' = run[w].asOf
    BY <1>2, <2>2 DEF Advance, Advances
  <2> QED BY <1>0, <2>2, <2>3 DEF Fresh
<1>3. ASSUME NEW w \in Run, Fail(w) PROVE Fresh'
  BY <1>0, <1>3 DEF Fresh, Fail
<1>4. ASSUME NEW w \in Run, Begin(w) \/ ReadCursor(w) \/ \E t \in Time : List(w, t) PROVE Fresh'
  <2>1. UNCHANGED <<cis, cursor, failures>> /\ ~Begun(w) /\ (~stalled' => ~stalled)
    <3>1. UNCHANGED <<cis, cursor, failures>> /\ ~Begun(w)
      BY <1>4 DEF Begin, ReadCursor, List, Begun, inventory
    <3>2. CASE Begin(w)
      BY <3>1, <3>2 DEF Begin
    <3>3. CASE ReadCursor(w) \/ \E t \in Time : List(w, t)
      <4>1. stalled' = stalled
        BY <3>3 DEF ReadCursor, List
      <4> QED BY <3>1, <4>1
    <3> QED BY <1>4, <3>1, <3>2, <3>3
  <2>2. \A v \in Run : v # w => run'[v] = run[v]
    BY <1>0, <1>4 DEF Begin, ReadCursor, List, Becomes
  <2>3. \A v \in Run : Begun(v) => Begun(v)' /\ run'[v].asOf = run[v].asOf
    BY <2>1, <2>2 DEF Begun
  <2> QED BY <2>1, <2>3 DEF Fresh
<1>5. ASSUME UNCHANGED <<cis, cursor, stalled, failures, run>> PROVE Fresh'
  BY <1>5 DEF Fresh, Begun
<1> QED BY <1>1, <1>2, <1>3, <1>4, <1>5 DEF Next, Proceed, Works, Publish, vars, inventory

LEMMA FreshIsInvariant == Spec => [](SyncIInv /\ Fresh)
<1>1. Init => SyncIInv /\ Fresh
  BY Begins DEF Init, Fresh, NoCI
<1>2. SyncIInv /\ Fresh /\ [Next]_vars => (SyncIInv /\ Fresh)'
  BY SyncSteps, FreshStays
<1> QED BY <1>1, <1>2, PTL DEF Spec

-----------------------------------------------------------------------------
(* What the sync promises.                                                 *)

LEMMA SyncIsInvariant == Spec => []SyncIInv
BY Begins, SyncSteps, PTL DEF Spec

\* What C4 had approved at the cursor is in the inventory, whole, and every status in the
\* inventory is one C4 gave, at the CI's as-of or later.
THEOREM CursorIsTrue == Spec => []AiSyncInv
<1>1. SyncIInv => StatusIsC4s
  BY DEF SyncIInv, CIsAre, Given, Held, StatusIsC4s
<1>2. SyncIInv => AiSyncInv
  BY <1>1 DEF SyncIInv, AiSyncInv
<1> QED BY <1>2, SyncIsInvariant, PTL

\* The cursor never goes back, in whatever order runs finish.
THEOREM CursorGoesOn == Spec => CursorOnlyAdvances
<1>1. SyncIInv /\ [Next]_vars => [cursor' >= cursor]_vars
  BY SyncSteps
<1> QED BY <1>1, SyncIsInvariant, PTL DEF Spec, CursorOnlyAdvances

\* Unless a job stalled, no listing older than the cursor brings a retired release back; and
\* unless a run failed, none older than that which retired it.
THEOREM CursorHolds == Spec => CursorHoldsAgainstLag
<1>1. SyncIInv /\ Fresh /\ [Next]_vars
        => [\A r \in Release : ~stalled /\ Undone(r) =>
              /\ cis'[r].asOf >= cursor
              /\ failures = 0 => cis'[r].asOf >= cis[r].asOf]_vars
  <2> SUFFICES ASSUME SyncIInv, Fresh, Next, NEW r \in Release, ~stalled, Undone(r)
               PROVE  /\ cis'[r].asOf >= cursor
                      /\ failures = 0 => cis'[r].asOf >= cis[r].asOf
    OBVIOUS
  <2>1. cis'[r] # cis[r]
    BY DEF Undone
  <2>2. PICK w \in Run : Write(w)
    BY <2>1
    DEF Next, Publish, Begin, Fail, Proceed, ReadCursor, ListHeld, Look, Pinned, Advance, TakeListed,
        Fetch, Pin, List, inventory
  <2>3. cis'[r] = [status |-> run[w].status, asOf |-> run[w].asOf] /\ Begun(w)
    BY <2>1, <2>2 DEF Write, Begun, SyncIInv, TypeOK
  <2>4. run[w].asOf >= cursor /\ \A v \in Run : Begun(v) => v = w
    BY <2>3 DEF SyncIInv, Alone, Begun
  <2>5. run[w].asOf \in Nat /\ cis[r].asOf \in Nat /\ cursor \in Nat
    BY DEF SyncIInv, TypeOK, CI, RunState, Time
  <2> QED BY <2>3, <2>4, <2>5 DEF Fresh
<1> QED BY <1>1, FreshIsInvariant, PTL DEF Spec, CursorHoldsAgainstLag
=============================================================================
