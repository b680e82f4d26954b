------------------------------- MODULE AiSync -------------------------------
(***************************************************************************)
(* The sync of one organization's HappyLab C4 releases into its inventory  *)
(* (syncC4Releases, c4-release-sync.ts).                                   *)
(*                                                                         *)
(* C4 is external: a sequence of snapshots, of which a listing may serve   *)
(* an old one.  A run lists a snapshot's approved releases, compares its   *)
(* as-of with the stored cursor, applies every listed release, then every  *)
(* held release the list left out by its own status, and at the end moves  *)
(* the cursor.  It may fail or die at any step, and when its job stalls a  *)
(* second run starts beside it.                                            *)
(*                                                                         *)
(* A write of a CI or a relationship is one step: Journal keeps it alone   *)
(* on its CI until its outcome is known.                                   *)
(***************************************************************************)
EXTENDS Naturals, FiniteSets

CONSTANTS
  Release,     \* release digests
  Model,       \* pinned models
  Pins,        \* the models a release pins (the digest fixes them)
  Run,         \* runs that may be active at one time
  MaxTime,     \* bound: the last snapshot
  MaxFailures  \* bound: failed or killed runs

Status == {"absent", "approved", "revoked", "other"}
Time   == 0 .. MaxTime

ASSUME SyncAssumption ==
  /\ Release # {} /\ Pins \in [Release -> SUBSET Model]
  /\ MaxTime \in Nat /\ MaxFailures \in Nat

VARIABLES
  c4,       \* external: the snapshots C4 has had
  now,      \* the newest of them
  cis,      \* agent-release CIs: the status applied last and its c4_as_of
  models,   \* ai-model CIs
  uses,     \* USES relationships
  cursor,   \* ai_sync_cursors.as_of; 0 before the first success
  run,      \* the runs
  stalled,  \* a stalled job has been taken over while its run went on
  failures

vars      == <<c4, now, cis, models, uses, cursor, run, stalled, failures>>
inventory == <<cis, models, uses>>
source    == <<c4, now>>

NoCI == [status |-> "absent", asOf |-> 0]
CI   == [status : {"absent", "approved", "revoked"}, asOf : Time]

\* `fetched' is the release at hand with its status, `existing' the CI read for it.
RunState ==
  [at : {"idle", "list", "cursor", "next", "fetch", "look", "write", "pins"}, asOf : Time,
   seen : SUBSET Release, todo : SUBSET Release, late : BOOLEAN,
   rel : Release, status : Status, existing : CI, pins : SUBSET Model]

TypeOK ==
  /\ c4 \in [Time -> [Release -> Status]] /\ now \in Time
  /\ cis \in [Release -> CI] /\ models \subseteq Model /\ uses \subseteq Release \X Model
  /\ cursor \in 0 .. now /\ failures \in 0 .. MaxFailures
  /\ stalled \in BOOLEAN /\ run \in [Run -> RunState]

Idle == [at |-> "idle", asOf |-> 0, seen |-> {}, todo |-> {}, late |-> FALSE,
         rel |-> CHOOSE r \in Release : TRUE, status |-> "absent", existing |-> NoCI, pins |-> {}]

Held == {r \in Release : cis[r] # NoCI}

Init ==
  /\ c4 = [t \in Time |-> [r \in Release |-> "absent"]] /\ now = 0
  /\ cis = [r \in Release |-> NoCI] /\ models = {} /\ uses = {}
  /\ cursor = 0 /\ stalled = FALSE /\ failures = 0
  /\ run = [w \in Run |-> Idle]

-----------------------------------------------------------------------------
\* A release of C4 changes.
Publish(r, s) ==
  /\ now < MaxTime /\ c4[now][r] # s
  /\ now' = now + 1
  /\ c4' = [c4 EXCEPT ![now + 1] = [c4[now] EXCEPT ![r] = s]]
  /\ UNCHANGED <<inventory, cursor, run, stalled, failures>>

Becomes(w, state) == run' = [run EXCEPT ![w] = state]

\* The job of the organization has one run at a time, unless it stalls.
Begin(w) ==
  /\ run[w].at = "idle"
  /\ Becomes(w, [run[w] EXCEPT !.at = "list"])
  /\ stalled' = (stalled \/ \E v \in Run : run[v].at # "idle")
  /\ UNCHANGED <<source, inventory, cursor, failures>>

\* listApproved: all pages of one snapshot, `t'.
List(w, t) ==
  /\ run[w].at = "list" /\ t <= now
  /\ LET approved == {r \in Release : c4[t][r] = "approved"}
     IN  Becomes(w, [run[w] EXCEPT !.at = "cursor", !.asOf = t, !.seen = approved,
                                   !.todo = approved])
  /\ UNCHANGED <<source, inventory, cursor, stalled, failures>>

\* Mutant: the as-of is not compared.
NeverStale(w) == FALSE

Stale(w) == run[w].asOf < cursor

\* The stored cursor, read once before anything is applied.
ReadCursor(w) ==
  /\ run[w].at = "cursor"
  /\ Becomes(w, IF Stale(w) THEN Idle ELSE [run[w] EXCEPT !.at = "next"])
  /\ UNCHANGED <<source, inventory, cursor, stalled, failures>>

\* apply, for a listed release.
TakeListed(w, r) ==
  /\ run[w].at = "next" /\ ~run[w].late /\ r \in run[w].todo
  /\ Becomes(w, [run[w] EXCEPT !.at = "look", !.rel = r, !.status = "approved", !.todo = @ \ {r}])
  /\ UNCHANGED <<source, inventory, cursor, stalled, failures>>

\* heldKeys, once the list is applied.
ListHeld(w) ==
  /\ run[w].at = "next" /\ ~run[w].late /\ run[w].todo = {}
  /\ Becomes(w, [run[w] EXCEPT !.late = TRUE, !.seen = {}, !.todo = Held \ run[w].seen])
  /\ UNCHANGED <<source, inventory, cursor, stalled, failures>>

\* Mutant: a release that C4 no longer serves counts as revoked.
GoneIsRevoked(s) == IF s = "absent" THEN "revoked" ELSE s

Applied(s) == s

\* Any other status is passed over.
Applicable == {"approved", "revoked"}

\* getRelease of a held release: no older than the listing.
Fetch(w, r, t) ==
  /\ run[w].at = "next" /\ run[w].late /\ r \in run[w].todo
  /\ t \in run[w].asOf .. now
  /\ LET s == Applied(c4[t][r])
     IN  Becomes(w, IF s \in Applicable
                    THEN [run[w] EXCEPT !.at = "look", !.rel = r, !.status = s, !.todo = @ \ {r}]
                    ELSE [run[w] EXCEPT !.todo = @ \ {r}])
  /\ UNCHANGED <<source, inventory, cursor, stalled, failures>>

\* upsert reads the CI first.
Look(w) ==
  /\ run[w].at = "look"
  /\ Becomes(w, [run[w] EXCEPT !.at = "write", !.existing = cis[run[w].rel]])
  /\ UNCHANGED <<source, inventory, cursor, stalled, failures>>

\* Mutant: an existing CI is taken as it is, whatever its status.
SameIfHeld(w) == run[w].existing # NoCI

\* Every field but the as-of stamp is the same.
Same(w) == run[w].existing.status = run[w].status

\* upsert creates, updates or leaves the release's CI.  A creation that finds the
\* CI made meanwhile becomes its update.
Write(w) ==
  /\ run[w].at = "write"
  /\ cis' = IF Same(w) THEN cis
            ELSE [cis EXCEPT ![run[w].rel] = [status |-> run[w].status, asOf |-> run[w].asOf]]
  /\ Becomes(w, [run[w] EXCEPT !.at = "pins", !.existing = NoCI, !.pins = Pins[run[w].rel]])
  /\ UNCHANGED <<source, models, uses, cursor, stalled, failures>>

\* The upsert and the link of one pinned model.
Pin(w, m) ==
  /\ run[w].at = "pins" /\ m \in run[w].pins
  /\ models' = models \cup {m}
  /\ \/ uses' = uses \cup {<<run[w].rel, m>>} /\ Becomes(w, [run[w] EXCEPT !.pins = @ \ {m}])
     \/ m \notin models /\ UNCHANGED <<uses, run>>
  /\ UNCHANGED <<source, cis, cursor, stalled, failures>>

Pinned(w) ==
  /\ run[w].at = "pins" /\ run[w].pins = {}
  /\ Becomes(w, [run[w] EXCEPT !.at = "next", !.rel = Idle.rel, !.status = Idle.status])
  /\ UNCHANGED <<source, inventory, cursor, stalled, failures>>

Advances(w) == run[w].asOf >= cursor

\* Mutant: the cursor moves once the list is read.
ListDone(w) == run[w].at = "next"

AllDone(w) == run[w].at = "next" /\ run[w].late /\ run[w].todo = {}

Advance(w) ==
  /\ AllDone(w)
  /\ cursor' = IF Advances(w) THEN run[w].asOf ELSE cursor
  /\ Becomes(w, Idle)
  /\ UNCHANGED <<source, inventory, stalled, failures>>

\* A C4 error, recorded with the cursor left as it is; any other error; a crash.
Fail(w) ==
  /\ run[w].at # "idle" /\ failures < MaxFailures
  /\ failures' = failures + 1
  /\ Becomes(w, Idle)
  /\ UNCHANGED <<source, inventory, cursor, stalled>>

-----------------------------------------------------------------------------
Proceed(w) ==
  \/ ReadCursor(w) \/ ListHeld(w) \/ Look(w) \/ Write(w) \/ Pinned(w) \/ Advance(w)
  \/ \E r \in Release : TakeListed(w, r) \/ \E t \in Time : Fetch(w, r, t)
  \/ \E m \in Model : Pin(w, m)

Next ==
  \/ \E r \in Release, s \in Status : Publish(r, s)
  \/ \E w \in Run : \/ Begin(w) \/ Fail(w) \/ Proceed(w)
                    \/ \E t \in Time : List(w, t)

Spec == Init /\ [][Next]_vars

\* The fan-out enqueues the job again and again, a run that does not fail goes on,
\* and C4 does not serve old snapshots forever.
Fairness ==
  /\ WF_vars(\E w \in Run : Begin(w))
  /\ SF_vars(\E w \in Run : List(w, now))
  /\ \A w \in Run : WF_vars(Proceed(w)) /\ WF_vars(\E t \in Time : List(w, t))

FairSpec == Spec /\ Fairness

-----------------------------------------------------------------------------
(* Properties.                                                             *)

\* "advances only after every release was applied": what C4 had approved at the
\* cursor is in the inventory, with its models and their relationships, whatever
\* runs failed or overlapped.
CursorIsApplied ==
  \A r \in Release : c4[cursor][r] = "approved" =>
    /\ r \in Held
    /\ Pins[r] \subseteq models /\ \A m \in Pins[r] : <<r, m>> \in uses

\* "only an explicit `revoked` retires one": a CI's status is one C4 gave its release
\* at the CI's as-of or later.
StatusIsC4s ==
  \A r \in Held : \E t \in cis[r].asOf .. now : c4[t][r] = cis[r].status

AiSyncInv == TypeOK /\ CursorIsApplied /\ StatusIsC4s

\* "a run that read an older snapshot than the stored one changes nothing": the
\* cursor never goes back, in whatever order runs finish.
CursorOnlyAdvances == [][cursor' >= cursor]_vars

Undone(r) == cis[r].status = "revoked" /\ cis'[r].status = "approved"

\* "A lagging C4 serving an older snapshot than the one already applied must not undo it":
\* as long as no job stalled, a retired release comes back only by a snapshot no older than
\* the cursor, whatever listings lag and runs fail, and as long as none failed, by one no
\* older than that which retired it.  (A run that failed half-way left the cursor behind:
\* a snapshot between the two may still undo what it did.)
CursorHoldsAgainstLag ==
  [][\A r \in Release : ~stalled /\ Undone(r) =>
       /\ cis'[r].asOf >= cursor
       /\ failures = 0 => cis'[r].asOf >= cis[r].asOf]_vars

\* Once C4 and the failures are at rest, the inventory comes to agree with C4 and
\* stays so, even when a stalled run undoes a newer one.
Agrees ==
  \A r \in Release :
    /\ c4[now][r] = "approved" => cis[r].status = "approved"
    /\ c4[now][r] = "revoked" => cis[r].status # "approved"

Converges == <>[]Agrees
=============================================================================
