------------------------------- MODULE Journal -------------------------------
(***************************************************************************)
(* The journaled write of packages/database/src/journal/journal.ts: one    *)
(* change of a configuration item (CI) that must reach two stores, the     *)
(* graph (Neo4j) and the evidence tables (PostgreSQL), although no         *)
(* transaction spans them.                                                 *)
(*                                                                         *)
(*   T1   reserve one journal row per CI (unique while pending or failed)  *)
(*   plan read the graph under the reservation                             *)
(*   T1b  store the plan and renew the lease                               *)
(*   W    one graph statement: the change and one `applied' fence per row  *)
(*   T2   write evidence and audit, mark the group committed               *)
(*                                                                         *)
(* A sweeper recovers a row whose lease lapsed: it claims the row, MERGEs  *)
(* its fence (creating it as `aborted' if W has not landed) and decides.   *)
(*                                                                         *)
(* A CI stands for one (organization, ci_id) key.  A group is one call of  *)
(* run(); an op is one of its journal rows.  Leases are abstracted to      *)
(* "lapsed or not": a lease may lapse at any moment, so nothing proved     *)
(* here depends on the 30, 20, 10 and 5 second constants of the code.      *)
(***************************************************************************)
EXTENDS Integers, FiniteSets

CONSTANTS
  Group,        \* the calls of run()
  Op,           \* the journal rows those calls may insert
  CI,           \* the (organization, ci_id) keys
  GroupOf,      \* group_id of a row
  CiOf,         \* ci_id of a row
  Sweeper,      \* the processes running startJournalSweeper
  Plans,        \* the kinds of plan the writers produce
  MaxInflight,  \* MAX_INFLIGHT_PER_ORG
  None

ASSUME JournalAssumption ==
  /\ GroupOf \in [Op -> Group]
  /\ CiOf \in [Op -> CI]
  /\ \A g \in Group : \E o \in Op : GroupOf[o] = g
  /\ \A o, p \in Op : GroupOf[o] = GroupOf[p] /\ CiOf[o] = CiOf[p] => o = p
  /\ Plans \subseteq {"write", "rekey", "hold", "settle"}
  /\ Group \cap Sweeper = {}
  /\ None \notin Group \cup Sweeper
  /\ MaxInflight \in Nat

\* A sweep is identified by its claim token: one per sweeper process, and one
\* per run() for the sweep its reservation starts on an expired holder.
Worker == Sweeper \cup Group

\* "rekey" is a stored update or restore that sets external_id; "hold" and
\* "settle" (accept_target, dismiss_stale) have no graph statement.
GraphPlans == {"write", "rekey"}
PlanValue  == {"null", "write", "rekey", "hold", "settle"}
Operation  == {"asked", "hold"}

VARIABLES
  ops,       \* table ci_reconciliation_operations
  epoch,     \* ci_reconciliation_epochs.epoch of the organization
  audit,     \* audit_log rows appended for each journal row
  recorded,  \* the last graph-changing group whose evidence names the CI
  fence,     \* the :ReconciliationOp node of each row
  graph,     \* the last group whose W changed the CI in the graph
  w,         \* each group's W on its way to and in Neo4j
  late,      \* recovery MERGEs whose caller gave up, still able to land
  pc,        \* where each run() is, or how it ended
  holders,   \* expired holders a reservation still has to recover
  todo,      \* rows a sweep has claimed and not looked at
  deciding   \* the row a sweep has fenced and not decided (at most one)

pgVars    == <<ops, epoch, audit, recorded>>
neoVars   == <<fence, graph, w, late>>
sweepVars == <<todo, deciding>>
vars      == <<pgVars, neoVars, pc, holders, sweepVars>>

RowState == {"none", "pending", "committed", "aborted", "failed"}
Row      == [state: RowState, plan: PlanValue, effect: BOOLEAN,
             operation: Operation, claim: Worker \cup {None}, lapsed: BOOLEAN]
Fence    == [outcome: {"none", "applied", "aborted"}, operation: Operation]
\* What a claim's RETURNING clause hands to the sweep.
Claimed  == [op: Op, plan: PlanValue, effect: BOOLEAN, operation: Operation]
Decision == [row: Claimed, heard: {"applied", "aborted", "mismatch"}]
WState   == {"unsent", "inflight", "applied", "refused", "missing"}
Running  == {"reserve", "clash", "recover", "retry", "planning", "late",
             "planned", "sent", "written", "done"}
Ended    == {"ok", "gap", "refused", "declined", "aborted", "missing", "unproven"}

TypeOK ==
  /\ ops \in [Op -> Row]
  /\ epoch \in Nat
  /\ audit \in [Op -> Nat]
  /\ recorded \in [CI -> Group \cup {None}]
  /\ fence \in [Op -> Fence]
  /\ graph \in [CI -> Group \cup {None}]
  /\ w \in [Group -> WState]
  /\ late \subseteq [op: Op, operation: Operation]
  /\ pc \in [Group -> Running \cup Ended]
  /\ holders \in [Group -> SUBSET Op]
  /\ todo \in [Worker -> SUBSET Claimed]
  /\ deciding \in [Worker -> SUBSET Decision]

NoRow == [state |-> "none", plan |-> "null", effect |-> TRUE,
          operation |-> "asked", claim |-> None, lapsed |-> FALSE]

Init ==
  /\ ops = [o \in Op |-> NoRow]
  /\ epoch = 0
  /\ audit = [o \in Op |-> 0]
  /\ recorded = [c \in CI |-> None]
  /\ fence = [o \in Op |-> [outcome |-> "none", operation |-> "asked"]]
  /\ graph = [c \in CI |-> None]
  /\ w = [g \in Group |-> "unsent"]
  /\ late = {}
  /\ pc = [g \in Group |-> "reserve"]
  /\ holders = [g \in Group |-> {}]
  /\ todo = [v \in Worker |-> {}]
  /\ deciding = [v \in Worker |-> {}]

-----------------------------------------------------------------------------
(* The journal table.                                                      *)

Slots(g)   == {o \in Op : GroupOf[o] = g}
Pending(g) == {o \in Slots(g) : ops[o].state = "pending"}
Open(o)    == ops[o].state \in {"pending", "failed"}
Gap(c)     == \E o \in Op : CiOf[o] = c /\ Open(o)
\* Mutant: a row somebody has claimed is never claimed again.
LapsedUnclaimed(o) == ops[o].state = "pending" /\ ops[o].lapsed /\ ops[o].claim = None
Lapsed(o)  == ops[o].state = "pending" /\ ops[o].lapsed

\* Mutant: closing a row always drops its plan.
ClosedPlanless(S, s) ==
  [o \in Op |-> IF o \in S
                THEN [ops[o] EXCEPT !.state = s, !.claim = None, !.lapsed = FALSE,
                                    !.plan = "null"]
                ELSE ops[o]]

\* The rows of S reach state s; only a failed row keeps its plan, and a lease
\* means nothing outside state pending.
Closed(S, s) ==
  [o \in Op |-> IF o \in S
                THEN [ops[o] EXCEPT !.state = s, !.claim = None, !.lapsed = FALSE,
                                    !.plan = IF s = "failed" THEN @ ELSE "null"]
                ELSE ops[o]]

\* Mutant: abortGroup without its `state = pending'.
AbortWholeGroup(g) == ops' = Closed(Slots(g), "aborted")

\* abortGroup: every row of the group that is still pending.
AbortGroup(g) == ops' = Closed(Pending(g), "aborted")

\* Mutant: t2 takes any decided group for a committed one.
CommittedAny(g) == \A o \in Slots(g) : ops[o].state # "pending"

Committed(g) == \A o \in Slots(g) : ops[o].state = "committed"

\* Mutant: t2 writes its evidence again when the group is already committed.
T2ReadyAgain(g) == \A o \in Slots(g) : ops[o].state \in {"pending", "committed"}

\* t2 goes on only with every row of the group still pending and planned.
T2Ready(g) == \A o \in Slots(g) : ops[o].state = "pending" /\ ops[o].plan # "null"

\* T2: evidence, one audit row per slot, then every row committed.
Commit(g) ==
  /\ ops' = Closed(Slots(g), "committed")
  /\ audit' = [o \in Op |-> IF o \in Slots(g) THEN audit[o] + 1 ELSE audit[o]]
  /\ recorded' = [c \in CI |-> IF \E o \in Slots(g) : CiOf[o] = c /\ ops[o].effect
                               THEN g ELSE recorded[c]]
  /\ UNCHANGED epoch

-----------------------------------------------------------------------------
(* The claim of a sweep on expired rows (lease_expires_at + grace < now).  *)

IdleSweep(v) == todo[v] = {} /\ deciding[v] = {}

\* Mutant: recovery ignores graph_effect and fences every row.
ReturningAnyEffect(o) == [op |-> o, plan |-> ops[o].plan, effect |-> TRUE,
                          operation |-> ops[o].operation]

Returning(o) == [op |-> o, plan |-> ops[o].plan, effect |-> ops[o].effect,
                 operation |-> ops[o].operation]

Claim(v, S) ==
  /\ \A o \in S : Lapsed(o)
  /\ ops' = [o \in Op |-> IF o \in S THEN [ops[o] EXCEPT !.claim = v, !.lapsed = FALSE]
                          ELSE ops[o]]
  /\ todo' = [todo EXCEPT ![v] = {Returning(o) : o \in S}]

-----------------------------------------------------------------------------
(* T1: reserve the slots.                                                  *)

Moves(g, from, to) == pc[g] \in from /\ pc' = [pc EXCEPT ![g] = to]

Inflight     == Cardinality({o \in Op : Open(o)})

Full(g)      == Inflight + Cardinality(Slots(g)) > MaxInflight
Contended(g) == \E o \in Slots(g) : Gap(CiOf[o])

\* 503 before any row exists: the schema or audit gate, the cap, a lock timeout.
Refuse(g) ==
  /\ Moves(g, {"reserve", "retry"}, "refused")
  /\ UNCHANGED <<pgVars, neoVars, holders, sweepVars>>

Admit(g) ==
  /\ Moves(g, {"reserve", "retry"}, "planning")
  /\ ~Full(g) /\ ~Contended(g)
  /\ ops' = [o \in Op |-> IF o \in Slots(g) THEN [NoRow EXCEPT !.state = "pending"]
                          ELSE ops[o]]
  /\ epoch' = epoch + 1
  /\ UNCHANGED <<audit, recorded, neoVars, holders, sweepVars>>

\* The partial unique index refuses an insert (23505): T1 rolls back.  The first
\* time the holder is inspected; on the retry the caller gets the gap 409.
Clash(g) ==
  /\ ~Full(g) /\ Contended(g)
  /\ \/ Moves(g, {"reserve"}, "clash")
     \/ Moves(g, {"retry"}, "gap")
  /\ UNCHANGED <<pgVars, neoVars, holders, sweepVars>>

ExpiredHolders(g) == {o \in Op : Lapsed(o) /\ \E s \in Slots(g) : CiOf[s] = CiOf[o]}

Inspect(g) ==
  /\ Moves(g, {"clash"}, IF ExpiredHolders(g) = {} THEN "gap" ELSE "recover")
  /\ holders' = [holders EXCEPT ![g] = ExpiredHolders(g)]
  /\ UNCHANGED <<pgVars, neoVars, sweepVars>>

\* reserve: sweep(holder.id) for one holder at a time; a holder that is no
\* longer expired is claimed by nobody and that sweep returns at once.
RecoverHolder(g, o) ==
  /\ pc[g] = "recover" /\ IdleSweep(g) /\ o \in holders[g]
  /\ holders' = [holders EXCEPT ![g] = @ \ {o}]
  /\ IF Lapsed(o) THEN Claim(g, {o}) ELSE UNCHANGED <<ops, todo>>
  /\ UNCHANGED <<epoch, audit, recorded, neoVars, pc, deciding>>

Recovered(g) ==
  /\ IdleSweep(g) /\ holders[g] = {}
  /\ Moves(g, {"recover"}, "retry")
  /\ UNCHANGED <<pgVars, neoVars, holders, sweepVars>>

-----------------------------------------------------------------------------
(* The plan, T1b, W and T2 of a live run.                                  *)

\* plan() threw: the group is aborted and the caller told so.
PlanFails(g) ==
  /\ Moves(g, {"planning"}, "declined")
  /\ AbortGroup(g)
  /\ UNCHANGED <<epoch, audit, recorded, neoVars, holders, sweepVars>>

\* T1b updates the rows still pending; `sendable' needs all of them back, with
\* enough lease left.  Too late, it goes on to abort the group instead of W.
T1b(g, p) ==
  /\ ops' = [o \in Op |-> IF o \in Pending(g)
               THEN [ops[o] EXCEPT !.plan = p, !.effect = p \in GraphPlans, !.lapsed = FALSE,
                                   !.operation = IF p = "hold" THEN "hold" ELSE @]
               ELSE ops[o]]
  /\ \/ /\ Pending(g) = Slots(g)
        /\ Moves(g, {"planning"}, IF p \in GraphPlans THEN "planned" ELSE "written")
     \/ Moves(g, {"planning"}, "late")
  /\ UNCHANGED <<epoch, audit, recorded, neoVars, holders, sweepVars>>

SendW(g) ==
  /\ Moves(g, {"planned"}, "sent")
  /\ w' = [w EXCEPT ![g] = "inflight"]
  /\ UNCHANGED <<pgVars, fence, graph, late, holders, sweepVars>>

\* abortGroup after a late T1b, or after the definitive answers to W: a
\* constraint failure, or no fence created because the target is gone.
AbortRun(g) ==
  /\ \/ Moves(g, {"late"}, "unproven")
     \/ w[g] = "refused" /\ Moves(g, {"sent"}, "aborted")
     \/ w[g] = "missing" /\ Moves(g, {"sent"}, "missing")
  /\ AbortGroup(g)
  /\ UNCHANGED <<epoch, audit, recorded, neoVars, holders, sweepVars>>

WAnswered(g) ==
  /\ w[g] = "applied"
  /\ Moves(g, {"sent"}, "written")
  /\ UNCHANGED <<pgVars, neoVars, holders, sweepVars>>

\* t2 without a claim token.  The commit may succeed and its answer be lost.
RunT2(g) ==
  /\ \/ Committed(g) /\ Moves(g, {"written"}, "done") /\ UNCHANGED pgVars
     \/ ~Committed(g) /\ ~T2Ready(g) /\ Moves(g, {"written"}, "unproven") /\ UNCHANGED pgVars
     \/ T2Ready(g) /\ Commit(g) /\ \E to \in {"done", "unproven"} : Moves(g, {"written"}, to)
  /\ UNCHANGED <<neoVars, holders, sweepVars>>

Answer(g) ==
  /\ Moves(g, {"done"}, "ok")
  /\ UNCHANGED <<pgVars, neoVars, holders, sweepVars>>

\* A crash, or an error of a store other than the ones above: the run ends and
\* leaves both stores as they are; a sweep it was running ends with it.
Abandon(g) ==
  /\ Moves(g, Running, "unproven")
  /\ holders' = [holders EXCEPT ![g] = {}]
  /\ todo' = [todo EXCEPT ![g] = {}]
  /\ deciding' = [deciding EXCEPT ![g] = {}]
  /\ UNCHANGED <<pgVars, neoVars>>

-----------------------------------------------------------------------------
(* Neo4j.  W creates one fence per slot under a unique constraint on op_id,*)
(* in the same statement as the change: it is refused as soon as one of    *)
(* them exists.  A caller may have given up on it long before it lands.    *)

\* Mutants: no unique constraint on op_id, or one that only a complete set violates.
FencedNever(g) == FALSE
FencedFully(g) == \A o \in Slots(g) : fence[o].outcome # "none"

Fenced(g) == \E o \in Slots(g) : fence[o].outcome # "none"

LandW(g) ==
  /\ w[g] = "inflight"
  /\ \/ /\ ~Fenced(g)
        /\ w' = [w EXCEPT ![g] = "applied"]
        /\ fence' = [o \in Op |-> IF o \in Slots(g)
                       THEN [outcome |-> "applied", operation |-> "asked"] ELSE fence[o]]
        /\ graph' = [c \in CI |-> IF \E o \in Slots(g) : CiOf[o] = c THEN g ELSE graph[c]]
     \/ \* a fence or another unique key collides, or no target is matched
        /\ \E r \in {"refused", "missing"} : w' = [w EXCEPT ![g] = r]
        /\ UNCHANGED <<fence, graph>>
  /\ UNCHANGED <<pgVars, late, pc, holders, sweepVars>>

\* MERGE (op:ReconciliationOp {op_id}) ON CREATE SET ... outcome = 'aborted'
Merged(r) == [fence EXCEPT ![r.op] =
  IF @.outcome = "none" THEN [outcome |-> "aborted", operation |-> r.operation] ELSE @]

LandLateMerge(m) ==
  /\ m \in late
  /\ fence' = Merged(m)
  /\ late' = late \ {m}
  /\ UNCHANGED <<pgVars, graph, w, pc, holders, sweepVars>>

-----------------------------------------------------------------------------
(* sweep: claim, fence, decide.                                            *)

StartSweep(v, S) ==
  /\ v \in Sweeper /\ IdleSweep(v) /\ S # {}
  /\ Claim(v, S)
  /\ UNCHANGED <<epoch, audit, recorded, neoVars, pc, holders, deciding>>

\* Back off: give the row's claim up, if it is still this sweep's.
Release(v, o) ==
  ops' = [ops EXCEPT ![o] = IF @.claim = v THEN [@ EXCEPT !.claim = None, !.lapsed = FALSE] ELSE @]

\* A row without graph effect never had a fence; T2 decides it.
FenceRow(v, r) ==
  /\ r \in todo[v] /\ deciding[v] = {}
  /\ fence' = IF r.effect THEN Merged(r) ELSE fence
  /\ deciding' = [deciding EXCEPT ![v] =
       {[row |-> r, heard |-> IF ~r.effect THEN "applied"
                              ELSE IF fence'[r.op].operation # r.operation THEN "mismatch"
                              ELSE fence'[r.op].outcome]}]
  /\ todo' = [todo EXCEPT ![v] = @ \ {r}]
  /\ UNCHANGED <<pgVars, graph, w, late, pc, holders>>

\* The MERGE errored: whether and when it lands is unknown.
FenceLost(v, r) ==
  /\ r \in todo[v] /\ deciding[v] = {} /\ r.effect
  /\ late' = late \cup {[op |-> r.op, operation |-> r.operation]}
  /\ Release(v, r.op)
  /\ todo' = [todo EXCEPT ![v] = @ \ {r}]
  /\ UNCHANGED <<epoch, audit, recorded, fence, graph, w, pc, holders, deciding>>

\* Mutant: the decision closes the claimed row, not its group.
DecideRowOnly(v, o, s) ==
  /\ ops' = IF ops[o].claim = v THEN Closed({o} \cap Pending(GroupOf[o]), s) ELSE ops
  /\ UNCHANGED <<epoch, audit, recorded>>

\* decide(state): the pending rows of the group, on this sweep's claim of the row.
Decide(v, o, s) ==
  /\ ops' = IF ops[o].claim = v THEN Closed(Pending(GroupOf[o]), s) ELSE ops
  /\ UNCHANGED <<epoch, audit, recorded>>

\* t2 with the claim token: some row of the group must still carry it.
SweepT2(v, g) ==
  IF T2Ready(g) /\ \E o \in Slots(g) : ops[o].claim = v THEN Commit(g) ELSE UNCHANGED pgVars

\* `failed' after a T2 error that is not in the back-off class.
DecideRow(v, d) ==
  LET o == d.row.op IN
  /\ d \in deciding[v]
  /\ \/ d.heard = "mismatch" /\ Decide(v, o, "failed")
     \/ d.heard = "aborted" /\ Decide(v, o, "aborted")
     \/ d.heard = "applied" /\ d.row.plan \in {"null", "rekey"} /\ Decide(v, o, "failed")
     \/ d.heard = "applied" /\ d.row.plan \notin {"null", "rekey"}
        /\ \/ SweepT2(v, GroupOf[o])
           \/ Decide(v, o, "failed")
           \/ Release(v, o) /\ UNCHANGED <<epoch, audit, recorded>>
  /\ deciding' = [deciding EXCEPT ![v] = {}]
  /\ UNCHANGED <<neoVars, pc, holders, todo>>

\* The sweeping process dies, or a statement outside the handled errors fails.
SweepCrash(v) ==
  /\ v \in Sweeper /\ ~IdleSweep(v)
  /\ todo' = [todo EXCEPT ![v] = {}]
  /\ deciding' = [deciding EXCEPT ![v] = {}]
  /\ UNCHANGED <<pgVars, neoVars, pc, holders>>

-----------------------------------------------------------------------------
(* Time and the operator.                                                  *)

LeaseLapses(o) ==
  /\ ops[o].state = "pending" /\ ~ops[o].lapsed
  /\ ops' = [ops EXCEPT ![o].lapsed = TRUE]
  /\ UNCHANGED <<epoch, audit, recorded, neoVars, pc, holders, sweepVars>>

\* requeueFailedJournalGroup: failed rows become pending again, already expired.
Requeue(g) ==
  /\ \E o \in Slots(g) : ops[o].state = "failed"
  /\ ops' = [o \in Op |-> IF o \in Slots(g) /\ ops[o].state = "failed"
               THEN [ops[o] EXCEPT !.state = "pending", !.claim = None, !.lapsed = TRUE]
               ELSE ops[o]]
  /\ UNCHANGED <<epoch, audit, recorded, neoVars, pc, holders, sweepVars>>

-----------------------------------------------------------------------------
RunStep(g) ==
  \/ Refuse(g) \/ Admit(g) \/ Clash(g) \/ Inspect(g) \/ Recovered(g)
  \/ \E o \in Op : RecoverHolder(g, o)
  \/ PlanFails(g) \/ (\E p \in Plans : T1b(g, p))
  \/ SendW(g) \/ AbortRun(g) \/ WAnswered(g) \/ RunT2(g) \/ Answer(g) \/ Abandon(g)

SweepStep(v) ==
  \/ \E S \in SUBSET Op : StartSweep(v, S)
  \/ \E r \in todo[v] : FenceRow(v, r) \/ FenceLost(v, r)
  \/ \E d \in deciding[v] : DecideRow(v, d)
  \/ SweepCrash(v)

Next ==
  \/ \E g \in Group : RunStep(g) \/ LandW(g) \/ Requeue(g)
  \/ \E v \in Worker : SweepStep(v)
  \/ \E m \in late : LandLateMerge(m)
  \/ \E o \in Op : LeaseLapses(o)

Spec == Init /\ [][Next]_vars

(***************************************************************************)
(* Fairness.  A run that hangs is not retried, so runs promise nothing.    *)
(* Sweeps repeat every 15 s; a claim takes expired rows oldest first, so a *)
(* row that keeps lapsing is claimed in the end, and stores that answer    *)
(* infinitely often let its fence and its decision through.                *)
(***************************************************************************)
ClaimsRow(v, o)  == \E S \in SUBSET Op : o \in S /\ StartSweep(v, S)
FencesRow(v, o)  == \E r \in todo[v] : r.op = o /\ FenceRow(v, r)
SettlesRow(v, o) == \E d \in deciding[v] : /\ d.row.op = o
                                           /\ DecideRow(v, d)
                                           /\ ops'[o].state # "pending"
EndsRow(v)       == \E d \in deciding[v] : DecideRow(v, d)

Fairness ==
  /\ \A o \in Op : WF_vars(LeaseLapses(o))
  /\ \A v \in Sweeper : WF_vars(EndsRow(v))
  /\ \A v \in Sweeper, o \in Op : /\ SF_vars(ClaimsRow(v, o))
                                  /\ SF_vars(FencesRow(v, o))
                                  /\ SF_vars(SettlesRow(v, o))

FairSpec == Spec /\ Fairness

-----------------------------------------------------------------------------
(* Properties.                                                             *)

\* The rows of one group are decided together: a relationship write never ends
\* committed at one end and aborted or failed at the other, whichever of its rows
\* each sweep claimed.
DecidedTogether == \A o, p \in Op : GroupOf[o] = GroupOf[p] => ops[o].state = ops[p].state

\* The journal never contradicts the graph: a committed change is in the graph
\* with all its fences, an aborted one is not and has no applied fence, even when
\* its W lands after recovery gave up on it.
DecisionMatchesGraph ==
  \A o \in Op :
    /\ ops[o].state = "committed" /\ ops[o].effect => fence[o].outcome = "applied"
    /\ ops[o].state = "aborted" => /\ fence[o].outcome # "applied"
                                   /\ w[GroupOf[o]] # "applied"

\* The gap covers every divergence: whenever the last change of a CI in the graph
\* is not the last change its evidence names, a pending or failed row closes the
\* CI to admitted readers.
GapCoversDivergence == \A c \in CI : graph[c] # recorded[c] => Gap(c)

\* A failed group can be replayed: it still holds its plan, and its change is in
\* the graph, so requeueing it lets T2 finish the write.
FailedIsReplayable ==
  \A o \in Op : ops[o].state = "failed" =>
    ops[o].plan # "null" /\ (ops[o].effect => fence[o].outcome = "applied")

\* What run() tells its caller stays true: success means committed, a definitive
\* refusal means the change is not in the graph and never will be.
AnswersHold ==
  \A g \in Group :
    /\ pc[g] = "ok" => Committed(g)
    /\ pc[g] \in {"declined", "aborted", "missing"} =>
         \A o \in Slots(g) : ops[o].state = "aborted" /\ fence[o].outcome # "applied"
    /\ pc[g] \in {"gap", "refused"} => \A o \in Slots(g) : ops[o].state = "none"

\* Evidence exactly once: each slot has one audit row when its group committed and
\* none otherwise, with T2 run by the live request, by sweeps, or by both.
AuditedExactlyOnce ==
  \A o \in Op : audit[o] = IF ops[o].state = "committed" THEN 1 ELSE 0

\* Recovery never meets a fence of another operation than the row it claimed,
\* although T1b may rename the operation between the claim and the fence.
FencesAgree == \A v \in Worker : \A d \in deciding[v] : d.heard # "mismatch"

\* Committed and aborted are final, failed is left only by requeueing, and a
\* fence never changes its outcome.
DecisionStands(o) ==
  /\ ops[o].state \in {"committed", "aborted"} => ops'[o].state = ops[o].state
  /\ ops[o].state = "failed" => ops'[o].state \in {"failed", "pending"}
  /\ fence[o].outcome # "none" => fence'[o] = fence[o]

DecisionsAreFinal == [][\A o \in Op : DecisionStands(o)]_vars

\* Every reservation is decided in the end, whatever became of the run that made
\* it: the gap of a crashed writer does not stay closed as `pending'.
PendingIsDecided ==
  \A o \in Op : ops[o].state = "pending" ~> ops[o].state # "pending"
=============================================================================
