# happycmdb: a verification development

happycmdb is a configuration management database: a TypeScript monorepo (`packages/*`)
that keeps configuration items (CIs) and their relationships in Neo4j, the evidence
about them (change history, field sources, conflicts, audit) in PostgreSQL, work queues
in Redis/BullMQ and events in Kafka. This directory holds TLA+ models of the parts in
which concurrency and failure decide correctness, the TLC runs that check them, and
machine-checked proofs (TLAPS) of the main results. Source paths are relative to
`packages/` unless they start elsewhere.

    tlc -workers 2 -config MCJournal.cfg MCJournal     # a run
    tlapm JournalProofs.tla                            # the proofs of a module

## 1. Inventory

| Component | State | Operations | Interacts with | What makes it correct |
|---|---|---|---|---|
| Reconciliation journal, `database/src/journal/journal.ts` | `ci_reconciliation_operations`, `ci_reconciliation_epochs`, `:ReconciliationOp` fences | `run` (T1, plan, T1b, W, T2), `reserve`, `sweep`, `requeueFailedJournalGroup` | PostgreSQL, Neo4j, every CI writer | a write reaches both stores or neither; readers never see it in between |
| Neo4j client, `database/src/neo4j/client.ts` | driver, sweeper loop | CI and relationship writers, traversals | journal, graph | every write goes through the journal |
| Read admission, `api-server/src/read-admission.ts` | advisory lock, active fallbacks per organization | `readSingleCI`, `readCIList`, `writeReferencedCIs`, global page | journal rows, graph | a list is one consistent cut; nothing refers to a CI in doubt |
| Admission turns, `t1Turns` in `journal.ts`, `lockTurns` in `read-admission.ts` | promise chains per organization | queue, expire, connect, lock | connection pool, advisory lock | at most one connection per chain; no wait in a circle |
| Analysis admission, `api-server/src/middleware/analysis-admission.ts` | in-memory slot buckets | reserve, start, complete, close, release | GraphQL and REST handlers | no slot leaks, no work runs over the limit |
| Audit chain, `database/src/postgres/audit.service.ts` | hash-chained `audit_log` | append under the chain lock, verify | T2, `logAudit` | one chain, no gap or fork |
| AI inventory sync, `discovery-engine/src/ai-sync`, `database/src/ai-inventory` | cursors, agent-release and model CIs | list, apply, supersede, advance the cursor | C4 service, journal | an older listing never undoes a newer one; the cursor never covers what was not applied |
| Credentials and password rotation, `api-server/src/auth`, `api-server/src/scripts` | `:User` nodes with a credential generation, API keys, intents, decisions and outcomes of rotations | login, change password, create and revoke keys, delete, mark; rotate, reconcile | Neo4j, PostgreSQL, operators | nothing authorized before a rotation survives it; a rotation has one outcome, the true one |
| WebSocket service, `api-server/src/services/websocket.service.ts` | clients, lookups in flight, one re-check tick | upgrade, verify, register, tick, close | user store, Redis | caps hold; a user who lost access loses the connection |
| ETL schedules, `etl-processor/src/schedulers`, `database/src/redis/schedule-config-store.ts` | a Redis record, BullMQ repeatables, one object per process | read, edit, enable, disable, reconcile at a start | API servers, workers | the repeatable that runs is the stored one |
| Discovery schedulers, `discovery-engine/src/schedulers` | definitions, BullMQ repeatables | rebuild at a start, poll, trigger | Redis, PostgreSQL | every due job runs |
| Connector runs, `integration-framework/src/core` | `connector_run_history` | run, finish, log | PostgreSQL, Kafka, connectors | the history says what happened |
| ETL, `etl-processor` | `dim_ci` (SCD2), facts | full and incremental jobs | Neo4j, PostgreSQL | one current version per CI |
| Events, `event-processor`, `event-streaming` | Kafka offsets, aggregates | consume, publish, dead letter | Kafka, PostgreSQL | at-least-once with idempotent effects |
| AI discovery, `ai-discovery` | patterns, review history | propose, review, activate | PostgreSQL | only legal status transitions (all writes are switched off at this commit) |
| OAuth states, `database/src/oauth` | states, tokens | put, take, refresh | PostgreSQL | a state is consumed once |
| ITIL, cost, impact and ML engines, identity resolution, connectors, agent, CLI, web UI | mostly request-scoped | compute, render, fetch | the above | functional correctness |

**How they interact.** Every CI writer (REST, GraphQL, reconciliation, restore, AI sync)
calls a writer of the Neo4j client, which hands `run` a set of slots and a plan. T1 takes
a turn in `t1Turns`, a pooled connection and the organization's admission lock
(exclusive), inserts one row per slot and bumps the organization's epoch. Readers look at
those rows: `readSingleCI` before and after its read, `readCIList` as a snapshot before
and after it and, when they differ, under the admission lock (shared);
`writeReferencedCIs` checks and inserts under the shared lock. T2 appends audit rows
under the chain lock inside its own transaction. A sweeper per process recovers what a
run left behind.

A C4 sync writes its CIs through the same journal. A password rotation changes the
`:User` node in Neo4j and records its intent and outcome in PostgreSQL; logins, keys,
password changes and WebSocket connections each carry the credential generation they were
made in and compare it with the node's. ETL schedules are one Redis record, read into
one object per process that all its requests share, and BullMQ repeatables.

**What is hard.** No transaction spans the stores, so order and recovery carry the
correctness: late statements after a driver timeout, several sweepers, leases that lapse
while their owner works, rows of one group claimed apart. Readers take no graph lock.
Turns expire while they are queued. Slots are released by whichever of three callbacks
comes first. The audit chain is ordered by a clock that may step back. C4 may serve old
listings, and a stalled sync runs beside its successor. bcrypt runs between the read of a
hash and what the comparison decides; a rotation's answer may be lost, and its statement
may run after its sender gave up. User lookups cannot be cancelled and answer after their
socket or tick has gone. Schedule edits take up to eight separate calls of two stores.
`PROJECT.json` lists each of these hazards at its line with the properties that watch it.

## 2. The modules

| Module | Models | State | Actions |
|---|---|---|---|
| `Journal` | `journal.ts`, migrations 028 and 004 | `ops`, `epoch`, `audit`, `recorded` (PostgreSQL); `fence`, `graph`, `w`, `late` (Neo4j and statements on their way to it); `pc`, `holders`, `todo`, `deciding` (processes) | `Refuse`, `Admit`, `Clash`, `Inspect`, `RecoverHolder`, `Recovered`, `PlanFails`, `T1b`, `SendW`, `AbortRun`, `WAnswered`, `RunT2`, `Answer`, `Abandon`; `LandW`, `LandLateMerge`; `StartSweep`, `FenceRow`, `FenceLost`, `DecideRow`, `SweepCrash`; `LeaseLapses`, `Requeue` |
| `AtomicWrite` | what the journal promises: an atomic write of several CIs | `status`, `visible`, `told` | `Begin`, `TakeEffect`, `Drop`, `Tell` |
| `JournalRefinement` | the mapping from `Journal` to `AtomicWrite` | | |
| `ReadAdmission` | `read-admission.ts` beside `Journal`, which it EXTENDS | `at`, `locked`, `active`, `before`, `unread`, `page` and two history variables | `Look`, `Check`, `Recheck`; `First`, `Second`, `EnterFallback`, `ShareLock`, `LockedPending`, `Latest`, `CommitList`, `RefuseList`; `CheckNamed`, `Insert`, `CommitInsert`, `RefuseWrite`; `ReadCI`, `SessionEnds`; every step of `Journal` |
| `AtomicReads` | what read admission promises beside `AtomicWrite`: snapshots, values shown since a read began, references outside doubt | `view`, `had`, `answers`, `kept` | `Snap`, `AnswerList`, `RefuseList`; `Ask`, `AnswerSingle`, `RefuseSingle`; `Keep`; every step of `AtomicWrite` |
| `AdmissionRefinement` | the mapping from `ReadAdmission` to `AtomicReads` | | |
| `TurnQueue` | `t1` (190-213) and `lockTurn` (38-61) | chains, turns, connections, lock | `Arrive`, `MyTurn`, `Expire`, `Connect`, `ConnectFails`, `Grant`, `LockTimeout`, `Finish`, `Resolve`, `Forget` |
| `WorkSlots` | `analysis-admission.ts` | buckets, phases, closed sockets, held slots | `Admit`, `Refuse`, `Start`, `Complete`, `Close`, `WriteDeadline`, `WindowElapses` |
| `AuditChain` | `appendAuditEntry`, `verifyAuditChain` | `row`, `clock`, `lock`, `tx` | `Lock`, `Append`, `End`, `ClockMoves` |
| `Ledger` | what the audit chain promises: transactions add their rows whole, at the end and chained (the mapping is at the end of `AuditChain`) | `book`, `before`, `seal`, `ended` | `Commit`, `Discard` |
| `AiSync` | `c4-release-sync.ts`, the AI writer and its cursors | `c4`, `now` (C4's snapshots), `cis`, `models`, `uses`, `cursor`, `run`, `stalled` | `Publish`; `Begin`, `List`, `ReadCursor`, `TakeListed`, `ListHeld`, `Fetch`, `Look`, `Write`, `Pin`, `Pinned`, `Advance`, `Fail` |
| `Rotation` | `rotate-user-password.ts` | `user`, `keys`, `intent`, `decision`, `outcome`, `apply`, `cancels`, `job` | `Prepare`, `CommitIntent`, `Refuse`, `SendApply`, `LandApply`, `ApplyFails`, `Hear`; `Cancel`, `CancelUnheard`, `LandCancel`, `Observe`, `CannotObserve`, `Record`, `CannotRecord`; `Resolve`; `Die` |
| `AtomicRotation` | what the rotation promises: applied at once or called off, and told as decided (the mapping is at the end of `Rotation`) | `asked`, `verdict`, `told`, `password`, `generation` | `Ask`, `Apply`, `CallOff`, `Tell`, `ChangePassword` |
| `Credentials` | `auth.service.ts`, `neo4j-auth.repository.ts`, `identity-window.ts` beside `Rotation`, which it EXTENDS | `tokens`, `check`, `request` | `LookUp`, `Compare`, `Mark`, `CannotMark`, `Issue`, `RefuseLogin`; `Authorize`, `ReadUser`, `GiveUp`, `WriteHash`, `InsertKey`, `RevokeKey`, `Disable`, `Purge`, `Remove`; every step of `Rotation` |
| `Sockets` | `websocket.service.ts` | `serving`, `gen`, `peer`, `verify`, `tick`, `queue`, `look` and the two counters | `Upgrade`, `VerifyReads`, `VerifySettles`, `Abandon`, `Leave`; `StartTick`, `CheckReads`, `CheckSettles`, `Deadline`; `Revoke`; close |
| `Schedules` | `etl-scheduler.ts`, `schedule-config-store.ts`, the REST handlers and `cmdb worker start` | `store` (Redis), `live` (BullMQ), `mem` (an object per process), `job`, two history variables | `Put`, `Get`, `Start`; `Refresh`, `Look`, `Load`, `Save`, `Clear`, `RemoveOne`, `AllRemoved`, `Add`; `Fail`, `Crash` |
| `JournalInvariant`, `AdmissionInvariant` | inductive invariants (checked by runs, used by proofs) | | |
| `JournalProofs`, `AdmissionProofs`, `AuditChainProofs`, `TurnQueueProofs`, `CapacityProofs` (of `WorkSlots` and `Sockets`), `AiSyncProofs`, `CredentialProofs`, `SchedulesProofs` | theorems | | |
| `MC*` | instances for TLC | | |

What the models keep and what they abstract:

- **Journal.** One organization: a CI stands for one (organization, ci_id) key. A group is
  one call of `run`, an op one of its rows. A lease is lapsed or not and may lapse at any
  moment, so nothing depends on the 30, 20, 10 and 5 second constants. A sweep is identified
  by its claim token: one per sweeper process and one per `run` for the sweep its reservation
  starts on an expired holder. A PostgreSQL statement or transaction is atomic; W and a
  recovery MERGE are each one Neo4j statement that may land any time after the caller gave
  up on it. Any error the code does not prove harmless, and a crash, is `Abandon`.
  A T2 in a sweep may commit, hand the row back or fail, whatever its error code. Plans are
  reduced to their kind: `write` and `rekey` change the graph, `hold` and `settle` do not.
  Evidence is reduced to which group wrote it last (`recorded`) and how often (`audit`).
  The back-off durations and attempt counters only delay a sweep and are left out. The
  branch for a fence count that is neither 0 nor all (413-418) cannot be reached, because W
  creates its fences in one statement.
- **ReadAdmission.** A list reads its CIs one at a time, in any order, as its count and its
  page are separate statements. T1 holds the exclusive lock within one step. `SessionEnds`
  is PostgreSQL ending an idle transaction: the lock is gone at once, the request learns of
  it later. `Look` is the handler's own lookup before `readSingleCI`
  (`ci.controller.ts` 211-216). `cut` and `evidenced` are history variables.
- **TurnQueue.** Turns are promises: resolving one is a step of its own after the previous
  caller finished. Connections and the lock are granted in any order.
- **WorkSlots.** Two in-memory stores of buckets with a maximum of keys, rate windows that
  elapse at any time, and the three ways a slot is released. The Apollo hooks that call it
  are its environment.
- **AuditChain.** A row stands for its own hash (collision freedom). The clock takes any
  value in any step. READ COMMITTED: a statement sees what is committed and what its own
  transaction inserted.
- **AiSync.** C4 is external: a sequence of snapshots, any of which a listing may serve. The
  write of a CI is one step, which is what `Journal` provides. Parsing, paging and the
  soft error codes, which change no state, are left out.
- **Rotation.** One user. The apply and the cancel are Neo4j transactions that may run after
  their sender gave up; both create the decision node, which is unique per intent. The
  session lock between operators is left out (`rotate-user-password.ts` says that no outcome
  depends on it).
- **Credentials.** A guarded statement is one step, as the guard runs under the node's write
  lock (`user-lock.ts`). A refresh or the check of a token or key writes nothing that a
  property tells apart.
- **Sockets.** What makes a user unfit for a connection is one number, the user's
  generation. Delivery of messages and the expiry timer are left out.
- **Schedules.** One schedule. Every await of Redis or BullMQ is a step of its own; the
  record a call of `scheduleETLJob` got is kept apart from the shared object.

## 3. The runs

| Run | Instance | Shows |
|---|---|---|
| `journal` | a two-CI write and a one-CI write that meet, every kind of plan, recovery by the sweeps of their own reservations (18,595 states) | `JournalInv`, `GapCoversDivergence`, `AnswersHold`, `ImplementsAtomicWrite` |
| `journal_slots` | one two-slot write and one fair sweeper that may claim one slot or both (41,183 states) | `DecidedTogether`, `DecisionMatchesGraph`, `FailedIsReplayable`, `FencesAgree`, `DecisionsAreFinal`, `PendingIsDecided` |
| `reads` | a list, a single read or a referenced write beside two overlapping writes (218,576 states) | `ImplementsAtomicReads`, `ListIsOneCut`, `SlotsAreConserved`, `SingleIsEvidenced`, `NamedStayOutOfGap` |
| `turns` | three T1s and a referenced write of one process, two connections (54,976 states) | `TurnsInv`, `CallsEnd`, `IdleChainIsForgotten` |
| `work_slots` | two users of one organization, two queries, two analyses, full stores (72,217 states) | `WorkSlotsInv`, `RunningIsBounded`, `SlotsComeBack` |
| `audit_chain` | four rows of three transactions, a clock of three ticks (13,506 states) | `ChainVerifies`, `ImplementsLedger` |
| `ai_sync` | two releases of one model, three snapshots, two runs, one failure (304,860 states) | `AiSyncInv`, `CursorHoldsAgainstLag`, `Converges` |
| `rotation` | two rotations and one reconciling run (263,508 states) | `RotationInv`, `ImplementsAtomicRotation`, `IntentsResolve` |
| `credentials` | a rotation, a login, a scan, two password changes, a key and a deletion (1,515,666 states) | `HashIsOfItsGeneration`, `TokensAreOfTheirGeneration`, `UsableKeysAreCurrent`, `MarkedHoldsDefault` |
| `credentials_delete` | a rotation, a login and a deletion; expected violation | `RotatedAccountStays` (see Findings) |
| `sockets` | three sockets of two users, two verifications and one lookup at a time (244,509 states) | `SocketsInv`, `TicksAreDecisive`, `UnfitAreClosed` |
| `schedules` | two clients of one server and a worker, two crons (1,012,113 states) | `SchedulesInv`, `StartReconciles`, `EditsTakeEffect` |

In words: readers are never admitted to a divergence of the two stores, and what admitted
readers and callers see is an atomic write of several CIs. Beside it a list is a snapshot
of what no undecided write holds, a single read returns values its CI showed since the read
began, and a reference names no CI in doubt. Turns, connections and the lock never wait in
a circle. Slots are conserved however responses, sockets and deadlines end. The audit
chain verifies at every moment. The sync's cursor never covers a release that was not
applied. A rotation is applied in one step or called off, whoever died, and what was authorized before
it neither overwrites it nor works after it. No tick of the WebSocket service lets an
unfit connection through. A schedule's repeatable is the stored one while writers take
turns. Whatever was left behind before, a start or a cron edit that no writer overlaps
leaves the stored cron of an enabled schedule running, and an edit of the cron alone leaves
nothing beside it; a start does not remove an old repeatable there (section 5).

**Bounds.** Every hazard of the journal needs at most two groups that meet in one CI, one
group of two slots, and two recoverers; the runs have each of these combinations, though
not all in one instance. `MaxInflight` and `MaxPending` are never
reached in the runs: a refused reservation and a refused list are steps that may be taken at
any time (`Refuse`, `RefuseList`), so the bounds would only remove behaviours. `OneAtATime`
lets one kind of reader run at a time beside the two writes, as readers do not
touch what the others read; two lists in the fallback at once are left to the proofs.
`UnderWay` besides leaves out MERGEs that land late, which `journal_slots` has, and what
the writes do after the one request ended, and gave back its lock.
With three T1s in one process a chain has a head, a middle and a tail, which is what
expiring out of order needs. Chains of two processes share only the database's lock, which
the proof covers for any number. `MaxKeys` 2 with three keys in the GraphQL store makes
eviction happen. Four audit rows are the fewest for a multi-row transaction between two
others; ids are ordered against the order of insertion. `MaxTime` 2 is the fewest snapshots in
which a release is approved, changed and changed back; `MaxFailures` 1 leaves a half-way run
for another to follow. `Few` lets at most three of the credential requests come and one
comparison run at a time: the hazards are of one request, one comparison and the
rotation. `MaxGen` 1 lets every user become unfit once, which is what a tick must see;
coming back would only remove a reason to close. `MCPatches` gives one client every
patch and the other one that changes both fields. Proofs lift the bounds for everything but
liveness (section 4).

**Deadlock.** Where each call is made once, the model stops when all have ended, and the
configuration says `CHECK_DEADLOCK FALSE`; that calls do end is checked as liveness
instead. The schedule model may stop because its one worker starts once. The audit and
sync models never stop: there is always the clock, or another run.

**Fairness.** Journal: only sweepers are fair. `startJournalSweeper` runs every 15 s for as
long as the process lives, claims the oldest rows first, and keeps trying; strong fairness
on claiming, fencing and deciding says that the stores answer it sometimes and that it is
not forever overtaken. Runs, statements and clients have none. Turns: promise jobs run, the
pool and the lock manager give what is free, and what holds a lock ends (PostgreSQL's
statement and idle timeouts see to it); no expiry is assumed. Slots: started work ends,
Apollo starts or answers what was admitted, the 30 s write deadline fires; nobody has to
close a socket. Sync: the fan-out enqueues the job again and again, a run that does not
fail goes on, and C4 does not serve old snapshots forever. Rotation: only the operator's
repeated `--reconcile` is fair; a rotation may die anywhere. WebSocket service: the interval
timer starts ticks and a tick's deadline fires; no lookup ever has to answer. Schedules and
the audit chain state none.

## 4. What is proved

All proofs are checked by TLAPS for any finite or infinite set of groups, rows, CIs,
sweepers and requests that satisfies the named assumptions of the modules.

**Journal** (`JournalIsConsistent`, and from it the type invariant and each safety
property of the runs; `DecisionsFinal` for the action property). The properties are not
inductive: that a committed change is in the graph depends on why T2 was allowed.
`JournalInv` adds:

- rows of a group are reserved and decided together, and rows of two groups of one CI are
  never open together (the partial unique index);
- W is applied exactly when its fences are, because it creates them in the same statement;
  an aborted group whose W is still in flight has an aborted fence that will refuse it;
- a process that is about to commit a graph change knows W applied: the live run because it
  was answered (`written`), a sweep because it MERGEd and heard `applied`. What a sweep
  remembers of a row may be stale; the invariant says what of it still holds;
- where graph and evidence differ, the graph's last writer is the group with the open row.

**The refinement** (`JournalIsAtomic`). The invariant reads the mapping: a group's status is
the state of any of its rows, and as a divergence is always in a gap, what readers see is
what the evidence names. So T1 begins the write, T2 makes it take effect on all its CIs at
once, an abort drops it, an answer tells it, and every other step changes nothing.

**Read admission** (`AdmissionIsConsistent`, and from it `AdmissionTypeOK`, `ListIsOneCut`,
`SingleIsEvidenced`, `NamedStayOutOfGap`, `SlotsAreConserved` and, again, `JournalInv` in the
composition). The argument needs facts about what one journal step can do: a step other
than T1 only closes gaps; T1 raises the epoch, leaves values and evidence alone and waits
for the shared lock; an open row whose W landed leaves the gap only as the evidence comes to
name its group. With them:

- while a list's epoch is still the current one, or while it holds the lock, its cut stands:
  no CI outside its pending set entered a gap or got new evidence, and what it has read is
  what the cut named. So an answer vouched for by an equal epoch, or by the lock at the last
  check, is the cut;
- a single read's value is accounted for: evidenced during the read, or the landed change of
  a row that is still open, in which case the second gap check sees the row.

**Admitted reads refine atomic reads** (`AdmissionIsAtomic`). A list's snapshot is its cut
outside the CIs it found pending, a single read has been shown what was evidenced since it
began, a request that was refused never began. The invariant of read admission says what an
answer needs: that the page is the cut, and the value among those evidenced. The writes'
steps are those of `JournalIsAtomic`, with one thing more to show: evidence that is
recorded while a single read runs becomes visible in that very step. What happens inside
a reader (its gap checks, the fallback's lock and its loss) is a stutter.

**Audit chain** (`ChainAlwaysVerifies`, `ChainOnlyGrows`, `ChainIsLedger`). Committed and inserted rows
together form one chain with strictly increasing timestamps, the uncommitted ones at its
end and of one transaction, the lock holder. Hence a rollback cannot take a committed row's
predecessor away, and a new row, stamped after the head, is the new end. The same facts
make the log a ledger: an entry's place is the set of committed rows before it in the
verifier's order, and a commit adds places without touching one.

**Admission turns** (`TurnsAreExclusive`, `CallsNeverDeadlock`). The chain is not a state
of the code: a call knows only the promise before it, the map only the youngest. `TurnsIInv`
says that some rank orders the arrivals of each chain so that a resolved turn stands for every older call
of its chain, which holds of a predecessor, of a forgotten chain, and through every expiry
in the queue; and that whoever connects has had its turn and not given it up, while whoever
is over has. That no call is ever stuck (`NobodyIsStuck`) follows from the same invariant:
the oldest call of a chain whose turn is not resolved has its turn, and it takes it, uses
it, or has given it up and is resolved; a full pool belongs to calls at the lock; and the
lock's queue moves at its head or by a holder. Fairness then turns this into `CallsEnd`,
which TLC checks.

**Analysis admission** (`SlotsAreConserved`, `WorkIsBounded`). `BucketsOk` relates the
buckets' counts to the set of requests that hold a slot, as a statement about a map and a
set, so that admission, eviction, a window and a release are each a lemma about the map.

**WebSocket service** (`SocketsAreCounted`, `TicksDecide`). Two counters stand for the user
lookups in flight, which cannot be cancelled and may answer after their socket, their tick
or the service has gone. The invariant says that each counter is the number of lookups
that have not settled, its callers' or not; that the queue of a tick and its lookups are
exactly the users it has not resolved; and that what a lookup of the current tick read, it
read after the tick began. So a tick that is over has judged every connection it saw by
something no older than itself, and a deadline that cuts it short closes the rest.

**AI inventory sync** (`CursorIsTrue`, `CursorGoesOn`, `CursorHolds`). `SyncIInv` says of
each run half-way which approved releases of its listing are still to do, which one is at
hand and what is known of it, and that the others are complete; and that unless a job
stalled one run is active and its as-of is not behind the cursor. `Fresh` adds that as long
as none stalled and none failed, whatever in the inventory is newer than the cursor is the
work of a run that is still at it, so that no later listing is older than what it changes.

**Credentials** (`RotationIsCounted`, `RotationDecidesOnce` and, for the composition,
`StoredHashIsCurrent`, `TokensAreCurrent`, `KeysAreCurrent`, `MarksAreTrue`).
`RotationIInv` says what each script knows (it aims one above the generation it read; who
is about to record has seen the decision) and counts: the node's generation is the number
of applied rotations, and at most one intent is open. `CredentialIInv` adds what each
pending comparison, issued token, key and stored password stands for, and that the
generation of a password that is or was in use no longer moves.

**A rotation refines an atomic one** (`RotationIsAtomic`, and beside every other operation on
the account `RotationIsAtomicBesideRequests`). The committed intent asks, the apply
transaction applies (the decision, the password and the generation in one step), whichever
cancel comes first calls off, and the first outcome row tells. `IntentsAre` adds that
whoever works on an intent, and whatever cancel may still land, has one that was committed.
`DecidedOnce` follows, and is proved on its own.

**Schedules** (`SchedulesAgree`, `StartsReconcile`, `EditsAreDone`). `SchedulesIInv` adds
to the type invariant: which stages an operation can be in (`Control`); that a writer no
other overlaps is the only one (`Alone`); what such a writer has already achieved at each
stage, in any state it may have started from (`StageIs`), and besides while nothing has
drifted (`SteadyIs`); and that store and repeatables agree whenever nobody is between
storing and placing (`Agrees`, stronger than `Agreement`, which waits for rest). The two
theorems about steps separate what holds from any state (a start or a cron edit brings the
stored cron, an edit of the cron alone removes every other, a start removes all of a disabled
schedule) from what takes a state where nothing drifted: that a start leaves exactly the
record's repeatables, and that disabling leaves none.

**Model-checked only.** All liveness
(`PendingIsDecided`, `CallsEnd`, `IdleChainIsForgotten`, `SlotsComeBack`, `Converges`,
`IntentsResolve`, `UnfitAreClosed`), as fairness and ENABLED are outside the prover. Every
other property of the passing runs is a theorem. Nothing here relies on induction over data
or on RECURSIVE operators.

## 5. Findings

- **A deletion authorized before a rotation deletes the rotated account**
  (`credentials_delete`). `deleteAccount` disables the account under the generation that
  authorized it and then calls `deleteUserAccount`, whose `DETACH DELETE` is guarded by no
  generation; an operator rotation does not look at the enabled flag. A rotation applied
  between the two is deleted with the account, which `auth.service.ts:535` says cannot
  happen.

Behaviour met while modelling, without a run:

- `readSingleCI` compares two moments: a write that reserves the CI after the first gap
  check and is decided before the second leaves no trace, unlike in `readCIList`, which
  compares the epoch. The comment at `read-admission.ts:31` speaks of discarding such a
  read. `SingleIsEvidenced` holds nevertheless: the answer is a value the evidence named
  during the read.
- A sync that fails half-way has applied some releases at its as-of without moving the
  cursor (`c4-release-sync.ts` 63, 91); a run that then lists an older snapshot, still not
  behind the cursor, undoes them, which the comment at 61 speaks against. As long as no run
  failed or stalled the comment is right (second half of `CursorHoldsAgainstLag`); after a
  failure only a snapshot older than the cursor is sure to undo nothing (first half), and
  `Converges` says that what a failed run left behind does not last.
- The sweep decides on `plan_missing` as it was at the claim, so a group whose T1b came in
  between is marked failed although its plan is stored, and needs a requeue (`journal.ts` 454,
  487). A sweep's T2 that loses its connection without an SQLSTATE counts as a permanent
  failure. `MAX_INFLIGHT_PER_ORG` counts failed rows (`journal.ts` 226).
- Two updates of one schedule at once lose a patch (`schedule-config-store.ts` 92). `PUT
  enabled=true` adds nothing when the shared object, set from the store, already says
  enabled, although no repeatable exists (`etl-scheduler.ts` 246), and answers 200; before
  the first start of a worker `PUT enabled=false` finds the view disabled and stores
  nothing.
- A start of an enabled schedule adds the stored cron's repeatable and removes no other
  (`etl-scheduler.ts` 119-126), although the comment at 114-116 says that the process then
  agrees with what the last one persisted. An edit from one cron to another that stores its
  record and dies before `removeSchedule`, and then a start, leave both cadences running;
  so do overlapping edits. Every further start keeps them, the next cron edit or disabling
  removes the old one. `StartReconciles` therefore asks for the record's repeatables exactly
  only where nothing drifted.
- A deletion that fails leaves the account disabled. The comment at
  `neo4j-auth.repository.ts` 286-288 says that after a failed PostgreSQL transaction the
  account, "including its ability to log in", is untouched, but `deleteAccount` has disabled
  it before (`auth.service.ts` 547) and nothing enables it again. In `Credentials` this is
  `Disable` followed by `GiveUp`.

## 6. What is not modelled, and the plan

`PROJECT.json` names every component with its reason. Most of the repository by size is
request-scoped code over data already read (controllers, GraphQL resolvers, analysis and
scoring engines, 43 connectors, seeds, the web UI): it keeps no state between steps, and a
model would restate it. Of what does keep state:

- the global page reader of read admission (`read-admission.ts` 163) and the loader cache of
  `itilHistory`: refinements of `ReadAdmission` that need more statements per read;
- `SchedulerSyncService` is constructed by no process at this commit, and
  `DiscoveryScheduler` is started only by `cmdb worker start`, which rebuilds everything;
- ETL job bodies, whose dimension versions are written under one advisory lock per CI
  (`lockCIDimensions`) held to COMMIT;
- event consumers: at-least-once delivery against handlers that swallow errors;
- connector runs: the history row against the events emitted about it;
- the pattern workflow, all of whose transitions throw at this commit.

Next, in this order: `EventEffects` and `ConnectorRuns`, each with its inductive invariant
and proof.
