------------------------------ MODULE Schedules ------------------------------
(***************************************************************************)
(* packages/etl-processor/src/schedulers/etl-scheduler.ts, its callers and *)
(* packages/database/src/redis/schedule-config-store.ts: one ETL schedule. *)
(*                                                                         *)
(* Its cron and its enabled flag are a record in Redis; the repeatable     *)
(* jobs that make it run are in BullMQ; and each process has a copy of the *)
(* record in memory, one object that all its requests share.  API servers  *)
(* serve PUT (updateETLSchedule) and GET, a worker reconciles when it      *)
(* starts.  Every await of Redis or BullMQ may be overtaken by another     *)
(* request, may fail, and the process may die there.  stop() is not        *)
(* modelled: only `cmdb worker stop' calls it, in a process of its own     *)
(* that never started, where it returns at once.                           *)
(***************************************************************************)
EXTENDS FiniteSets

CONSTANTS
  Client,      \* requests an API server serves, one after another
  Worker,      \* worker processes
  Server,      \* API server processes
  ServerOf,    \* of each client
  Patches,     \* what each client may ask for
  Cron,        \* cron expressions
  DefaultCron, \* of DEFAULT_SCHEDULES
  None

Actor   == Client \cup Worker
Process == Server \cup Worker

Record  == [cron: Cron, enabled: BOOLEAN]
Patch   == [cron: Cron \cup {None}, enabled: BOOLEAN \cup {None}]
Nothing == [cron |-> None, enabled |-> None]

ASSUME SchedulesAssumption ==
  /\ Client \cap Worker = {} /\ Server \cap Worker = {}
  /\ ServerOf \in [Client -> Server]
  /\ Patches \in [Client -> SUBSET (Patch \ {Nothing})]
  /\ DefaultCron \in Cron /\ None \notin Cron \cup BOOLEAN \cup Record

VARIABLES
  store,  \* the record in Redis
  live,   \* the crons of the repeatable jobs of the schedule in BullMQ
  mem,    \* the schedule object of each process
  job,    \* what an actor is doing
  solo,   \* history: the writer that nothing overlapped so far, if any
  drift   \* history: writers have overlapped, or one was lost midway

vars == <<store, live, mem, job, solo, drift>>

Default == [cron |-> DefaultCron, enabled |-> TRUE]
Idle    == [op |-> "none", at |-> "idle", patch |-> Nothing, base |-> None, todo |-> {}]

Op  == {"none", "view", "edit", "switch", "final", "start"}
At  == {"idle", "refresh", "look", "load", "save", "clear", "remove", "add"}
Job == [op: Op, at: At, patch: Patch, base: Record \cup {None}, todo: SUBSET Cron]

TypeOK ==
  /\ store \in Record \cup {None}
  /\ live \subseteq Cron
  /\ mem \in [Process -> Record]
  /\ job \in [Actor -> Job]
  /\ solo \subseteq Actor /\ drift \in BOOLEAN

Init ==
  /\ store = None /\ live = {}
  /\ mem = [p \in Process |-> Default]
  /\ job = [a \in Actor |-> Idle]
  /\ solo = {} /\ drift = FALSE

ProcessOf(a) == IF a \in Worker THEN a ELSE ServerOf[a]

\* A worker's start and a PUT write; a GET is a final view alone.
Writes(a)   == job[a].op = "start" \/ job[a].patch # Nothing
Writers     == {a \in Actor : Writes(a)}

-----------------------------------------------------------------------------
(* What follows a step.  A PUT views, edits the cron, switches, and views. *)

Goes(a, op, at) ==
  job' = [job EXCEPT ![a] = [@ EXCEPT !.op = op, !.at = at, !.base = None]]

Ends(a) == job' = [job EXCEPT ![a] = Idle]

\* scheduleETLJob is called with the record r: what the shared object becomes meanwhile
\* no longer matters to it.
Adds(a, op, r) ==
  job' = [job EXCEPT ![a] = [@ EXCEPT !.op = op, !.at = "add", !.base = r]]

\* updateETLSchedule compares the request with the shared object, whoever wrote it last.
Switches(a, m) == job[a].patch.enabled \notin {None, m.enabled}

ThenSwitch(a, m) == Goes(a, IF Switches(a, m) THEN "switch" ELSE "final", "refresh")

-----------------------------------------------------------------------------
(* Requests and starts.                                                    *)

Begins(a, op, patch) ==
  /\ job[a] = Idle
  /\ job' = [job EXCEPT ![a] = [Idle EXCEPT !.op = op, !.at = "refresh", !.patch = patch]]
  /\ UNCHANGED <<store, live>>

BeginsWriting(a, op, patch) ==
  /\ Begins(a, op, patch)
  /\ solo' = IF Writers = {} THEN {a} ELSE {}
  /\ drift' = (drift \/ Writers # {})

Put(a, patch) == BeginsWriting(a, "view", patch) /\ UNCHANGED mem

Get(a) == Begins(a, "final", Nothing) /\ UNCHANGED <<mem, solo, drift>>

\* A new worker process; one that has started does not start again.
Start(w) == BeginsWriting(w, "start", Nothing) /\ mem' = [mem EXCEPT ![w] = Default]

Reaches(a, at) == job[a].at = at /\ UNCHANGED <<solo, drift>>

-----------------------------------------------------------------------------
(* refreshScheduleFromStore: SET NX of what is in memory, or a load.       *)

Seeded(m) == IF store = None THEN m ELSE store

\* Mutant: a start skips a disabled schedule and leaves its repeatable.
StartsOn(a, r) == IF r.enabled THEN Adds(a, "start", r) ELSE Ends(a)

ReconcilesOn(a, r) == IF r.enabled THEN Adds(a, "start", r) ELSE Goes(a, "start", "clear")

Refresh(a) ==
  /\ Reaches(a, "refresh")
  /\ LET r == Seeded(mem[ProcessOf(a)])
     IN /\ store' = r
        /\ mem' = [mem EXCEPT ![ProcessOf(a)] = r]
        /\ CASE job[a].op \in {"view", "final"} -> Goes(a, job[a].op, "look")
             [] job[a].op = "edit" -> Goes(a, "edit", "load")
             [] job[a].op = "switch" ->
                  IF Switches(a, r) THEN Goes(a, "switch", "load") ELSE Goes(a, "final", "refresh")
             [] job[a].op = "start" -> ReconcilesOn(a, r)
  /\ UNCHANGED live

\* getScheduleView: enabled means that a repeatable exists, in the shared object too.
Look(a) ==
  /\ Reaches(a, "look")
  /\ mem' = [mem EXCEPT ![ProcessOf(a)].enabled = (live # {})]
  /\ IF job[a].op = "final" THEN Ends(a)
     ELSE IF job[a].patch.cron # None THEN Goes(a, "edit", "refresh")
     ELSE ThenSwitch(a, mem'[ProcessOf(a)])
  /\ UNCHANGED <<store, live>>

-----------------------------------------------------------------------------
(* update of the store: load, merge, and store the whole record.           *)

Load(a) ==
  /\ Reaches(a, "load")
  /\ job' = [job EXCEPT ![a].base = store, ![a].at = "save"]
  /\ UNCHANGED <<store, live, mem>>

Merged(a) ==
  IF job[a].op = "edit" THEN [job[a].base EXCEPT !.cron = job[a].patch.cron]
  ELSE [job[a].base EXCEPT !.enabled = job[a].patch.enabled]

\* Mutant: the shared object is not told of the new record.
RememberedOld(a) == mem

Remembered(a) == [mem EXCEPT ![ProcessOf(a)] = Merged(a)]

\* Mutant: an edited cron is added beside the old one.
AfterEditStacking(a, r) == IF r.enabled THEN Adds(a, "edit", r) ELSE ThenSwitch(a, r)

AfterEdit(a, r) == IF r.enabled THEN Goes(a, "edit", "clear") ELSE ThenSwitch(a, r)

Save(a) ==
  /\ Reaches(a, "save")
  /\ store' = Merged(a)
  /\ mem' = Remembered(a)
  /\ IF job[a].op = "edit" THEN AfterEdit(a, Merged(a))
     ELSE IF Merged(a).enabled THEN Adds(a, "switch", Merged(a))
     ELSE Goes(a, "switch", "clear")
  /\ UNCHANGED live

-----------------------------------------------------------------------------
(* The repeatables: removeSchedule lists them and removes one by one, and  *)
(* scheduleETLJob adds one.                                                *)

Clear(a) ==
  /\ Reaches(a, "clear")
  /\ job' = [job EXCEPT ![a].todo = live, ![a].at = "remove"]
  /\ UNCHANGED <<store, live, mem>>

RemoveOne(a, c) ==
  /\ Reaches(a, "remove") /\ c \in job[a].todo
  /\ live' = live \ {c}
  /\ job' = [job EXCEPT ![a].todo = @ \ {c}]
  /\ UNCHANGED <<store, mem>>

AllRemoved(a) ==
  /\ Reaches(a, "remove") /\ job[a].todo = {}
  /\ CASE job[a].op = "edit"   -> Adds(a, "edit", mem[ProcessOf(a)])
       [] job[a].op = "switch" -> Goes(a, "final", "refresh")
       [] job[a].op = "start"  -> Ends(a)
  /\ UNCHANGED <<store, live, mem>>

Add(a) ==
  /\ Reaches(a, "add")
  /\ live' = live \cup {job[a].base.cron}
  /\ CASE job[a].op = "edit"   -> ThenSwitch(a, mem[ProcessOf(a)])
       [] job[a].op = "switch" -> Goes(a, "final", "refresh")
       [] job[a].op = "start"  -> Ends(a)
  /\ UNCHANGED <<store, mem>>

-----------------------------------------------------------------------------
(* Faults.                                                                 *)

\* Its record is stored and its repeatables are not in place yet.
Midway(a) == job[a].op \in {"edit", "switch"} /\ job[a].at \in {"clear", "remove", "add"}

Breaks(lost) ==
  /\ drift' = (drift \/ \E a \in lost : Midway(a))
  /\ solo' = solo \ lost
  /\ job' = [a \in Actor |-> IF a \in lost THEN Idle ELSE job[a]]
  /\ UNCHANGED <<store, live>>

\* Redis or BullMQ answers with an error: 500, or a worker that exits.
Fail(a) ==
  /\ job[a] # Idle
  /\ Breaks({a})
  /\ UNCHANGED mem

\* An API server dies and is started again.
Crash(p) ==
  /\ Breaks({a \in Actor : ProcessOf(a) = p})
  /\ mem' = [mem EXCEPT ![p] = Default]

-----------------------------------------------------------------------------
Step(a) ==
  \/ Refresh(a) \/ Look(a) \/ Load(a) \/ Save(a) \/ Clear(a) \/ AllRemoved(a) \/ Add(a)
  \/ Fail(a) \/ \E c \in Cron : RemoveOne(a, c)

Next ==
  \/ \E a \in Client : Get(a) \/ \E patch \in Patches[a] : Put(a, patch)
  \/ \E w \in Worker : Start(w)
  \/ \E a \in Actor : Step(a)
  \/ \E p \in Server : Crash(p)

Spec == Init /\ [][Next]_vars

-----------------------------------------------------------------------------
(* Properties.                                                             *)

\* "they must all agree on the same cron/enabled/config truth": while writers take turns
\* and none is lost between storing its record and placing its repeatable, at rest no
\* repeatable runs but that of the stored cron, and only of an enabled schedule; GETs may
\* come, starts fail and servers die at any other moment.
Agreement ==
  Writers = {} /\ ~drift => /\ live \subseteq {c \in Cron : store # None /\ c = store.cron}
                            /\ live # {} => store.enabled

SchedulesInv == TypeOK /\ Agreement

Completes(a) == a \in solo \cap solo' /\ job[a] # Idle /\ job'[a] = Idle

Effective == IF store.enabled THEN {store.cron} ELSE {}

StartIsDone(w) ==
  Completes(w) => /\ ~store'.enabled => live' = {}
                  /\ store'.enabled => store'.cron \in live'
                  /\ ~drift => live' = Effective'

\* A start that nothing overlaps removes every repeatable of a disabled schedule and has
\* one of the stored cron for an enabled one, whatever overlapped or failed before; and
\* where nothing drifted it leaves exactly the repeatables of the record.  What an edit
\* that died midway left behind it does not remove from an enabled schedule.
StartReconciles == [][\A w \in Worker : StartIsDone(w)]_vars

EditIsDone(a) ==
  Completes(a) =>
    /\ job[a].patch.cron # None =>
         store'.cron = job[a].patch.cron /\ (store'.enabled => store'.cron \in live')
    /\ job[a].patch.cron # None /\ job[a].patch.enabled = None /\ store'.enabled =>
         live' = {store'.cron}
    /\ job[a].patch = [cron |-> None, enabled |-> FALSE] /\ ~drift => live' = {}

\* A PUT of a cron that no writer overlaps takes effect: the cron is stored and, in an
\* enabled schedule, live; one that asks for nothing else leaves no other beside it,
\* whatever was left behind before.  And where nothing drifted, disabling leaves no
\* repeatable.  GETs may rewrite the shared object meanwhile.
EditsTakeEffect == [][\A a \in Client : EditIsDone(a)]_vars
=============================================================================
