--------------------------- MODULE SchedulesProofs ---------------------------
(***************************************************************************)
(* What Schedules promises holds for any number of requests, workers,      *)
(* servers and crons.                                                      *)
(*                                                                         *)
(* The strengthening says what a writer that nothing overlapped knows at   *)
(* every stage (StageIs), that without drift every writer is such a one    *)
(* (Alone), and that store and repeatables agree whenever no writer is     *)
(* midway (Agrees).                                                        *)
(***************************************************************************)
EXTENDS Schedules, TLAPS

\* Where the steps of a request or start can be.
ControlIs(a) ==
  /\ job[a].op = "none" <=> job[a] = Idle
  /\ job[a].at = "idle" <=> job[a] = Idle
  /\ job[a].op = "start" => a \in Worker
  /\ a \in Worker => job[a].op \in {"none", "start"} /\ job[a].patch = Nothing
  /\ job[a].op \in {"view", "edit", "switch"} => job[a].patch # Nothing
  /\ job[a].op = "edit" => job[a].patch.cron # None
  /\ job[a].op = "switch" => job[a].patch.enabled # None
  /\ job[a].at = "look" => job[a].op \in {"view", "final"}
  /\ job[a].at \in {"load", "save"} => job[a].op \in {"edit", "switch"}
  /\ job[a].at \in {"clear", "remove", "add"} => job[a].op \in {"edit", "switch", "start"}
  /\ job[a].at \in {"save", "add"} => job[a].base \in Record
  /\ job[a].op = "switch" /\ job[a].at = "add" => job[a].patch.enabled = TRUE

\* A request that got past its first refresh has found or made a record.
Found(a) ==
  \/ job[a].at \notin {"idle", "refresh"}
  \/ job[a].op \in {"edit", "switch"}
  \/ job[a].op = "final" /\ job[a].patch # Nothing

Control == \A a \in Actor : ControlIs(a) /\ (Found(a) => store # None)

-----------------------------------------------------------------------------
(* What a writer that nothing overlapped knows.                            *)

Removing(a) == job[a].at \in {"clear", "remove"}

\* Its cron is stored.
Edited(a) ==
  /\ job[a].patch.cron # None
  /\ \/ job[a].op = "edit" /\ job[a].at \in {"clear", "remove", "add"}
     \/ job[a].op \in {"switch", "final"}

Disables(a) == job[a].patch = [cron |-> None, enabled |-> FALSE]

\* It asked for a cron alone and has replaced the repeatable of an enabled schedule.
Replaced(a) ==
  job[a].op = "final" /\ job[a].patch.cron # None /\ job[a].patch.enabled = None

StageIs(a) ==
  /\ job[a].at = "save" => job[a].base = store
  /\ job[a].at = "remove" => live \subseteq job[a].todo
  /\ job[a].at = "add" => job[a].base.cron = store.cron /\ store.enabled
  /\ job[a].op = "edit" /\ Removing(a) => store.enabled /\ mem[ProcessOf(a)].cron = store.cron
  /\ job[a].op \in {"switch", "start"} /\ Removing(a) => ~store.enabled
  /\ job[a].op = "switch" /\ job[a].at \in {"load", "save"} => job[a].patch.enabled # store.enabled
  /\ Edited(a) => store.cron = job[a].patch.cron
  /\ Edited(a) /\ job[a].op # "edit" /\ store.enabled /\ job[a].at # "add" => store.cron \in live
  /\ job[a].op = "edit" /\ job[a].at = "add" => live = {}
  /\ Replaced(a) /\ store.enabled => live = {store.cron}

\* What it knows besides as long as nothing drifted.
SteadyIs(a) ==
  /\ job[a].op = "switch" /\ job[a].at = "add" => live = {}
  /\ job[a].op = "final" /\ Disables(a) => live = {}

Alone ==
  /\ \A a \in solo : Writes(a) => \A b \in Actor : Writes(b) => b = a
  /\ ~drift => Writers \subseteq solo

Stages ==
  \A a \in solo : Writes(a) => StageIs(a) /\ (~drift => SteadyIs(a))

Agreed ==
  /\ live \subseteq {c \in Cron : store # None /\ c = store.cron}
  /\ live # {} => store.enabled

Agrees == ~drift /\ (\A a \in Actor : ~Midway(a)) => Agreed

SchedulesIInv == TypeOK /\ Control /\ Alone /\ Stages /\ Agrees

-----------------------------------------------------------------------------
(* What follows a step.                                                    *)

Others(a) == \A b \in Actor : b # a => job'[b] = job[b]

LEMMA Went ==
  ASSUME TypeOK, NEW a \in Actor, NEW op \in Op, NEW at \in At, Goes(a, op, at)
  PROVE  /\ job' \in [Actor -> Job] /\ Others(a)
         /\ job'[a].op = op /\ job'[a].at = at /\ job'[a].base = None
         /\ job'[a].patch = job[a].patch /\ job'[a].todo = job[a].todo
<1>1. job[a] \in Job /\ job'[a] = [job[a] EXCEPT !.op = op, !.at = at, !.base = None]
  BY DEF TypeOK, Goes
<1>2. job'[a] \in Job
  BY <1>1 DEF Job
<1>3. job' \in [Actor -> Job] /\ Others(a)
  BY <1>2 DEF TypeOK, Goes, Others
<1> QED BY <1>1, <1>2, <1>3 DEF Job

LEMMA Called ==
  ASSUME TypeOK, NEW a \in Actor, NEW op \in Op, NEW r \in Record, Adds(a, op, r)
  PROVE  /\ job' \in [Actor -> Job] /\ Others(a)
         /\ job'[a].op = op /\ job'[a].at = "add" /\ job'[a].base = r
         /\ job'[a].patch = job[a].patch /\ job'[a].todo = job[a].todo
<1>1. job[a] \in Job /\ job'[a] = [job[a] EXCEPT !.op = op, !.at = "add", !.base = r]
  BY DEF TypeOK, Adds
<1>2. job'[a] \in Job
  BY <1>1 DEF Job, At
<1>3. job' \in [Actor -> Job] /\ Others(a)
  BY <1>2 DEF TypeOK, Adds, Others
<1> QED BY <1>1, <1>2, <1>3 DEF Job

LEMMA IdleIs == Idle \in Job
BY SchedulesAssumption DEF Idle, Job, Op, At, Patch, Nothing

LEMMA Ended ==
  ASSUME TypeOK, NEW a \in Actor, Ends(a)
  PROVE  job' \in [Actor -> Job] /\ Others(a) /\ job'[a] = Idle
BY IdleIs DEF TypeOK, Ends, Others

LEMMA Places == \A a \in Actor : ProcessOf(a) \in Process
BY SchedulesAssumption DEF Actor, Process, ProcessOf

LEMMA NothingIs == \A p \in Patch : p # Nothing <=> p.cron # None \/ p.enabled # None
BY DEF Patch, Nothing

-----------------------------------------------------------------------------
(* Steps that overlap no writer but their own.                             *)

LEMMA Lone ==
  ASSUME SchedulesIInv, NEW a \in Actor, Writes(a), ~drift
  PROVE  /\ a \in solo /\ StageIs(a) /\ SteadyIs(a)
         /\ \A b \in Actor : b # a => ~Writes(b)
BY DEF SchedulesIInv, Alone, Stages, Writers

LEMMA MidwayWrites ==
  ASSUME Control, NEW a \in Actor, Midway(a) PROVE Writes(a)
BY DEF Control, ControlIs, Midway, Writes

\* A step of a writer.
LEMMA WriterSteps ==
  ASSUME SchedulesIInv, TypeOK', NEW a \in Actor, Writes(a), Others(a),
         UNCHANGED <<solo, drift>>, store # None => store' # None,
         ControlIs(a)', Found(a)' => store' # None,
         a \in solo /\ Writes(a)' => StageIs(a)' /\ (~drift => SteadyIs(a)'),
         ~drift /\ ~Midway(a)' => Agreed'
  PROVE  SchedulesIInv'
<1>1. \A b \in Actor : b # a => /\ Writes(b)' = Writes(b) /\ Midway(b)' = Midway(b)
                                /\ ControlIs(b)' = ControlIs(b) /\ Found(b)' = Found(b)
  BY DEF Others, Writes, Midway, ControlIs, Found
<1>2. Control'
  BY <1>1 DEF SchedulesIInv, Control
<1>3. Alone'
  <2>1. \A b \in Actor : Writes(b)' => Writes(b)
    BY <1>1
  <2>2. \A b \in solo' : Writes(b)' => \A c \in Actor : Writes(c)' => c = b
    BY <2>1 DEF SchedulesIInv, Alone, TypeOK
  <2>3. ~drift' => Writers' \subseteq solo'
    BY <2>1 DEF SchedulesIInv, Alone, Writers
  <2> QED BY <2>2, <2>3 DEF Alone
<1>4. Stages'
  <2> SUFFICES ASSUME NEW b \in solo, Writes(b)' PROVE StageIs(b)' /\ (~drift' => SteadyIs(b)')
    BY DEF Stages
  <2>1. b = a
    BY <1>1 DEF SchedulesIInv, Alone, TypeOK
  <2> QED BY <2>1
<1>5. Agrees'
  BY DEF Agrees
<1> QED BY <1>2, <1>3, <1>4, <1>5 DEF SchedulesIInv

\* A step of a GET.
LEMMA ReaderSteps ==
  ASSUME SchedulesIInv, TypeOK', NEW a \in Actor, ~Writes(a), ~Writes(a)', Others(a),
         UNCHANGED <<live, solo, drift>>, store # None => store' = store,
         \A p \in Process : store # None => mem'[p].cron \in {mem[p].cron, store.cron},
         ControlIs(a)', Found(a)' => store' # None
  PROVE  SchedulesIInv'
<1>1. \A b \in Actor : b # a => /\ Writes(b)' = Writes(b) /\ Midway(b)' = Midway(b)
                                /\ ControlIs(b)' = ControlIs(b) /\ Found(b)' = Found(b)
  BY DEF Others, Writes, Midway, ControlIs, Found
<1>2. Control'
  BY <1>1 DEF SchedulesIInv, Control
<1>3. Alone'
  <2>1. \A b \in Actor : Writes(b)' => Writes(b)
    BY <1>1
  <2>2. \A b \in solo' : Writes(b)' => \A c \in Actor : Writes(c)' => c = b
    BY <2>1 DEF SchedulesIInv, Alone, TypeOK
  <2>3. ~drift' => Writers' \subseteq solo'
    BY <2>1 DEF SchedulesIInv, Alone, Writers
  <2> QED BY <2>2, <2>3 DEF Alone
<1>4. Stages'
  <2> SUFFICES ASSUME NEW b \in solo, Writes(b)' PROVE StageIs(b)' /\ (~drift' => SteadyIs(b)')
    BY DEF Stages
  <2>1. b \in Actor /\ b # a /\ Writes(b) /\ job'[b] = job[b]
    BY <1>1 DEF SchedulesIInv, TypeOK, Others
  <2>2. StageIs(b) /\ (~drift => SteadyIs(b)) /\ ControlIs(b) /\ (Found(b) => store # None)
    BY <2>1 DEF SchedulesIInv, Stages, Control
  <2>3. SteadyIs(b)' = SteadyIs(b)
    BY <2>1 DEF SteadyIs, Disables
  <2>4. CASE store = None
    BY <2>1, <2>2, <2>3, <2>4, NothingIs
    DEF StageIs, Found, Removing, Edited, Replaced, Writes, ControlIs
  <2>5. CASE store # None
    BY <2>1, <2>2, <2>3, <2>5, Places DEF StageIs, Removing, Edited, Replaced
  <2> QED BY <2>4, <2>5
<1>5. Agrees'
  BY <1>1, MidwayWrites DEF SchedulesIInv, Agrees, Agreed, Midway, Writes, ControlIs
<1> QED BY <1>2, <1>3, <1>4, <1>5 DEF SchedulesIInv

LEMMA InitIs == Init => SchedulesIInv
<1> SUFFICES ASSUME Init PROVE SchedulesIInv
  OBVIOUS
<1>1. TypeOK
  BY IdleIs, SchedulesAssumption DEF Init, TypeOK, Default, Record
<1>2. \A a \in Actor : ~Writes(a)
  BY DEF Init, Writes, Idle
<1>3. Control
  BY DEF Init, Control, ControlIs, Found, Idle, Nothing
<1>4. Alone /\ Stages
  BY <1>2 DEF Init, Alone, Stages, Writers
<1>5. Agrees
  BY DEF Init, Agrees, Agreed
<1> QED BY <1>1, <1>3, <1>4, <1>5 DEF SchedulesIInv

-----------------------------------------------------------------------------
(* Beginnings.                                                             *)

LEMMA Begun ==
  ASSUME TypeOK, NEW a \in Actor, NEW op \in Op, NEW patch \in Patch, Begins(a, op, patch)
  PROVE  /\ job' \in [Actor -> Job] /\ Others(a) /\ job[a] = Idle
         /\ job'[a].op = op /\ job'[a].at = "refresh" /\ job'[a].patch = patch
<1>1. job'[a] = [Idle EXCEPT !.op = op, !.at = "refresh", !.patch = patch] /\ job[a] = Idle
  BY DEF TypeOK, Begins
<1>2. job'[a] \in Job
  BY <1>1, IdleIs DEF Job, At
<1>3. job' \in [Actor -> Job] /\ Others(a)
  BY <1>2 DEF TypeOK, Begins, Others
<1> QED BY <1>1, <1>2, <1>3, IdleIs DEF Job

LEMMA GetSteps ==
  ASSUME SchedulesIInv, NEW a \in Client, Get(a) PROVE SchedulesIInv'
<1>0. TypeOK /\ a \in Actor /\ "final" \in Op /\ Nothing \in Patch /\ a \notin Worker
  BY SchedulesAssumption DEF SchedulesIInv, Actor, Op, Patch, Nothing
<1>1. /\ job' \in [Actor -> Job] /\ Others(a) /\ job[a] = Idle
      /\ job'[a].op = "final" /\ job'[a].at = "refresh" /\ job'[a].patch = Nothing
  BY <1>0, Begun DEF Get
<1>2. TypeOK'
  BY <1>0, <1>1 DEF TypeOK, Get, Begins
<1>3. ~Writes(a) /\ ~Writes(a)'
  BY <1>1 DEF Writes, Idle
<1>4. ControlIs(a)' /\ ~Found(a)'
  BY <1>0, <1>1 DEF ControlIs, Found, Idle
<1> QED BY <1>0, <1>1, <1>2, <1>3, <1>4, ReaderSteps DEF Get, Begins

\* A PUT or a start begins.
LEMMA WriterBegins ==
  ASSUME SchedulesIInv, TypeOK', NEW a \in Actor, NEW op \in {"view", "start"},
         NEW patch \in Patch, BeginsWriting(a, op, patch),
         op = "start" <=> a \in Worker, op = "start" <=> patch = Nothing
  PROVE  SchedulesIInv'
<1>1. /\ Others(a) /\ job[a] = Idle
      /\ job'[a].op = op /\ job'[a].at = "refresh" /\ job'[a].patch = patch
  BY Begun DEF SchedulesIInv, BeginsWriting, Op
<1>2. /\ \A b \in Actor : b # a => /\ Writes(b)' = Writes(b) /\ ControlIs(b)' = ControlIs(b)
                                   /\ Found(b)' = Found(b)
      /\ \A b \in Actor : ~Writes(b) => ~Midway(b)
  BY <1>1, MidwayWrites DEF SchedulesIInv, Others, Writes, ControlIs, Found
<1>3. UNCHANGED <<store, live>> /\ ~Writes(a)
  BY <1>1 DEF BeginsWriting, Begins, Writes, Idle
<1>4. Control'
  <2>1. ControlIs(a)' /\ ~Found(a)'
    BY <1>1 DEF ControlIs, Found, Idle
  <2> QED BY <1>2, <1>3, <2>1 DEF SchedulesIInv, Control
<1>5. Alone'
  BY <1>1, <1>2, <1>3 DEF Alone, BeginsWriting, Writers, Writes
<1>6. Stages'
  BY <1>1 DEF Stages, StageIs, SteadyIs, Removing, Edited, Replaced, BeginsWriting
<1>7. Agrees'
  BY <1>2, <1>3 DEF SchedulesIInv, Agrees, Agreed, BeginsWriting, Writers
<1> QED BY <1>4, <1>5, <1>6, <1>7 DEF SchedulesIInv

LEMMA PutSteps ==
  ASSUME SchedulesIInv, NEW a \in Client, NEW patch \in Patches[a], Put(a, patch)
  PROVE  SchedulesIInv'
<1>0. TypeOK /\ a \in Actor /\ a \notin Worker /\ patch \in Patch /\ patch # Nothing
  BY SchedulesAssumption DEF SchedulesIInv, Actor
<1>1. job' \in [Actor -> Job]
  BY <1>0, Begun DEF Put, BeginsWriting, Op
<1>2. TypeOK'
  BY <1>0, <1>1 DEF TypeOK, Put, BeginsWriting, Begins
<1> QED BY <1>0, <1>2, WriterBegins DEF Put

LEMMA StartSteps ==
  ASSUME SchedulesIInv, NEW w \in Worker, Start(w) PROVE SchedulesIInv'
<1>0. TypeOK /\ w \in Actor /\ Nothing \in Patch /\ Default \in Record
  BY SchedulesAssumption DEF SchedulesIInv, Actor, Patch, Nothing, Default, Record
<1>1. job' \in [Actor -> Job]
  BY <1>0, Begun DEF Start, BeginsWriting, Op
<1>2. TypeOK'
  BY <1>0, <1>1 DEF TypeOK, Start, BeginsWriting, Begins
<1> QED BY <1>0, <1>2, WriterBegins DEF Start

-----------------------------------------------------------------------------
(* Refreshing and looking.                                                 *)

LEMMA Switched ==
  ASSUME TypeOK, NEW a \in Actor, NEW m \in Record, ThenSwitch(a, m)
  PROVE  /\ job' \in [Actor -> Job] /\ Others(a)
         /\ job'[a].at = "refresh" /\ job'[a].patch = job[a].patch
         /\ \/ job'[a].op = "switch" /\ job[a].patch.enabled \notin {None, m.enabled}
            \/ job'[a].op = "final" /\ job[a].patch.enabled \in {None, m.enabled}
<1>1. CASE Switches(a, m)
  BY <1>1, Went DEF ThenSwitch, Switches, Op, At
<1>2. CASE ~Switches(a, m)
  BY <1>2, Went DEF ThenSwitch, Switches, Op, At
<1> QED BY <1>1, <1>2

LEMMA RefreshSteps ==
  ASSUME SchedulesIInv, NEW a \in Actor, Refresh(a) PROVE SchedulesIInv'
<1> DEFINE r == Seeded(mem[ProcessOf(a)])
<1>0. TypeOK /\ job[a] \in Job /\ ControlIs(a) /\ (Found(a) => store # None)
  BY DEF SchedulesIInv, Control, TypeOK
<1>1. /\ r \in Record /\ None \notin Record /\ (store # None => r = store)
      /\ store' = r /\ mem' = [mem EXCEPT ![ProcessOf(a)] = r]
      /\ job[a].at = "refresh" /\ UNCHANGED <<live, solo, drift>>
  BY <1>0, Places, SchedulesAssumption DEF Refresh, Reaches, Seeded, TypeOK, Record
<1>2. job[a].op \in {"view", "final", "edit", "switch", "start"}
  BY <1>0, <1>1 DEF ControlIs, Job, Op, Idle
<1>3. /\ job' \in [Actor -> Job] /\ Others(a) /\ job'[a].patch = job[a].patch
      /\ \/ job[a].op \in {"view", "final"} /\ job'[a].op = job[a].op /\ job'[a].at = "look"
         \/ job[a].op = "edit" /\ job'[a].op = "edit" /\ job'[a].at = "load"
         \/ /\ job[a].op = "switch" /\ job'[a].op = "switch" /\ job'[a].at = "load"
            /\ job[a].patch.enabled # r.enabled
         \/ /\ job[a].op = "switch" /\ job'[a].op = "final" /\ job'[a].at = "refresh"
            /\ job[a].patch.enabled \in {None, r.enabled}
         \/ /\ job[a].op = "start" /\ job'[a].op = "start" /\ job'[a].at = "add"
            /\ r.enabled /\ job'[a].base = r
         \/ /\ job[a].op = "start" /\ job'[a].op = "start" /\ job'[a].at = "clear"
            /\ ~r.enabled
  <2>1. CASE job[a].op \in {"view", "final"}
    BY <1>0, <2>1, Went DEF Refresh, Op, At
  <2>2. CASE job[a].op = "edit"
    BY <1>0, <2>2, Went DEF Refresh, Op, At
  <2>3. CASE job[a].op = "switch"
    BY <1>0, <2>3, Went DEF Refresh, Op, At, Switches
  <2>4. CASE job[a].op = "start"
    <3>1. ReconcilesOn(a, r)
      BY <2>4 DEF Refresh
    <3>2. CASE r.enabled
      BY <1>0, <1>1, <2>4, <3>1, <3>2, Called DEF ReconcilesOn, Op
    <3>3. CASE ~r.enabled
      BY <1>0, <2>4, <3>1, <3>3, Went DEF ReconcilesOn, Op, At
    <3> QED BY <3>2, <3>3
  <2> QED BY <1>2, <2>1, <2>2, <2>3, <2>4
<1> HIDE DEF r
<1>4. TypeOK'
  BY <1>0, <1>1, <1>3, Places DEF TypeOK
<1>5. ControlIs(a)' /\ store' # None
  BY <1>0, <1>1, <1>3 DEF ControlIs, Idle
<1>6. CASE Writes(a)
  <2>1. a \in solo => StageIs(a)'
    <3> SUFFICES ASSUME a \in solo PROVE StageIs(a)'
      OBVIOUS
    <3>1. StageIs(a)
      BY <1>6 DEF SchedulesIInv, Stages
    <3> QED BY <1>0, <1>1, <1>3, <3>1, NothingIs
        DEF StageIs, Edited, Replaced, Removing, ControlIs, Found, Writes, Job
  <2>2. ~drift => SteadyIs(a)' /\ Agreed'
    <3> SUFFICES ASSUME ~drift PROVE SteadyIs(a)' /\ Agreed'
      OBVIOUS
    <3>1. SteadyIs(a) /\ Agreed
      <4>1. \A b \in Actor : ~Midway(b)
        BY <1>1, <1>6, Lone, MidwayWrites DEF SchedulesIInv, Midway
      <4> QED BY <1>6, <4>1, Lone DEF SchedulesIInv, Agrees
    <3>2. Agreed'
      BY <1>1, <3>1 DEF Agreed
    <3>3. SteadyIs(a)'
      <4>1. Disables(a)' => job[a].patch.enabled = FALSE /\ Disables(a)
        BY <1>3 DEF Disables
      <4>2. Disables(a)' /\ r.enabled = FALSE => live = {}
        BY <1>1, <3>2 DEF Agreed
      <4>3. CASE job'[a].op = "final" /\ job[a].op = "switch"
        BY <1>1, <1>3, <4>1, <4>2, <4>3, SchedulesAssumption DEF SteadyIs
      <4>4. CASE ~(job'[a].op = "final" /\ job[a].op = "switch")
        BY <1>1, <1>3, <3>1, <4>1, <4>4 DEF SteadyIs
      <4> QED BY <4>3, <4>4
    <3> QED BY <3>2, <3>3
  <2> QED BY <1>1, <1>3, <1>4, <1>5, <1>6, <2>1, <2>2, WriterSteps
<1>7. CASE ~Writes(a)
  <2>1. ~Writes(a)'
    BY <1>3, <1>7 DEF Writes
  <2>2. \A p \in Process : store # None => mem'[p].cron \in {mem[p].cron, store.cron}
    BY <1>0, <1>1 DEF TypeOK
  <2> QED BY <1>1, <1>3, <1>4, <1>5, <1>7, <2>1, <2>2, ReaderSteps
<1> QED BY <1>6, <1>7

LEMMA LookSteps ==
  ASSUME SchedulesIInv, NEW a \in Actor, Look(a) PROVE SchedulesIInv'
<1>0. TypeOK /\ job[a] \in Job /\ ControlIs(a) /\ store # None /\ job[a].at = "look"
  BY DEF SchedulesIInv, Control, TypeOK, Found, Look, Reaches
<1>1. /\ job[a].op \in {"view", "final"} /\ UNCHANGED <<store, live, solo, drift>>
      /\ mem' = [mem EXCEPT ![ProcessOf(a)].enabled = (live # {})]
  BY <1>0 DEF Look, Reaches, ControlIs
<1>2. /\ mem' \in [Process -> Record] /\ \A p \in Process : mem'[p].cron = mem[p].cron
      /\ mem'[ProcessOf(a)].enabled = (live # {})
  BY <1>0, <1>1, Places DEF TypeOK, Record
<1>3. /\ job' \in [Actor -> Job] /\ Others(a)
      /\ \/ job[a].op = "final" /\ job'[a] = Idle
         \/ /\ job[a].op = "view" /\ job[a].patch.cron # None
            /\ job'[a].op = "edit" /\ job'[a].at = "refresh" /\ job'[a].patch = job[a].patch
         \/ /\ job[a].op = "view" /\ job[a].patch.cron = None
            /\ job'[a].at = "refresh" /\ job'[a].patch = job[a].patch
            /\ \/ job'[a].op = "switch" /\ job[a].patch.enabled # None
               \/ job'[a].op = "final" /\ (job[a].patch.enabled = FALSE => live = {})
  <2>1. CASE job[a].op = "final"
    BY <1>0, <2>1, Ended DEF Look
  <2>2. CASE job[a].op = "view" /\ job[a].patch.cron # None
    BY <1>0, <2>2, Went DEF Look, Op, At
  <2>3. CASE job[a].op = "view" /\ job[a].patch.cron = None
    <3>1. ThenSwitch(a, mem'[ProcessOf(a)]) /\ mem'[ProcessOf(a)] \in Record
      BY <1>2, <2>3, Places DEF Look
    <3>2. mem'[ProcessOf(a)].enabled = FALSE => live = {}
      BY <1>2
    <3> QED BY <1>0, <2>3, <3>1, <3>2, Switched, SchedulesAssumption
  <2> QED BY <1>1, <2>1, <2>2, <2>3
<1>4. TypeOK'
  BY <1>0, <1>1, <1>2, <1>3 DEF TypeOK
<1>5. ControlIs(a)'
  BY <1>0, <1>1, <1>3 DEF ControlIs, Idle
<1>6. CASE Writes(a)
  <2>1. Writes(a)' => StageIs(a)'
    BY <1>0, <1>1, <1>3 DEF StageIs, Edited, Replaced, Removing, Writes, Idle
  <2>2. ~drift => Agreed'
    <3> SUFFICES ASSUME ~drift PROVE Agreed'
      OBVIOUS
    <3>1. \A b \in Actor : ~Midway(b)
      BY <1>0, <1>6, Lone, MidwayWrites DEF SchedulesIInv, Midway
    <3> QED BY <1>1, <3>1 DEF SchedulesIInv, Agrees, Agreed
  <2>3. Writes(a)' => SteadyIs(a)'
    <3>1. Disables(a)' => job'[a].patch.enabled = FALSE
      BY DEF Disables
    <3>2. job'[a].op = "final" /\ Disables(a)' => live = {}
      BY <1>1, <1>3, <3>1 DEF Idle
    <3> QED BY <1>1, <1>3, <3>2 DEF SteadyIs, Idle
  <2> QED BY <1>0, <1>1, <1>3, <1>4, <1>5, <1>6, <2>1, <2>2, <2>3, WriterSteps
<1>7. CASE ~Writes(a)
  <2>1. ~Writes(a)'
    BY <1>0, <1>1, <1>3, <1>7, NothingIs DEF Writes, Idle, ControlIs
  <2> QED BY <1>0, <1>1, <1>2, <1>3, <1>4, <1>5, <1>7, <2>1, ReaderSteps
<1> QED BY <1>6, <1>7

-----------------------------------------------------------------------------
(* Updating the store.                                                     *)

LEMMA LoadSteps ==
  ASSUME SchedulesIInv, NEW a \in Actor, Load(a) PROVE SchedulesIInv'
<1>0. /\ TypeOK /\ job[a] \in Job /\ ControlIs(a) /\ job[a].at = "load"
      /\ store # None /\ store \in Record /\ UNCHANGED <<store, live, mem, solo, drift>>
  BY DEF SchedulesIInv, Control, TypeOK, Found, Load, Reaches
<1>1. job[a].op \in {"edit", "switch"} /\ Writes(a)
  BY <1>0 DEF ControlIs, Writes
<1>2. /\ job' \in [Actor -> Job] /\ Others(a) /\ job'[a].op = job[a].op
      /\ job'[a].at = "save" /\ job'[a].patch = job[a].patch /\ job'[a].base = store
  <2>1. job'[a] = [job[a] EXCEPT !.base = store, !.at = "save"]
    BY <1>0 DEF Load, TypeOK
  <2>2. job'[a] \in Job
    BY <1>0, <2>1 DEF Job, At
  <2>3. job' \in [Actor -> Job] /\ Others(a)
    BY <1>0, <2>2 DEF TypeOK, Load, Others
  <2> QED BY <1>0, <2>1, <2>3 DEF Job
<1>3. TypeOK'
  BY <1>0, <1>2 DEF TypeOK
<1>4. ControlIs(a)'
  BY <1>0, <1>1, <1>2 DEF ControlIs, Idle
<1>5. a \in solo => StageIs(a)'
  <2> SUFFICES ASSUME a \in solo PROVE StageIs(a)'
    OBVIOUS
  <2>1. StageIs(a)
    BY <1>1 DEF SchedulesIInv, Stages
  <2> QED BY <1>0, <1>1, <1>2, <2>1 DEF StageIs, Edited, Replaced, Removing
<1>6. SteadyIs(a)'
  BY <1>1, <1>2 DEF SteadyIs
<1>7. ~drift => Agreed'
  <2> SUFFICES ASSUME ~drift PROVE Agreed'
    OBVIOUS
  <2>1. \A b \in Actor : ~Midway(b)
    BY <1>0, <1>1, Lone, MidwayWrites DEF SchedulesIInv, Midway
  <2> QED BY <1>0, <2>1 DEF SchedulesIInv, Agrees, Agreed
<1> QED BY <1>0, <1>1, <1>2, <1>3, <1>4, <1>5, <1>6, <1>7, WriterSteps

LEMMA MergedIs ==
  ASSUME TypeOK, NEW a \in Actor, ControlIs(a), job[a].at = "save"
  PROVE  /\ Merged(a) \in Record
         /\ job[a].op = "edit" => /\ Merged(a).cron = job[a].patch.cron
                                  /\ Merged(a).enabled = job[a].base.enabled
         /\ job[a].op # "edit" => /\ Merged(a).cron = job[a].base.cron
                                  /\ Merged(a).enabled = job[a].patch.enabled
<1>0. job[a] \in Job
  BY DEF TypeOK
<1>1. /\ job[a].base \in Record /\ job[a].patch \in Patch
      /\ job[a].op \in {"edit", "switch"}
      /\ job[a].op = "switch" => job[a].patch.enabled # None
      /\ job[a].op = "edit" => job[a].patch.cron # None
  BY <1>0 DEF ControlIs, Job
<1>2. CASE job[a].op = "edit"
  BY <1>1, <1>2 DEF Merged, Record, Patch
<1>3. CASE job[a].op # "edit"
  BY <1>1, <1>3 DEF Merged, Record, Patch
<1> QED BY <1>2, <1>3

LEMMA SaveSteps ==
  ASSUME SchedulesIInv, NEW a \in Actor, Save(a) PROVE SchedulesIInv'
<1> DEFINE r == Merged(a)
<1>0. /\ TypeOK /\ job[a] \in Job /\ ControlIs(a) /\ job[a].at = "save" /\ store # None
      /\ UNCHANGED <<live, solo, drift>> /\ store' = r
      /\ mem' = [mem EXCEPT ![ProcessOf(a)] = r]
  BY DEF SchedulesIInv, Control, TypeOK, Found, Save, Reaches, Remembered
<1>1. job[a].op \in {"edit", "switch"} /\ Writes(a)
  BY <1>0 DEF ControlIs, Writes
<1>2. /\ r \in Record /\ r # None
      /\ job[a].op = "edit" => /\ r.cron = job[a].patch.cron
                               /\ r.enabled = job[a].base.enabled
      /\ job[a].op # "edit" => /\ r.cron = job[a].base.cron
                               /\ r.enabled = job[a].patch.enabled
  BY <1>0, MergedIs, SchedulesAssumption
<1>3. /\ job' \in [Actor -> Job] /\ Others(a) /\ job'[a].patch = job[a].patch
      /\ \/ /\ job[a].op = "edit" /\ r.enabled
            /\ job'[a].op = "edit" /\ job'[a].at = "clear"
         \/ /\ job[a].op = "edit" /\ ~r.enabled /\ job'[a].at = "refresh"
            /\ \/ job'[a].op = "switch" /\ job[a].patch.enabled # None
               \/ job'[a].op = "final"
         \/ /\ job[a].op = "switch" /\ r.enabled
            /\ job'[a].op = "switch" /\ job'[a].at = "add" /\ job'[a].base = r
         \/ /\ job[a].op = "switch" /\ ~r.enabled
            /\ job'[a].op = "switch" /\ job'[a].at = "clear"
  <2>1. CASE job[a].op = "edit" /\ r.enabled
    BY <1>0, <2>1, Went DEF Save, AfterEdit, Op, At
  <2>2. CASE job[a].op = "edit" /\ ~r.enabled
    <3>1. ThenSwitch(a, r)
      BY <2>2 DEF Save, AfterEdit
    <3> QED BY <1>0, <1>2, <2>2, <3>1, Switched
  <2>3. CASE job[a].op = "switch" /\ r.enabled
    <3>1. Adds(a, "switch", r)
      BY <2>3 DEF Save
    <3> QED BY <1>0, <1>2, <2>3, <3>1, Called DEF Op
  <2>4. CASE job[a].op = "switch" /\ ~r.enabled
    BY <1>0, <2>4, Went DEF Save, Op, At
  <2> QED BY <1>1, <2>1, <2>2, <2>3, <2>4
<1> HIDE DEF r
<1>4. TypeOK'
  BY <1>0, <1>2, <1>3, Places DEF TypeOK
<1>5. mem'[ProcessOf(a)].cron = r.cron
  BY <1>0, Places DEF TypeOK
<1>6. ControlIs(a)'
  BY <1>0, <1>1, <1>2, <1>3 DEF ControlIs, Idle
<1>7. a \in solo => StageIs(a)'
  <2> SUFFICES ASSUME a \in solo PROVE StageIs(a)'
    OBVIOUS
  <2>1. StageIs(a)
    BY <1>1 DEF SchedulesIInv, Stages
  <2>2. job[a].base = store
    BY <1>0, <2>1 DEF StageIs
  <2>3. CASE job[a].op = "edit"
    BY <1>0, <1>2, <1>3, <1>5, <2>3 DEF StageIs, Edited, Replaced, Removing
  <2>4. CASE job[a].op = "switch"
    BY <1>0, <1>2, <1>3, <2>1, <2>2, <2>4 DEF StageIs, Edited, Replaced, Removing
  <2> QED BY <1>1, <2>3, <2>4
<1>8. ~drift => SteadyIs(a)' /\ (~Midway(a)' => Agreed')
  <2> SUFFICES ASSUME ~drift PROVE SteadyIs(a)' /\ (~Midway(a)' => Agreed')
    OBVIOUS
  <2>1. \A b \in Actor : ~Midway(b)
    BY <1>0, <1>1, Lone, MidwayWrites DEF SchedulesIInv, Midway
  <2>2. Agreed /\ StageIs(a)
    BY <1>1, <2>1, Lone DEF SchedulesIInv, Agrees
  <2>3. job[a].base = store
    BY <1>0, <2>2 DEF StageIs
  <2>4. CASE job[a].op = "edit"
    <3>1. ~r.enabled => live = {}
      BY <1>2, <2>2, <2>3, <2>4 DEF Agreed
    <3>2. ~Midway(a)' => ~r.enabled
      BY <1>3, <2>4 DEF Midway
    <3>3. ~Disables(a)'
      BY <1>0, <1>3, <2>4 DEF Disables, ControlIs
    <3>4. SteadyIs(a)'
      BY <1>3, <2>4, <3>1, <3>3 DEF SteadyIs
    <3>5. ~Midway(a)' => Agreed'
      BY <1>0, <3>1, <3>2 DEF Agreed
    <3> QED BY <3>4, <3>5
  <2>5. CASE job[a].op = "switch"
    <3>1. Midway(a)'
      BY <1>3, <2>5 DEF Midway
    <3>2. r.enabled => live = {}
      BY <1>0, <1>2, <2>2, <2>5 DEF Agreed, StageIs
    <3> QED BY <1>0, <1>3, <2>5, <3>1, <3>2 DEF SteadyIs
  <2> QED BY <1>1, <2>4, <2>5
<1> QED BY <1>0, <1>1, <1>2, <1>3, <1>4, <1>6, <1>7, <1>8, WriterSteps

-----------------------------------------------------------------------------
(* Removing and adding repeatables.                                        *)

LEMMA ClearSteps ==
  ASSUME SchedulesIInv, NEW a \in Actor, Clear(a) PROVE SchedulesIInv'
<1>0. /\ TypeOK /\ job[a] \in Job /\ ControlIs(a) /\ job[a].at = "clear" /\ store # None
      /\ UNCHANGED <<store, live, mem, solo, drift>>
  BY DEF SchedulesIInv, Control, TypeOK, Found, Clear, Reaches
<1>1. job[a].op \in {"edit", "switch", "start"} /\ Writes(a)
  BY <1>0 DEF ControlIs, Writes
<1>2. /\ job' \in [Actor -> Job] /\ Others(a) /\ job'[a].op = job[a].op
      /\ job'[a].at = "remove" /\ job'[a].patch = job[a].patch /\ job'[a].todo = live
  <2>1. job'[a] = [job[a] EXCEPT !.todo = live, !.at = "remove"]
    BY <1>0 DEF Clear, TypeOK
  <2>2. job'[a] \in Job
    BY <1>0, <2>1 DEF Job, At, TypeOK
  <2>3. job' \in [Actor -> Job] /\ Others(a)
    BY <1>0, <2>2 DEF TypeOK, Clear, Others
  <2> QED BY <1>0, <2>1, <2>3 DEF Job
<1>3. TypeOK'
  BY <1>0, <1>2 DEF TypeOK
<1>4. ControlIs(a)'
  BY <1>0, <1>1, <1>2 DEF ControlIs, Idle
<1>5. a \in solo => StageIs(a)'
  <2> SUFFICES ASSUME a \in solo PROVE StageIs(a)'
    OBVIOUS
  <2>1. StageIs(a)
    BY <1>1 DEF SchedulesIInv, Stages
  <2> QED BY <1>0, <1>1, <1>2, <2>1 DEF StageIs, Edited, Replaced, Removing
<1>6. SteadyIs(a)'
  BY <1>1, <1>2 DEF SteadyIs
<1>7. ~drift /\ ~Midway(a)' => Agreed'
  <2> SUFFICES ASSUME ~drift, ~Midway(a)' PROVE Agreed'
    OBVIOUS
  <2>1. \A b \in Actor : ~Midway(b)
    BY <1>0, <1>1, <1>2, Lone, MidwayWrites DEF SchedulesIInv, Midway
  <2> QED BY <1>0, <2>1 DEF SchedulesIInv, Agrees, Agreed
<1> QED BY <1>0, <1>1, <1>2, <1>3, <1>4, <1>5, <1>6, <1>7, WriterSteps

LEMMA RemoveOneSteps ==
  ASSUME SchedulesIInv, NEW a \in Actor, NEW c \in Cron, RemoveOne(a, c) PROVE SchedulesIInv'
<1>0. /\ TypeOK /\ job[a] \in Job /\ ControlIs(a) /\ job[a].at = "remove" /\ store # None
      /\ UNCHANGED <<store, mem, solo, drift>> /\ live' = live \ {c}
  BY DEF SchedulesIInv, Control, TypeOK, Found, RemoveOne, Reaches
<1>1. job[a].op \in {"edit", "switch", "start"} /\ Writes(a)
  BY <1>0 DEF ControlIs, Writes
<1>2. /\ job' \in [Actor -> Job] /\ Others(a) /\ job'[a].op = job[a].op
      /\ job'[a].at = "remove" /\ job'[a].patch = job[a].patch
      /\ job'[a].todo = job[a].todo \ {c}
  <2>1. job'[a] = [job[a] EXCEPT !.todo = job[a].todo \ {c}]
    BY <1>0 DEF RemoveOne, TypeOK
  <2>2. job'[a] \in Job
    BY <1>0, <2>1 DEF Job
  <2>3. job' \in [Actor -> Job] /\ Others(a)
    BY <1>0, <2>2 DEF TypeOK, RemoveOne, Others
  <2> QED BY <1>0, <2>1, <2>3 DEF Job
<1>3. TypeOK'
  BY <1>0, <1>2 DEF TypeOK
<1>4. ControlIs(a)'
  BY <1>0, <1>1, <1>2 DEF ControlIs, Idle
<1>5. a \in solo => StageIs(a)'
  <2> SUFFICES ASSUME a \in solo PROVE StageIs(a)'
    OBVIOUS
  <2>1. StageIs(a)
    BY <1>1 DEF SchedulesIInv, Stages
  <2> QED BY <1>0, <1>1, <1>2, <2>1 DEF StageIs, Edited, Replaced, Removing
<1>6. SteadyIs(a)'
  BY <1>1, <1>2 DEF SteadyIs
<1>7. ~drift /\ ~Midway(a)' => Agreed'
  <2> SUFFICES ASSUME ~drift, ~Midway(a)' PROVE Agreed'
    OBVIOUS
  <2>1. \A b \in Actor : ~Midway(b)
    BY <1>0, <1>1, <1>2, Lone, MidwayWrites DEF SchedulesIInv, Midway
  <2> QED BY <1>0, <2>1 DEF SchedulesIInv, Agrees, Agreed
<1> QED BY <1>0, <1>1, <1>2, <1>3, <1>4, <1>5, <1>6, <1>7, WriterSteps

LEMMA AllRemovedSteps ==
  ASSUME SchedulesIInv, NEW a \in Actor, AllRemoved(a) PROVE SchedulesIInv'
<1>0. /\ TypeOK /\ job[a] \in Job /\ ControlIs(a) /\ job[a].at = "remove" /\ store # None
      /\ UNCHANGED <<store, live, mem, solo, drift>> /\ job[a].todo = {}
      /\ mem[ProcessOf(a)] \in Record
  BY Places DEF SchedulesIInv, Control, TypeOK, Found, AllRemoved, Reaches
<1>1. job[a].op \in {"edit", "switch", "start"} /\ Writes(a)
  BY <1>0 DEF ControlIs, Writes
<1>2. /\ job' \in [Actor -> Job] /\ Others(a)
      /\ \/ /\ job[a].op = "edit" /\ job'[a].op = "edit" /\ job'[a].at = "add"
            /\ job'[a].patch = job[a].patch /\ job'[a].base = mem[ProcessOf(a)]
         \/ /\ job[a].op = "switch" /\ job'[a].op = "final" /\ job'[a].at = "refresh"
            /\ job'[a].patch = job[a].patch
         \/ job[a].op = "start" /\ job'[a] = Idle
  <2>1. CASE job[a].op = "edit"
    <3>1. Adds(a, "edit", mem[ProcessOf(a)])
      BY <2>1 DEF AllRemoved
    <3> QED BY <1>0, <2>1, <3>1, Called DEF Op
  <2>2. CASE job[a].op = "switch"
    BY <1>0, <2>2, Went DEF AllRemoved, Op, At
  <2>3. CASE job[a].op = "start"
    BY <1>0, <2>3, Ended DEF AllRemoved
  <2> QED BY <1>1, <2>1, <2>2, <2>3
<1>3. TypeOK'
  BY <1>0, <1>2 DEF TypeOK
<1>4. ControlIs(a)'
  BY <1>0, <1>1, <1>2 DEF ControlIs, Idle
<1>5. a \in solo => live = {} /\ (Writes(a)' => StageIs(a)' /\ SteadyIs(a)')
  <2> SUFFICES ASSUME a \in solo PROVE live = {} /\ (Writes(a)' => StageIs(a)' /\ SteadyIs(a)')
    OBVIOUS
  <2>1. StageIs(a)
    BY <1>1 DEF SchedulesIInv, Stages
  <2>2. live = {}
    BY <1>0, <2>1 DEF StageIs
  <2>3. Writes(a)' => StageIs(a)'
    BY <1>0, <1>1, <1>2, <2>1 DEF StageIs, Edited, Replaced, Removing, Writes, Idle
  <2> QED BY <1>0, <2>2, <2>3 DEF SteadyIs
<1>6. ~drift => Agreed'
  BY <1>0, <1>1, <1>5, Lone DEF Agreed
<1> QED BY <1>0, <1>1, <1>2, <1>3, <1>4, <1>5, <1>6, WriterSteps

LEMMA AddSteps ==
  ASSUME SchedulesIInv, NEW a \in Actor, Add(a) PROVE SchedulesIInv'
<1>0. /\ TypeOK /\ job[a] \in Job /\ ControlIs(a) /\ job[a].at = "add" /\ store # None
      /\ UNCHANGED <<store, mem, solo, drift>> /\ live' = live \cup {job[a].base.cron}
      /\ mem[ProcessOf(a)] \in Record
  BY Places DEF SchedulesIInv, Control, TypeOK, Found, Add, Reaches
<1>1. /\ job[a].op \in {"edit", "switch", "start"} /\ Writes(a)
      /\ job[a].base \in Record /\ job[a].base.cron \in Cron
  BY <1>0 DEF ControlIs, Writes, Record
<1>2. /\ job' \in [Actor -> Job] /\ Others(a)
      /\ \/ /\ job[a].op \in {"edit", "switch"} /\ job'[a].at = "refresh"
            /\ job'[a].patch = job[a].patch
            /\ \/ /\ job[a].op = "edit" /\ job'[a].op = "switch"
                  /\ job[a].patch.enabled # None
               \/ job'[a].op = "final"
         \/ job[a].op = "start" /\ job'[a] = Idle
  <2>1. CASE job[a].op = "edit"
    <3>1. ThenSwitch(a, mem[ProcessOf(a)])
      BY <2>1 DEF Add
    <3> QED BY <1>0, <2>1, <3>1, Switched
  <2>2. CASE job[a].op = "switch"
    BY <1>0, <2>2, Went DEF Add, Op, At
  <2>3. CASE job[a].op = "start"
    BY <1>0, <2>3, Ended DEF Add
  <2> QED BY <1>1, <2>1, <2>2, <2>3
<1>3. TypeOK'
  BY <1>0, <1>1, <1>2 DEF TypeOK
<1>4. ControlIs(a)'
  BY <1>0, <1>1, <1>2 DEF ControlIs, Idle
<1>5. a \in solo => store.cron \in live' /\ store.enabled /\ (Writes(a)' => StageIs(a)')
  <2> SUFFICES ASSUME a \in solo
               PROVE  store.cron \in live' /\ store.enabled /\ (Writes(a)' => StageIs(a)')
    OBVIOUS
  <2>1. StageIs(a)
    BY <1>1 DEF SchedulesIInv, Stages
  <2>2. store.cron \in live' /\ store.enabled
    BY <1>0, <2>1 DEF StageIs
  <2>3. CASE job[a].op = "start"
    BY <1>2, <2>2, <2>3 DEF Writes, Idle
  <2>4. CASE job[a].op # "start"
    <3>1. Edited(a)' => store.cron = job'[a].patch.cron
      BY <1>0, <1>1, <1>2, <2>1, <2>4 DEF StageIs, Edited
    <3>2. Replaced(a)' => live' = {store.cron}
      BY <1>0, <1>1, <1>2, <2>1, <2>4, NothingIs
      DEF StageIs, Replaced, ControlIs, TypeOK, Job
    <3>3. store' = store /\ job'[a].at = "refresh" /\ job'[a].op \in {"switch", "final"}
      BY <1>0, <1>2, <2>4
    <3> QED BY <2>2, <3>1, <3>2, <3>3 DEF StageIs, Removing
  <2> QED BY <2>3, <2>4
<1>6. ~drift => Agreed' /\ (Writes(a)' => SteadyIs(a)')
  <2> SUFFICES ASSUME ~drift PROVE Agreed' /\ (Writes(a)' => SteadyIs(a)')
    OBVIOUS
  <2>1. a \in solo /\ StageIs(a) /\ SteadyIs(a)
    BY <1>1, Lone
  <2>2. job[a].base.cron = store.cron /\ store.enabled
    BY <1>0, <2>1 DEF StageIs
  <2>3. CASE job[a].op = "start"
    <3>1. \A b \in Actor : ~Midway(b)
      BY <1>1, <2>3, Lone, MidwayWrites DEF SchedulesIInv, Midway
    <3> QED BY <1>0, <1>1, <1>2, <2>2, <2>3, <3>1
        DEF SchedulesIInv, Agrees, Agreed, Writes, Idle
  <2>4. CASE job[a].op # "start"
    <3>1. live = {}
      BY <1>0, <1>1, <2>1, <2>4 DEF StageIs, SteadyIs
    <3>2. Agreed'
      BY <1>0, <1>1, <2>2, <3>1 DEF Agreed
    <3>3. ~Disables(a)'
      BY <1>0, <1>1, <1>2, <2>4 DEF Disables, ControlIs
    <3> QED BY <1>2, <2>4, <3>2, <3>3 DEF SteadyIs
  <2> QED BY <2>3, <2>4
<1> QED BY <1>0, <1>1, <1>2, <1>3, <1>4, <1>5, <1>6, WriterSteps

-----------------------------------------------------------------------------
(* Faults.                                                                 *)

LEMMA BreakSteps ==
  ASSUME SchedulesIInv, TypeOK', NEW lost \in SUBSET Actor, Breaks(lost),
         \A a \in Actor \ lost : mem'[ProcessOf(a)] = mem[ProcessOf(a)]
  PROVE  SchedulesIInv'
<1>0. /\ UNCHANGED <<store, live>> /\ solo' = solo \ lost /\ solo \subseteq Actor
      /\ ~drift' => ~drift /\ \A a \in lost : ~Midway(a)
  BY DEF SchedulesIInv, TypeOK, Breaks
<1>1. /\ \A a \in lost : job'[a] = Idle
      /\ \A a \in Actor \ lost : job'[a] = job[a]
  BY DEF Breaks
<1>2. \A a \in Actor : Writes(a)' => Writes(a) /\ a \notin lost
  BY <1>1 DEF Writes, Idle
<1>3. Control'
  <2> SUFFICES ASSUME NEW a \in Actor PROVE ControlIs(a)' /\ (Found(a)' => store' # None)
    BY DEF Control
  <2>1. CASE a \in lost
    BY <1>1, <2>1 DEF ControlIs, Found, Idle, Nothing
  <2>2. CASE a \notin lost
    BY <1>0, <1>1, <2>2 DEF SchedulesIInv, Control, ControlIs, Found
  <2> QED BY <2>1, <2>2
<1>4. Alone'
  <2>1. \A a \in solo' : Writes(a)' => \A b \in Actor : Writes(b)' => b = a
    BY <1>0, <1>2 DEF SchedulesIInv, Alone
  <2>2. ~drift' => Writers' \subseteq solo'
    BY <1>0, <1>2 DEF SchedulesIInv, Alone, Writers
  <2> QED BY <2>1, <2>2 DEF Alone
<1>5. Stages'
  <2> SUFFICES ASSUME NEW a \in solo', Writes(a)' PROVE StageIs(a)' /\ (~drift' => SteadyIs(a)')
    BY DEF Stages
  <2>1. a \in solo /\ a \in Actor \ lost /\ Writes(a)
    BY <1>0, <1>2
  <2>2. job'[a] = job[a] /\ mem'[ProcessOf(a)] = mem[ProcessOf(a)]
    BY <1>1, <2>1
  <2>3. StageIs(a) /\ (~drift => SteadyIs(a))
    BY <2>1 DEF SchedulesIInv, Stages
  <2> QED BY <1>0, <2>2, <2>3 DEF StageIs, SteadyIs, Edited, Replaced, Removing, Disables
<1>6. Agrees'
  <2>1. ~drift' /\ (\A a \in Actor : ~Midway(a)') => \A a \in Actor : ~Midway(a)
    BY <1>0, <1>1 DEF Midway
  <2> QED BY <1>0, <2>1 DEF SchedulesIInv, Agrees, Agreed
<1> QED BY <1>3, <1>4, <1>5, <1>6 DEF SchedulesIInv

LEMMA FailSteps ==
  ASSUME SchedulesIInv, NEW a \in Actor, Fail(a) PROVE SchedulesIInv'
<1>1. TypeOK'
  BY IdleIs DEF SchedulesIInv, TypeOK, Fail, Breaks
<1> QED BY <1>1, BreakSteps DEF Fail

LEMMA CrashSteps ==
  ASSUME SchedulesIInv, NEW p \in Server, Crash(p) PROVE SchedulesIInv'
<1>0. TypeOK /\ p \in Process /\ Default \in Record
  BY SchedulesAssumption DEF SchedulesIInv, Process, Default, Record
<1> DEFINE lost == {a \in Actor : ProcessOf(a) = p}
<1>1. TypeOK'
  BY <1>0, IdleIs DEF TypeOK, Crash, Breaks
<1>2. \A a \in Actor \ lost : mem'[ProcessOf(a)] = mem[ProcessOf(a)]
  BY <1>0, Places DEF TypeOK, Crash
<1> QED BY <1>1, <1>2, BreakSteps DEF Crash

-----------------------------------------------------------------------------
(* What the schedules promise.                                             *)

LEMMA ScheduleSteps == SchedulesIInv /\ [Next]_vars => SchedulesIInv'
<1> SUFFICES ASSUME SchedulesIInv, [Next]_vars PROVE SchedulesIInv'
  OBVIOUS
<1>1. CASE UNCHANGED vars
  <2>1. \A a \in Actor : /\ Writes(a)' = Writes(a) /\ Midway(a)' = Midway(a)
                         /\ ControlIs(a)' = ControlIs(a) /\ Found(a)' = Found(a)
                         /\ StageIs(a)' = StageIs(a) /\ SteadyIs(a)' = SteadyIs(a)
    BY <1>1
    DEF vars, Writes, Midway, ControlIs, Found, StageIs, SteadyIs, Edited, Replaced, Removing,
        Disables
  <2>2. TypeOK' /\ Control'
    BY <1>1, <2>1 DEF SchedulesIInv, TypeOK, Control, vars
  <2>3. Alone' /\ Stages'
    BY <1>1, <2>1 DEF SchedulesIInv, TypeOK, Alone, Stages, Writers, vars
  <2>4. Agrees'
    BY <1>1, <2>1 DEF SchedulesIInv, Agrees, Agreed, vars
  <2> QED BY <2>2, <2>3, <2>4 DEF SchedulesIInv
<1>2. CASE \E a \in Client : Get(a) \/ \E patch \in Patches[a] : Put(a, patch)
  BY <1>2, GetSteps, PutSteps
<1>3. CASE \E w \in Worker : Start(w)
  BY <1>3, StartSteps
<1>4. CASE \E a \in Actor : Step(a)
  BY <1>4, RefreshSteps, LookSteps, LoadSteps, SaveSteps, ClearSteps, RemoveOneSteps,
     AllRemovedSteps, AddSteps, FailSteps DEF Step
<1>5. CASE \E p \in Server : Crash(p)
  BY <1>5, CrashSteps
<1> QED BY <1>1, <1>2, <1>3, <1>4, <1>5 DEF Next

LEMMA SchedulesAreInvariant == Spec => []SchedulesIInv
BY InitIs, ScheduleSteps, PTL DEF Spec

\* While writers take turns and none is lost midway, the store and the repeatables agree
\* at rest.
THEOREM SchedulesAgree == Spec => []SchedulesInv
<1>1. SchedulesIInv => SchedulesInv
  <2> SUFFICES ASSUME SchedulesIInv, Writers = {}, ~drift PROVE Agreed
    BY DEF SchedulesIInv, SchedulesInv, Agreement, Agreed
  <2>1. \A a \in Actor : ~Midway(a)
    BY MidwayWrites DEF SchedulesIInv, Writers
  <2> QED BY <2>1 DEF SchedulesIInv, Agrees
<1> QED BY <1>1, SchedulesAreInvariant, PTL

\* A step that goes on to another stage touches one actor, and does not end it.
LEMMA GoesOn ==
  ASSUME TypeOK, NEW b \in Actor,
         \/ \E op \in Op, at \in At \ {"idle"} : Goes(b, op, at)
         \/ \E op \in Op, r \in Record : Adds(b, op, r)
         \/ \E r \in Record : ThenSwitch(b, r)
  PROVE  Others(b) /\ job'[b] # Idle
BY Went, Called, Switched DEF Idle

LEMMA RefreshGoesOn ==
  ASSUME SchedulesIInv, NEW b \in Actor, Refresh(b) PROVE Others(b) /\ job'[b] # Idle
<1> DEFINE r == Seeded(mem[ProcessOf(b)])
<1>0. TypeOK /\ job[b] \in Job /\ ControlIs(b) /\ job[b].at = "refresh" /\ r \in Record
  BY Places DEF SchedulesIInv, Control, TypeOK, Refresh, Reaches, Seeded
<1>1. job[b].op \in {"view", "final", "edit", "switch", "start"}
  BY <1>0 DEF ControlIs, Job, Op, Idle
<1>2. CASE job[b].op \in {"view", "final"}
  <2>1. Goes(b, job[b].op, "look")
    BY <1>2 DEF Refresh
  <2> QED BY <1>0, <1>2, <2>1, GoesOn DEF Op, At
<1>3. CASE job[b].op = "edit"
  <2>1. Goes(b, "edit", "load")
    BY <1>3 DEF Refresh
  <2> QED BY <1>0, <2>1, GoesOn DEF Op, At
<1>4. CASE job[b].op = "switch"
  <2>1. Goes(b, "switch", "load") \/ Goes(b, "final", "refresh")
    BY <1>4 DEF Refresh
  <2> QED BY <1>0, <2>1, GoesOn DEF Op, At
<1>5. CASE job[b].op = "start"
  <2>1. Adds(b, "start", r) \/ Goes(b, "start", "clear")
    BY <1>5 DEF Refresh, ReconcilesOn
  <2> QED BY <1>0, <2>1, GoesOn DEF Op, At
<1> QED BY <1>1, <1>2, <1>3, <1>4, <1>5

LEMMA LookEnds ==
  ASSUME SchedulesIInv, NEW b \in Actor, Look(b)
  PROVE  Others(b) /\ (job'[b] = Idle => job[b].op = "final")
<1>0. TypeOK /\ mem'[ProcessOf(b)] \in Record
  BY Places DEF SchedulesIInv, TypeOK, Look, Record
<1>1. CASE job[b].op = "final"
  BY <1>0, <1>1, Ended DEF Look
<1>2. CASE job[b].op # "final"
  <2>1. Goes(b, "edit", "refresh") \/ ThenSwitch(b, mem'[ProcessOf(b)])
    BY <1>2 DEF Look
  <2> QED BY <1>0, <1>2, <2>1, GoesOn DEF Op, At
<1> QED BY <1>1, <1>2

LEMMA SaveGoesOn ==
  ASSUME SchedulesIInv, NEW b \in Actor, Save(b) PROVE Others(b) /\ job'[b] # Idle
<1>0. TypeOK /\ Merged(b) \in Record
  BY MergedIs DEF SchedulesIInv, Control, Save, Reaches
<1>1. \/ Goes(b, "edit", "clear") \/ ThenSwitch(b, Merged(b))
      \/ Adds(b, "switch", Merged(b)) \/ Goes(b, "switch", "clear")
  BY DEF Save, AfterEdit
<1> QED BY <1>0, <1>1, GoesOn DEF Op, At

\* Loading and removing keep the operation.
LEMMA OtherStepsGoOn ==
  ASSUME SchedulesIInv, NEW b \in Actor, Load(b) \/ Clear(b) \/ \E c \in Cron : RemoveOne(b, c)
  PROVE  Others(b) /\ job'[b] # Idle
<1>0. TypeOK /\ job[b] \in Job /\ ControlIs(b) /\ job[b].op # "none"
  BY DEF SchedulesIInv, Control, TypeOK, ControlIs, Load, Clear, RemoveOne, Reaches
<1>1. job'[b].op = job[b].op /\ Others(b)
  BY <1>0 DEF TypeOK, Job, Others, Load, Clear, RemoveOne
<1> QED BY <1>0, <1>1 DEF Idle

LEMMA RemovedOrAdded ==
  ASSUME SchedulesIInv, NEW b \in Actor, AllRemoved(b) \/ Add(b)
  PROVE  Others(b) /\ (job'[b] = Idle => job[b].op = "start")
<1>0. /\ TypeOK /\ job[b].op \in {"edit", "switch", "start"}
      /\ mem[ProcessOf(b)] \in Record
  BY Places DEF SchedulesIInv, Control, TypeOK, ControlIs, AllRemoved, Add, Reaches
<1>1. CASE job[b].op = "start"
  BY <1>0, <1>1, Ended DEF AllRemoved, Add
<1>2. CASE job[b].op # "start"
  <2>1. \/ Adds(b, "edit", mem[ProcessOf(b)]) \/ Goes(b, "final", "refresh")
        \/ ThenSwitch(b, mem[ProcessOf(b)])
    BY <1>0, <1>2 DEF AllRemoved, Add
  <2> QED BY <1>0, <1>2, <2>1, GoesOn DEF Op, At
<1> QED BY <1>1, <1>2

\* The steps with which a request or a start ends in success.
LEMMA EndsBy ==
  ASSUME SchedulesIInv, [Next]_vars, NEW a \in Actor, Completes(a)
  PROVE  \/ job[a].op = "final" /\ Look(a)
         \/ job[a].op = "start" /\ (AllRemoved(a) \/ Add(a))
<1>0. TypeOK /\ job[a] # Idle /\ job'[a] = Idle /\ a \in solo'
  BY DEF SchedulesIInv, Completes
<1>1. Next
  BY <1>0 DEF vars
<1>2. ASSUME NEW b \in Actor, Others(b) PROVE b = a
  BY <1>0, <1>2 DEF Others
<1>3. ASSUME NEW b \in Client, Get(b) PROVE FALSE
  <2>1. Others(b) /\ job[b] = Idle
    BY <1>0, <1>3, Begun, SchedulesAssumption DEF Get, Actor, Op, Patch, Nothing
  <2> QED BY <1>0, <1>2, <2>1 DEF Actor
<1>4. ASSUME NEW b \in Client, NEW patch \in Patches[b], Put(b, patch) PROVE FALSE
  <2>1. Others(b) /\ job[b] = Idle
    BY <1>0, <1>4, Begun, SchedulesAssumption DEF Put, BeginsWriting, Actor, Op
  <2> QED BY <1>0, <1>2, <2>1 DEF Actor
<1>5. ASSUME NEW b \in Worker, Start(b) PROVE FALSE
  <2>1. Others(b) /\ job[b] = Idle
    BY <1>0, <1>5, Begun, SchedulesAssumption DEF Start, BeginsWriting, Actor, Op, Patch, Nothing
  <2> QED BY <1>0, <1>2, <2>1 DEF Actor
<1>6. ASSUME NEW p \in Server, Crash(p) PROVE FALSE
  BY <1>0, <1>6 DEF Crash, Breaks
<1>7. ASSUME NEW b \in Actor, Fail(b) PROVE FALSE
  BY <1>0, <1>7 DEF Fail, Breaks
<1>8. PICK b \in Actor : Step(b) /\ ~Fail(b)
  BY <1>1, <1>3, <1>4, <1>5, <1>6, <1>7 DEF Next, Step
<1>9. b = a
  BY <1>2, <1>8, RefreshGoesOn, LookEnds, SaveGoesOn, OtherStepsGoOn, RemovedOrAdded DEF Step
<1> QED BY <1>0, <1>8, <1>9, RefreshGoesOn, LookEnds, SaveGoesOn, OtherStepsGoOn, RemovedOrAdded
    DEF Step

\* Where nothing drifted, a start that nothing overlapped ends in agreement.
LEMMA StartEndsAgreed ==
  ASSUME SchedulesIInv, [Next]_vars, NEW w \in Worker, Completes(w), job[w].op = "start",
         UNCHANGED <<store, drift>>, ~drift
  PROVE  live' \subseteq {store.cron} /\ (live' # {} => store.enabled)
<1>1. w \in Actor /\ w \in solo /\ Writes(w) /\ ~Midway(w)
  BY DEF Actor, Completes, Writes, Midway
<1>2. \A b \in Actor : b # w => ~Midway(b)
  BY <1>1, Lone, MidwayWrites DEF SchedulesIInv
<1>3. (\A b \in Actor : b # w => job'[b] = job[b]) /\ job'[w] = Idle
  BY EndsBy, RemovedOrAdded, LookEnds, <1>1 DEF Completes, Others
<1>4. \A b \in Actor : ~Midway(b)'
  BY <1>2, <1>3 DEF Midway, Idle
<1>5. SchedulesIInv'
  BY ScheduleSteps
<1>6. Agreed'
  BY <1>4, <1>5 DEF SchedulesIInv, Agrees
<1> QED BY <1>6 DEF Agreed

\* A start that nothing overlaps cleans a disabled schedule and makes an enabled one run,
\* whatever overlapped or failed before; where nothing drifted it leaves exactly what the
\* record says.
THEOREM StartsReconcile == Spec => StartReconciles
<1>1. SchedulesIInv /\ [Next]_vars => [\A w \in Worker : StartIsDone(w)]_vars
  <2> SUFFICES ASSUME SchedulesIInv, [Next]_vars, NEW w \in Worker, Completes(w)
               PROVE  StartIsDone(w)
    BY DEF StartIsDone
  <2>0. w \in Actor /\ ControlIs(w) /\ w \in solo
    BY DEF SchedulesIInv, Control, Actor, Completes
  <2>1. job[w].op = "start" /\ (AllRemoved(w) \/ Add(w))
    BY <2>0, EndsBy DEF ControlIs
  <2>2. StageIs(w)
    BY <2>0, <2>1 DEF SchedulesIInv, Stages, Writes
  <2>3. UNCHANGED <<store, drift>> /\ (~store.enabled => live' = {})
        /\ (store.enabled => store.cron \in live')
    <3>1. CASE AllRemoved(w)
      <4>1. /\ UNCHANGED <<store, drift>> /\ live' = live
            /\ job[w].at = "remove" /\ job[w].todo = {}
        BY <3>1 DEF AllRemoved, Reaches
      <4> QED BY <2>1, <2>2, <4>1 DEF StageIs, Removing
    <3>2. CASE Add(w)
      <4>1. /\ UNCHANGED <<store, drift>> /\ live' = live \cup {job[w].base.cron}
            /\ job[w].at = "add"
        BY <3>2 DEF Add, Reaches
      <4> QED BY <2>2, <4>1 DEF StageIs
    <3> QED BY <2>1, <3>1, <3>2
  <2>4. ~drift => live' = Effective'
    <3> SUFFICES ASSUME ~drift PROVE live' = Effective'
      OBVIOUS
    <3>1. live' \subseteq {store.cron} /\ (live' # {} => store.enabled)
      BY <2>1, <2>3, StartEndsAgreed
    <3> QED BY <2>3, <3>1 DEF Effective
  <2> QED BY <2>3, <2>4 DEF StartIsDone
<1> QED BY <1>1, SchedulesAreInvariant, PTL DEF Spec, StartReconciles

\* A PUT that nothing overlaps takes effect.
THEOREM EditsAreDone == Spec => EditsTakeEffect
<1>1. SchedulesIInv /\ [Next]_vars => [\A a \in Client : EditIsDone(a)]_vars
  <2> SUFFICES ASSUME SchedulesIInv, [Next]_vars, NEW a \in Client, Completes(a)
               PROVE  EditIsDone(a)
    BY DEF EditIsDone
  <2>0. a \in Actor /\ a \notin Worker /\ ControlIs(a) /\ a \in solo /\ job[a] \in Job
    BY SchedulesAssumption DEF SchedulesIInv, Control, Actor, Completes, TypeOK
  <2>1. job[a].op = "final" /\ Look(a)
    BY <2>0, EndsBy DEF ControlIs
  <2>2. store' = store /\ live' = live /\ job[a].at = "look"
    BY <2>1 DEF Look, Reaches
  <2>3. CASE ~Writes(a)
    <3>1. job[a].patch.cron = None /\ job[a].patch.enabled = None
      BY <2>3 DEF Writes, Nothing
    <3>2. None # FALSE
      BY SchedulesAssumption
    <3>3. job[a].patch # [cron |-> None, enabled |-> FALSE]
      <4>1. ASSUME job[a].patch = [cron |-> None, enabled |-> FALSE]
            PROVE  job[a].patch.enabled = FALSE
        BY <4>1
      <4> QED BY <3>1, <3>2, <4>1
    <3> QED BY <3>1, <3>3 DEF EditIsDone
  <2>4. CASE Writes(a)
    <3>1. StageIs(a) /\ (~drift => SteadyIs(a))
      BY <2>0, <2>4 DEF SchedulesIInv, Stages
    <3>2. job[a].patch.cron # None =>
            store.cron = job[a].patch.cron /\ (store.enabled => store.cron \in live)
      BY <2>1, <2>2, <3>1 DEF StageIs, Edited
    <3>3. job[a].patch = [cron |-> None, enabled |-> FALSE] /\ ~drift => live = {}
      BY <2>1, <2>2, <3>1 DEF StageIs, SteadyIs, Disables
    <3>4. job[a].patch.cron # None /\ job[a].patch.enabled = None /\ store.enabled =>
            live = {store.cron}
      BY <2>1, <3>1 DEF StageIs, Replaced
    <3> QED BY <2>2, <3>2, <3>3, <3>4 DEF EditIsDone
  <2> QED BY <2>3, <2>4
<1> QED BY <1>1, SchedulesAreInvariant, PTL DEF Spec, EditsTakeEffect
=============================================================================
