---------------------------- MODULE JournalProofs ----------------------------
(***************************************************************************)
(* JournalInv is inductive: the journal's variables keep their types, and  *)
(* every step keeps the parts of the invariant.  From it follow the        *)
(* properties, and the refinement of AtomicWrite.                          *)
(***************************************************************************)
EXTENDS JournalInvariant, JournalRefinement, TLAPS

------------------------------------------------------------------------------
(* Types.                                                                  *)

LEMMA ClosedType ==
  ASSUME TypeOK, NEW S \in SUBSET Op, NEW s \in RowState
  PROVE  Closed(S, s) \in [Op -> Row]
<1>1. ASSUME NEW o \in Op
      PROVE  [ops[o] EXCEPT !.state = s, !.claim = None, !.lapsed = FALSE,
                            !.plan = IF s = "failed" THEN @ ELSE "null"] \in Row
  <2>1. ops[o] \in Row BY DEF TypeOK
  <2>2. QED BY <2>1 DEF Row, PlanValue
<1>2. \A o \in Op : ops[o] \in Row BY DEF TypeOK
<1>3. QED BY <1>1, <1>2 DEF Closed

LEMMA ClosedFields ==
  ASSUME TypeOK, NEW S \in SUBSET Op, NEW s \in RowState, NEW o \in Op
  PROVE  /\ Closed(S, s)[o].state = IF o \in S THEN s ELSE ops[o].state
         /\ Closed(S, s)[o].plan = IF o \in S /\ s # "failed" THEN "null" ELSE ops[o].plan
         /\ Closed(S, s)[o].effect = ops[o].effect
         /\ Closed(S, s)[o].operation = ops[o].operation
BY DEF TypeOK, Closed, Row

LEMMA ReleaseType ==
  ASSUME TypeOK, NEW v \in Worker, NEW o \in Op, Release(v, o)
  PROVE  ops' \in [Op -> Row]
<1>1. [ops[o] EXCEPT !.claim = None, !.lapsed = FALSE] \in Row
  <2>1. ops[o] \in Row BY DEF TypeOK
  <2>2. QED BY <2>1 DEF Row
<1>2. \/ ops' = [ops EXCEPT ![o] = [ops[o] EXCEPT !.claim = None, !.lapsed = FALSE]]
      \/ ops' = [ops EXCEPT ![o] = ops[o]]
  BY DEF Release
<1>3. QED BY <1>1, <1>2 DEF TypeOK

LEMMA ClaimType ==
  ASSUME TypeOK, NEW v \in Worker, NEW S \in SUBSET Op, Claim(v, S)
  PROVE  ops' \in [Op -> Row] /\ todo' \in [Worker -> SUBSET Claimed]
<1>1. ops' \in [Op -> Row]
  BY DEF TypeOK, Claim, Row
<1>2. \A o \in Op : Returning(o) \in Claimed
  BY DEF TypeOK, Returning, Row, Claimed
<1>3. {Returning(o) : o \in S} \subseteq Claimed
  BY <1>2
<1>4. QED BY <1>1, <1>3 DEF TypeOK, Claim

LEMMA InitType == Init => TypeOK
BY JournalAssumption DEF Init, TypeOK, NoRow, Row, RowState, PlanValue, Operation, Fence,
   Claimed, Decision, WState, Running, Ended, Worker

LEMMA RunType == ASSUME TypeOK, NEW g \in Group, RunStep(g) PROVE TypeOK'
<1> USE DEF TypeOK, Worker
<1>1. CASE Refuse(g) BY <1>1 DEF Refuse, Moves, Running, Ended, pgVars, neoVars, sweepVars
<1>2. CASE Admit(g)
  <2>1. ops' \in [Op -> Row] BY <1>2 DEF Admit, NoRow, Row, RowState, PlanValue, Operation
  <2> QED BY <1>2, <2>1 DEF Admit, Moves, Running, Ended, neoVars, sweepVars
<1>3. CASE Clash(g) BY <1>3 DEF Clash, Moves, Running, Ended, pgVars, neoVars, sweepVars
<1>4. CASE Inspect(g)
   BY <1>4 DEF Inspect, ExpiredHolders, Moves, Running, Ended, pgVars, neoVars, sweepVars
<1>5. CASE Recovered(g) BY <1>5 DEF Recovered, Moves, Running, Ended, pgVars, neoVars, sweepVars
<1>6. CASE \E o \in Op : RecoverHolder(g, o)
  <2>1. PICK o \in Op : RecoverHolder(g, o) BY <1>6
  <2>2. ops' \in [Op -> Row] /\ todo' \in [Worker -> SUBSET Claimed]
    BY <2>1, ClaimType DEF RecoverHolder
  <2> QED BY <2>1, <2>2 DEF RecoverHolder, neoVars
<1>7. CASE PlanFails(g)
  BY <1>7, ClosedType DEF PlanFails, AbortGroup, Pending, Slots, Moves, Running, Ended, RowState, neoVars, sweepVars
<1>8. CASE \E p \in Plans : T1b(g, p)
  <2>1. PICK p \in Plans : T1b(g, p) BY <1>8
  <2>2. p \in PlanValue BY JournalAssumption DEF PlanValue
  <2>3. ASSUME NEW o \in Op PROVE ops'[o] \in Row
    <3> DEFINE effect == p \in GraphPlans
    <3>1. ops[o] \in Row /\ effect \in BOOLEAN OBVIOUS
    <3>2. ops'[o] \in {ops[o], [ops[o] EXCEPT !.plan = p, !.effect = effect, !.lapsed = FALSE,
                                   !.operation = IF p = "hold" THEN "hold" ELSE @]}
      BY <2>1 DEF T1b
    <3> HIDE DEF effect
    <3> QED BY <3>1, <3>2, <2>2 DEF Row, Operation
  <2>4. ops' \in [Op -> Row] BY <2>1, <2>3 DEF T1b
  <2> QED BY <2>1, <2>4 DEF T1b, Moves, Running, Ended, neoVars, sweepVars
<1>9. CASE SendW(g) BY <1>9 DEF SendW, Moves, Running, Ended, WState, pgVars, neoVars, sweepVars
<1>10. CASE AbortRun(g)
  BY <1>10, ClosedType DEF AbortRun, AbortGroup, Pending, Slots, Moves, Running, Ended, RowState, neoVars, sweepVars
<1>11. CASE WAnswered(g) BY <1>11 DEF WAnswered, Moves, Running, Ended, pgVars, neoVars, sweepVars
<1>12. CASE RunT2(g)
  <2>1. CASE Commit(g) /\ \E to \in {"done", "unproven"} : Moves(g, {"written"}, to)
    <3>1. Closed(Slots(g), "committed") \in [Op -> Row]
      BY ClosedType DEF Slots, RowState
    <3> QED BY <1>12, <2>1, <3>1 DEF RunT2, Commit, Moves, Running, Ended, neoVars, sweepVars
  <2>2. CASE UNCHANGED pgVars /\ \E to \in {"done", "unproven"} : Moves(g, {"written"}, to)
    BY <1>12, <2>2 DEF RunT2, Moves, Running, Ended, pgVars, neoVars, sweepVars
  <2> QED BY <1>12, <2>1, <2>2 DEF RunT2
<1>13. CASE Answer(g) BY <1>13 DEF Answer, Moves, Running, Ended, pgVars, neoVars, sweepVars
<1>14. CASE Abandon(g) BY <1>14 DEF Abandon, Moves, Running, Ended, pgVars, neoVars
<1> QED BY <1>1, <1>2, <1>3, <1>4, <1>5, <1>6, <1>7, <1>8, <1>9, <1>10, <1>11, <1>12, <1>13, <1>14 DEF RunStep

LEMMA SweepType ==
  ASSUME TypeOK, NEW v \in Worker, SweepStep(v)
  PROVE  TypeOK'
<1> USE DEF TypeOK
<1>1. CASE \E S \in SUBSET Op : StartSweep(v, S)
  <2>1. PICK S \in SUBSET Op : StartSweep(v, S) BY <1>1
  <2>2. ops' \in [Op -> Row] /\ todo' \in [Worker -> SUBSET Claimed]
    BY <2>1, ClaimType DEF StartSweep
  <2> QED BY <2>1, <2>2 DEF StartSweep, neoVars
<1>2. ASSUME NEW r \in todo[v], FenceRow(v, r) PROVE TypeOK'
  <2>1. r \in Claimed OBVIOUS
  <2>2. Merged(r) \in [Op -> Fence]
    BY <2>1 DEF Merged, Claimed, Fence
  <2>3. fence' \in [Op -> Fence] BY <1>2, <2>2 DEF FenceRow
  <2>4. PICK d : deciding' = [deciding EXCEPT ![v] = {d}] /\ d \in Decision
    <3> DEFINE h == IF ~r.effect THEN "applied"
                    ELSE IF fence'[r.op].operation # r.operation THEN "mismatch"
                    ELSE fence'[r.op].outcome
    <3>1. h \in {"applied", "aborted", "mismatch"}
      BY <1>2, <2>1, <2>3 DEF FenceRow, Merged, Claimed, Fence
    <3>2. deciding' = [deciding EXCEPT ![v] = {[row |-> r, heard |-> h]}]
      BY <1>2 DEF FenceRow
    <3> HIDE DEF h
    <3>3. [row |-> r, heard |-> h] \in Decision BY <2>1, <3>1 DEF Decision
    <3> QED BY <3>2, <3>3
  <2> QED BY <1>2, <2>3, <2>4 DEF FenceRow, pgVars
<1>3. ASSUME NEW r \in todo[v], FenceLost(v, r) PROVE TypeOK'
  <2>1. r \in Claimed OBVIOUS
  <2>2. ops' \in [Op -> Row]
    BY <1>3, <2>1, ReleaseType DEF FenceLost, Claimed
  <2>3. late' \subseteq [op : Op, operation : Operation]
    BY <1>3, <2>1 DEF FenceLost, Claimed
  <2> QED BY <1>3, <2>2, <2>3 DEF FenceLost
<1>4. ASSUME NEW d \in deciding[v], DecideRow(v, d) PROVE TypeOK'
  <2>1. d.row.op \in Op BY DEF Decision, Claimed
  <2>2. /\ ops' \in [Op -> Row]
        /\ audit' \in [Op -> Nat]
        /\ recorded' \in [CI -> Group \cup {None}]
        /\ epoch' = epoch
    <3> DEFINE o == d.row.op
    <3>1. \A s \in {"aborted", "failed"} : Closed(Pending(GroupOf[o]), s) \in [Op -> Row]
      BY ClosedType DEF Pending, Slots, RowState
    <3>2. ASSUME NEW s \in {"aborted", "failed"}, Decide(v, o, s)
          PROVE  ops' \in [Op -> Row] /\ UNCHANGED <<epoch, audit, recorded>>
      BY <3>1, <3>2 DEF Decide
    <3>3. Closed(Slots(GroupOf[o]), "committed") \in [Op -> Row]
      BY ClosedType DEF Slots, RowState
    <3>4. GroupOf[o] \in Group BY <2>1, JournalAssumption
    <3>5. CASE Commit(GroupOf[o])
      BY <3>3, <3>4, <3>5 DEF Commit
    <3>6. CASE Release(v, o) /\ UNCHANGED <<epoch, audit, recorded>>
      BY <2>1, <3>6, ReleaseType
    <3>7. CASE UNCHANGED pgVars BY <3>7 DEF pgVars
    <3> QED BY <1>4, <3>2, <3>5, <3>6, <3>7 DEF DecideRow, SweepT2
  <2>3. deciding' \in [Worker -> SUBSET Decision] BY <1>4 DEF DecideRow
  <2> QED BY <1>4, <2>2, <2>3 DEF DecideRow, neoVars
<1>5. CASE SweepCrash(v)
  BY <1>5 DEF SweepCrash, pgVars, neoVars
<1> QED BY <1>1, <1>2, <1>3, <1>4, <1>5 DEF SweepStep

LEMMA EnvType ==
  ASSUME TypeOK,
         \/ \E g \in Group : LandW(g) \/ Requeue(g)
         \/ \E m \in late : LandLateMerge(m)
         \/ \E o \in Op : LeaseLapses(o)
  PROVE  TypeOK'
<1> USE DEF TypeOK
<1>1. ASSUME NEW g \in Group, LandW(g) PROVE TypeOK'
  <2>1. [outcome |-> "applied", operation |-> "asked"] \in Fence BY DEF Fence, Operation
  <2> QED BY <1>1, <2>1 DEF LandW, WState, pgVars, sweepVars
<1>2. ASSUME NEW g \in Group, Requeue(g) PROVE TypeOK'
  <2>1. ASSUME NEW o \in Op PROVE ops'[o] \in Row
    <3>1. ops[o] \in Row OBVIOUS
    <3>2. [ops[o] EXCEPT !.state = "pending", !.claim = None, !.lapsed = TRUE] \in Row
      BY <3>1 DEF Row, RowState
    <3> QED BY <1>2, <3>1, <3>2 DEF Requeue
  <2>2. ops' \in [Op -> Row] BY <1>2, <2>1 DEF Requeue
  <2> QED BY <1>2, <2>2 DEF Requeue, neoVars, sweepVars
<1>3. ASSUME NEW m \in late, LandLateMerge(m) PROVE TypeOK'
  <2>1. m \in [op : Op, operation : Operation] OBVIOUS
  <2>2. fence' \in [Op -> Fence] BY <1>3, <2>1 DEF LandLateMerge, Merged, Fence
  <2> QED BY <1>3, <2>2 DEF LandLateMerge, pgVars, sweepVars
<1>4. ASSUME NEW o \in Op, LeaseLapses(o) PROVE TypeOK'
  <2>1. ops[o] \in Row OBVIOUS
  <2>2. [ops[o] EXCEPT !.lapsed = TRUE] \in Row BY <2>1 DEF Row
  <2> QED BY <1>4, <2>2 DEF LeaseLapses, neoVars, sweepVars
<1> QED BY <1>1, <1>2, <1>3, <1>4

------------------------------------------------------------------------------
(* Steps.                                                                  *)

LEMMA AllOrNonePending ==
  ASSUME RowsAgree, NEW g \in Group
  PROVE  Pending(g) = Slots(g) \/ Pending(g) = {}
BY DEF RowsAgree, Pending, Slots

\* What closing the pending rows of a group does, field by field.
LEMMA ClosedGroup ==
  ASSUME TypeOK, RowsAgree, NEW g \in Group, NEW s \in RowState, NEW o \in Op,
         ops' = Closed(Pending(g), s)
  PROVE  /\ ops'[o].effect = ops[o].effect /\ ops'[o].operation = ops[o].operation
         /\ \/ /\ GroupOf[o] = g /\ ops[o].state = "pending" /\ ops'[o].state = s
               /\ ops'[o].plan = IF s = "failed" THEN ops[o].plan ELSE "null"
            \/ /\ ~(GroupOf[o] = g /\ ops[o].state = "pending")
               /\ ops'[o].state = ops[o].state /\ ops'[o].plan = ops[o].plan
BY ClosedFields DEF Pending, Slots

\* The evidence and the abort of a group: its rows were pending, its W has not
\* been applied, and a W that may still land meets an aborted fence.
LEMMA AbortKeepsInv ==
  ASSUME JournalInv, TypeOK', NEW g \in Group,
         ops' = Closed(Pending(g), "aborted"),
         Pending(g) # {} => /\ w[g] # "applied"
                            /\ w[g] = "inflight" \/ pc[g] = "planned" =>
                                 \E p \in Op : GroupOf[p] = g /\ fence[p].outcome = "aborted",
         UNCHANGED <<audit, recorded, fence, graph, w, late, todo>>,
         deciding' = deciding \/ \E v \in Worker : deciding' = [deciding EXCEPT ![v] = {}],
         pc' = pc \/ (/\ \E to \in {"declined", "aborted", "missing", "unproven"} :
                            pc' = [pc EXCEPT ![g] = to]
                      /\ pc[g] \in {"planning", "late", "sent"}
                      /\ pc'[g] # "unproven" => \A o \in Slots(g) : ops'[o].state = "aborted")
  PROVE  JournalInv'
<1> USE DEF JournalInv
<1>1. \A o \in Op :
        /\ ops'[o].effect = ops[o].effect /\ ops'[o].operation = ops[o].operation
        /\ \/ /\ GroupOf[o] = g /\ ops[o].state = "pending" /\ ops'[o].state = "aborted"
              /\ ops'[o].plan = "null"
           \/ /\ ~(GroupOf[o] = g /\ ops[o].state = "pending")
              /\ ops'[o].state = ops[o].state /\ ops'[o].plan = ops[o].plan
  BY ClosedGroup DEF RowState
<1>2. \A o \in Op : GroupOf[o] = g /\ ops[o].state = "pending" => Pending(g) # {}
  BY DEF Pending, Slots
<1>3. RowsAgree' BY <1>1 DEF RowsAgree
<1>4. FenceTracksW' BY DEF FenceTracksW
<1>5. OneOperation' BY <1>1 DEF OneOperation
<1>6. StageOK'
  <2>1. CASE pc' = pc BY <1>1, <2>1 DEF StageOK, Unreserved
  <2>2. CASE pc' # pc
    <3>1. PICK to \in {"declined", "aborted", "missing", "unproven"} :
            pc' = [pc EXCEPT ![g] = to]
      BY <2>2
    <3>2. \A o \in Op : pc'[GroupOf[o]] = IF GroupOf[o] = g THEN to ELSE pc[GroupOf[o]]
      BY <3>1, JournalAssumption DEF TypeOK
    <3>3. \A o \in Op : GroupOf[o] = g /\ to # "unproven" => ops'[o].state = "aborted"
      BY <2>2, <3>1, <3>2 DEF Slots, TypeOK
    <3>4. \A o \in Op : GroupOf[o] = g => ops[o].state # "none"
      BY <2>2 DEF StageOK, Unreserved
    <3> QED BY <1>1, <3>2, <3>3, <3>4 DEF StageOK, Unreserved
  <2> QED BY <2>1, <2>2
<1>7. PlanOK' BY <1>1 DEF PlanOK
<1>8. DecisionBacked'
  <2>1. \A o \in Op : pc'[GroupOf[o]] = "planned" => pc[GroupOf[o]] = "planned"
    BY JournalAssumption DEF TypeOK
  <2> QED BY <1>1, <1>2, <2>1 DEF DecisionBacked
<1>9. SweepKnows'
  <2>1. \A v \in Worker : deciding'[v] \subseteq deciding[v]
    BY DEF TypeOK
  <2>2. \A v \in Worker : /\ \A r \in todo[v] : r.op \in Op
                          /\ \A d \in deciding[v] : d.row.op \in Op
    BY DEF TypeOK, Claimed, Decision
  <2> QED BY <1>1, <2>1, <2>2 DEF SweepKnows
<1>10. OneOpenRow' BY <1>1 DEF OneOpenRow, Open
<1>11. DivergenceExplained' BY <1>1, <1>2 DEF DivergenceExplained, Open
<1>12. AuditedExactlyOnce' BY <1>1 DEF AuditedExactlyOnce
<1> QED BY <1>3, <1>4, <1>5, <1>6, <1>7, <1>8, <1>9, <1>10, <1>11, <1>12

\* Failing a group: its rows are planned, and their change is in the graph.
LEMMA FailKeepsInv ==
  ASSUME JournalInv, TypeOK', NEW g \in Group,
         ops' = Closed(Pending(g), "failed"),
         \A o \in Op : GroupOf[o] = g /\ ops[o].state = "pending" => ops[o].plan # "null",
         \A o \in Op : GroupOf[o] = g /\ ops[o].effect => w[g] = "applied",
         UNCHANGED <<audit, recorded, fence, graph, w, late, todo, pc>>,
         \E v \in Worker : deciding' = [deciding EXCEPT ![v] = {}]
  PROVE  JournalInv'
<1> USE DEF JournalInv
<1>1. \A o \in Op :
        /\ ops'[o].effect = ops[o].effect /\ ops'[o].operation = ops[o].operation
        /\ ops'[o].plan = ops[o].plan
        /\ \/ /\ GroupOf[o] = g /\ ops[o].state = "pending" /\ ops'[o].state = "failed"
              /\ ops[o].plan # "null" /\ (ops[o].effect => w[g] = "applied")
           \/ ~(GroupOf[o] = g /\ ops[o].state = "pending") /\ ops'[o].state = ops[o].state
  BY ClosedGroup DEF RowState
<1>2. RowsAgree' BY <1>1 DEF RowsAgree
<1>3. FenceTracksW' BY DEF FenceTracksW
<1>4. OneOperation' BY <1>1 DEF OneOperation
<1>5. StageOK' BY <1>1 DEF StageOK, Unreserved
<1>6. PlanOK' BY <1>1 DEF PlanOK
<1>7. DecisionBacked' BY <1>1 DEF DecisionBacked
<1>8. SweepKnows'
  <2>1. \A u \in Worker : deciding'[u] \subseteq deciding[u]
    BY DEF TypeOK
  <2>2. \A u \in Worker : /\ \A r \in todo[u] : r.op \in Op
                          /\ \A d \in deciding[u] : d.row.op \in Op
    BY DEF TypeOK, Claimed, Decision
  <2> QED BY <1>1, <2>1, <2>2 DEF SweepKnows
<1>9. OneOpenRow' BY <1>1 DEF OneOpenRow, Open
<1>10. DivergenceExplained' BY <1>1 DEF DivergenceExplained, Open
<1>11. AuditedExactlyOnce' BY <1>1 DEF AuditedExactlyOnce
<1> QED BY <1>2, <1>3, <1>4, <1>5, <1>6, <1>7, <1>8, <1>9, <1>10, <1>11

\* T2, run by the request or by a sweep: what it commits is in the graph.
LEMMA CommitKeepsInv ==
  ASSUME JournalInv, TypeOK', NEW g \in Group, T2Ready(g), Commit(g),
         \A o \in Slots(g) : ops[o].effect => w[g] = "applied",
         UNCHANGED <<fence, graph, w, late, todo>>,
         deciding' = deciding \/ \E v \in Worker : deciding' = [deciding EXCEPT ![v] = {}],
         pc' = pc \/ (/\ pc[g] = "written"
                      /\ \E to \in {"done", "unproven"} : pc' = [pc EXCEPT ![g] = to])
  PROVE  JournalInv'
<1> USE DEF JournalInv
<1>1. \A o \in Op :
        /\ ops'[o].effect = ops[o].effect /\ ops'[o].operation = ops[o].operation
        /\ \/ /\ GroupOf[o] = g /\ ops[o].state = "pending" /\ ops'[o].state = "committed"
              /\ ops'[o].plan = "null" /\ ops[o].plan # "null"
              /\ (ops[o].effect => w[g] = "applied")
           \/ /\ GroupOf[o] # g
              /\ ops'[o].state = ops[o].state /\ ops'[o].plan = ops[o].plan
  <2>1. ops' = Closed(Slots(g), "committed") /\ Slots(g) \in SUBSET Op /\ "committed" \in RowState
    BY DEF Commit, Slots, RowState
  <2>2. \A o \in Op :
          /\ ops'[o].effect = ops[o].effect /\ ops'[o].operation = ops[o].operation
          /\ ops'[o].state = IF o \in Slots(g) THEN "committed" ELSE ops[o].state
          /\ ops'[o].plan = IF o \in Slots(g) THEN "null" ELSE ops[o].plan
    BY <2>1, ClosedFields
  <2> QED BY <2>2 DEF T2Ready, Slots
<1>2. \A o \in Op : audit'[o] = IF GroupOf[o] = g THEN audit[o] + 1 ELSE audit[o]
  BY DEF Commit, Slots
<1>3. \A c \in CI : recorded'[c] = IF \E o \in Op : GroupOf[o] = g /\ CiOf[o] = c /\ ops[o].effect
                                   THEN g ELSE recorded[c]
  BY DEF Commit, Slots
<1>4. RowsAgree' BY <1>1 DEF RowsAgree
<1>5. FenceTracksW' BY DEF FenceTracksW
<1>6. OneOperation' BY <1>1 DEF OneOperation
<1>7. StageOK'
  <2>1. \A o \in Op : GroupOf[o] = g => pc[g] \notin {"planning", "planned"}
    BY <1>1 DEF StageOK
  <2>2. \A o \in Op : \/ pc'[GroupOf[o]] = pc[GroupOf[o]]
                      \/ /\ GroupOf[o] = g /\ pc[g] = "written"
                         /\ pc'[g] \in {"done", "unproven"}
    BY JournalAssumption DEF TypeOK
  <2> QED BY <1>1, <2>1, <2>2 DEF StageOK, Unreserved
<1>8. PlanOK' BY <1>1 DEF PlanOK
<1>9. DecisionBacked'
  <2>1. \A o \in Op : pc'[GroupOf[o]] = "planned" => pc[GroupOf[o]] = "planned"
    BY JournalAssumption DEF TypeOK
  <2> QED BY <1>1, <2>1 DEF DecisionBacked
<1>10. SweepKnows'
  <2>1. \A u \in Worker : deciding'[u] \subseteq deciding[u]
    BY DEF TypeOK
  <2>2. \A u \in Worker : /\ \A r \in todo[u] : r.op \in Op
                          /\ \A d \in deciding[u] : d.row.op \in Op
    BY DEF TypeOK, Claimed, Decision
  <2> QED BY <1>1, <2>1, <2>2 DEF SweepKnows
<1>11. OneOpenRow' BY <1>1 DEF OneOpenRow, Open
<1>12. DivergenceExplained'
  <2>1. \A o \in Op : Open(o)' /\ w[GroupOf[o]] = "applied" => graph[CiOf[o]] = GroupOf[o]
    BY <1>1 DEF DivergenceExplained, Open
  <2>2. ASSUME NEW c \in CI, graph[c] # recorded'[c]
        PROVE  \E o \in Op : CiOf[o] = c /\ Open(o)' /\ w[GroupOf[o]] = "applied"
    <3>1. ~(\E o \in Op : GroupOf[o] = g /\ CiOf[o] = c /\ ops[o].effect)
      BY <1>1, <1>3, <2>2 DEF DivergenceExplained, Open
    <3>2. PICK o \in Op : CiOf[o] = c /\ Open(o) /\ w[GroupOf[o]] = "applied"
      BY <1>3, <2>2, <3>1 DEF DivergenceExplained
    <3>3. GroupOf[o] # g BY <3>1, <3>2 DEF PlanOK
    <3> QED BY <1>1, <3>2, <3>3 DEF Open
  <2> QED BY <2>1, <2>2 DEF DivergenceExplained
<1>13. AuditedExactlyOnce' BY <1>1, <1>2 DEF AuditedExactlyOnce
<1> QED BY <1>4, <1>5, <1>6, <1>7, <1>8, <1>9, <1>10, <1>11, <1>12, <1>13

\* Claiming and releasing rows, and time, touch only claims and leases.
LEMMA MarksKeepInv ==
  ASSUME JournalInv, TypeOK',
         \A o \in Op : /\ ops'[o].state = ops[o].state /\ ops'[o].plan = ops[o].plan
                       /\ ops'[o].effect = ops[o].effect
                       /\ ops'[o].operation = ops[o].operation,
         UNCHANGED <<audit, recorded, fence, graph, w, pc>>,
         \A m \in late' : m.operation = "asked",
         \A v \in Worker : \A r \in todo'[v] :
           IF r.effect THEN r.operation = "asked" ELSE ~ops[r.op].effect,
         \A v \in Worker : deciding'[v] \subseteq deciding[v]
  PROVE  JournalInv'
<1> USE DEF JournalInv
<1>1. RowsAgree' BY DEF RowsAgree
<1>2. FenceTracksW' BY DEF FenceTracksW
<1>3. OneOperation' BY DEF OneOperation
<1>4. StageOK' BY DEF StageOK, Unreserved
<1>5. PlanOK' BY DEF PlanOK
<1>6. DecisionBacked' BY DEF DecisionBacked
<1>7. SweepKnows'
  <2>1. \A v \in Worker : /\ \A r \in todo'[v] : r.op \in Op
                          /\ \A d \in deciding'[v] : d.row.op \in Op
    BY DEF TypeOK, Claimed, Decision
  <2> QED BY <2>1 DEF SweepKnows
<1>8. OneOpenRow' BY DEF OneOpenRow, Open
<1>9. DivergenceExplained' BY DEF DivergenceExplained, Open
<1>10. AuditedExactlyOnce' BY DEF AuditedExactlyOnce
<1> QED BY <1>1, <1>2, <1>3, <1>4, <1>5, <1>6, <1>7, <1>8, <1>9, <1>10

\* A step of a run that touches no store.
LEMMA StageKeepsInv ==
  ASSUME JournalInv, TypeOK', NEW g \in Group, NEW from, NEW to,
         Moves(g, from, to), to # "planned",
         UNCHANGED <<pgVars, neoVars>>,
         \A v \in Worker : todo'[v] \subseteq todo[v] /\ deciding'[v] \subseteq deciding[v],
         StageOK'
  PROVE  JournalInv'
<1> USE DEF JournalInv, pgVars, neoVars
<1>1. RowsAgree' BY DEF RowsAgree
<1>2. FenceTracksW' BY DEF FenceTracksW
<1>3. OneOperation' BY DEF OneOperation
<1>4. PlanOK' BY DEF PlanOK
<1>5. DecisionBacked'
  <2>1. \A o \in Op : pc'[GroupOf[o]] = "planned" => pc[GroupOf[o]] = "planned"
    BY JournalAssumption DEF TypeOK, Moves
  <2> QED BY <2>1 DEF DecisionBacked
<1>6. SweepKnows' BY DEF SweepKnows
<1>7. OneOpenRow' BY DEF OneOpenRow, Open
<1>8. DivergenceExplained' BY DEF DivergenceExplained, Open
<1>9. AuditedExactlyOnce' BY DEF AuditedExactlyOnce
<1> QED BY <1>1, <1>2, <1>3, <1>4, <1>5, <1>6, <1>7, <1>8, <1>9

LEMMA AdmitKeepsInv ==
  ASSUME JournalInv, TypeOK', NEW g \in Group, Admit(g)
  PROVE  JournalInv'
<1> USE DEF JournalInv
<1>1. \A o \in Op : GroupOf[o] = g => ops[o].state = "none"
  BY DEF Admit, StageOK, Unreserved, Moves
<1>f. /\ UNCHANGED <<audit, recorded, fence, graph, w, late, todo, deciding>>
      /\ ~Contended(g)
  BY DEF Admit, neoVars, sweepVars
<1>2. \A o \in Op :
        /\ GroupOf[o] = g => /\ ops'[o].state = "pending" /\ ops'[o].plan = "null"
                             /\ ops'[o].effect = TRUE /\ ops'[o].operation = "asked"
        /\ GroupOf[o] # g => /\ ops'[o].state = ops[o].state /\ ops'[o].plan = ops[o].plan
                             /\ ops'[o].effect = ops[o].effect
                             /\ ops'[o].operation = ops[o].operation
  BY DEF Admit, NoRow, Slots
<1>3. \A o \in Op : pc'[GroupOf[o]] = IF GroupOf[o] = g THEN "planning" ELSE pc[GroupOf[o]]
  BY JournalAssumption DEF Admit, Moves, TypeOK
<1>4. w[g] = "unsent"
  BY <1>1, JournalAssumption DEF PlanOK
<1>5. RowsAgree'
  <2> SUFFICES ASSUME NEW o \in Op, NEW p \in Op, GroupOf[o] = GroupOf[p]
               PROVE  /\ ops'[o].state = ops'[p].state
                      /\ ops'[o].plan = ops'[p].plan
                      /\ ops'[o].effect = ops'[p].effect
    BY DEF RowsAgree
  <2>1. CASE GroupOf[o] = g BY <1>2, <2>1
  <2>2. CASE GroupOf[o] # g BY <1>2, <2>2 DEF RowsAgree
  <2> QED BY <2>1, <2>2
<1>6. FenceTracksW' BY <1>f DEF FenceTracksW
<1>7. OneOperation' BY <1>f, <1>2 DEF OneOperation
<1>8. StageOK' BY <1>f, <1>2, <1>3, <1>4 DEF StageOK, Unreserved
<1>9. PlanOK' BY <1>f, <1>2, <1>4 DEF PlanOK
<1>10. DecisionBacked' BY <1>f, <1>2, <1>3 DEF DecisionBacked
<1>11. SweepKnows'
  <2>1. \A v \in Worker : /\ \A r \in todo[v] : r.op \in Op
                          /\ \A d \in deciding[v] : d.row.op \in Op
    BY DEF TypeOK, Claimed, Decision
  <2>2. \A o \in Op : GroupOf[o] = g => ops[o].effect /\ fence[o].outcome # "applied"
    BY <1>1, <1>4 DEF PlanOK, FenceTracksW
  <2>3. \A v \in Worker : \A r \in todo[v] : ~r.effect => GroupOf[r.op] # g
    BY <2>1, <2>2 DEF SweepKnows
  <2>4. \A v \in Worker : \A d \in deciding[v] : d.heard = "applied" => GroupOf[d.row.op] # g
    BY <2>1, <2>2 DEF SweepKnows
  <2> QED BY <1>f, <1>2, <2>1, <2>3, <2>4 DEF SweepKnows
<1>12. OneOpenRow' BY <1>f, <1>2, JournalAssumption DEF OneOpenRow, Open, Contended, Gap, Slots
<1>13. DivergenceExplained' BY <1>f, <1>1, <1>2, <1>4 DEF DivergenceExplained, Open
<1>14. AuditedExactlyOnce' BY <1>f, <1>1, <1>2 DEF AuditedExactlyOnce
<1> QED BY <1>5, <1>6, <1>7, <1>8, <1>9, <1>10, <1>11, <1>12, <1>13, <1>14

LEMMA T1bKeepsInv ==
  ASSUME JournalInv, TypeOK', NEW g \in Group, NEW p \in Plans, T1b(g, p)
  PROVE  JournalInv'
<1> USE DEF JournalInv
<1>f. UNCHANGED <<audit, recorded, fence, graph, w, late, todo, deciding>>
  BY DEF T1b, neoVars, sweepVars
<1> DEFINE effect == p \in GraphPlans
<1>1. \A o \in Op : GroupOf[o] = g => /\ w[g] = "unsent" /\ ops[o].effect = TRUE
                                      /\ ops[o].plan = "null" /\ ops[o].state # "none"
                                      /\ fence[o].outcome # "applied"
  <2>1. \A o \in Op : ops[o].effect \in BOOLEAN BY DEF TypeOK, Row
  <2> QED BY <2>1 DEF T1b, StageOK, Unreserved, Moves, FenceTracksW
<1>2. \A o \in Op :
        /\ GroupOf[o] = g /\ ops[o].state = "pending" =>
             /\ ops'[o].state = "pending" /\ ops'[o].plan = p
             /\ ops'[o].effect = effect
             /\ ops'[o].operation = IF p = "hold" THEN "hold" ELSE ops[o].operation
        /\ ~(GroupOf[o] = g /\ ops[o].state = "pending") =>
             /\ ops'[o].state = ops[o].state /\ ops'[o].plan = ops[o].plan
             /\ ops'[o].effect = ops[o].effect
             /\ ops'[o].operation = ops[o].operation
  <2>1. ASSUME NEW o \in Op
        PROVE  LET r == [ops[o] EXCEPT !.plan = p, !.effect = effect, !.lapsed = FALSE,
                                       !.operation = IF p = "hold" THEN "hold" ELSE @]
               IN  /\ r.state = ops[o].state /\ r.plan = p /\ r.effect = effect
                   /\ r.operation = IF p = "hold" THEN "hold" ELSE ops[o].operation
    <3>1. ops[o] \in Row BY DEF TypeOK
    <3> HIDE DEF effect
    <3> QED BY <3>1 DEF Row
  <2> QED BY <2>1 DEF T1b, Pending, Slots
<1>3. p # "null" /\ (effect => p # "hold")
  BY JournalAssumption DEF GraphPlans
<1>b. effect \in BOOLEAN OBVIOUS
<1>4. PICK to \in {"planned", "written", "late"} :
        /\ pc' = [pc EXCEPT ![g] = to] /\ pc[g] = "planning"
        /\ to = "planned" => effect /\ Pending(g) = Slots(g)
        /\ to = "written" => ~effect /\ Pending(g) = Slots(g)
  BY DEF T1b, Moves
<1> HIDE DEF effect
<1>5. \A o \in Op : pc'[GroupOf[o]] = IF GroupOf[o] = g THEN to ELSE pc[GroupOf[o]]
  BY <1>4, JournalAssumption DEF TypeOK
<1>6. \A o \in Op : Pending(g) = Slots(g) /\ GroupOf[o] = g => ops[o].state = "pending"
  BY DEF Pending, Slots
<1>7. RowsAgree'
  <2> SUFFICES ASSUME NEW o \in Op, NEW q \in Op, GroupOf[o] = GroupOf[q]
               PROVE  /\ ops'[o].state = ops'[q].state
                      /\ ops'[o].plan = ops'[q].plan
                      /\ ops'[o].effect = ops'[q].effect
    BY DEF RowsAgree
  <2>1. /\ ops[o].state = ops[q].state
        /\ ops[o].plan = ops[q].plan
        /\ ops[o].effect = ops[q].effect
    BY DEF RowsAgree
  <2>2. CASE GroupOf[o] = g /\ ops[o].state = "pending" BY <1>2, <2>1, <2>2
  <2>3. CASE ~(GroupOf[o] = g /\ ops[o].state = "pending") BY <1>2, <2>1, <2>3
  <2> QED BY <2>2, <2>3
<1>8. FenceTracksW' BY <1>f DEF FenceTracksW
<1>9. OneOperation' BY <1>f, <1>1, <1>2, <1>3, <1>b DEF OneOperation
<1>10. StageOK' BY <1>f, <1>1, <1>2, <1>3, <1>4, <1>5, <1>6 DEF StageOK, Unreserved
<1>11. PlanOK' BY <1>f, <1>1, <1>2, <1>3 DEF PlanOK
<1>12. DecisionBacked' BY <1>f, <1>1, <1>2, <1>4, <1>5, <1>6 DEF DecisionBacked
<1>13. SweepKnows'
  <2>1. \A v \in Worker : /\ \A r \in todo[v] : r.op \in Op
                          /\ \A d \in deciding[v] : d.row.op \in Op
    BY DEF TypeOK, Claimed, Decision
  <2>2. \A v \in Worker : \A r \in todo[v] : ~r.effect => GroupOf[r.op] # g
    BY <1>1, <2>1 DEF SweepKnows
  <2>3. \A v \in Worker : \A d \in deciding[v] : d.heard = "applied" /\ GroupOf[d.row.op] = g => FALSE
    BY <1>1, <2>1 DEF SweepKnows
  <2> QED BY <1>f, <1>2, <2>1, <2>2, <2>3 DEF SweepKnows
<1>14. OneOpenRow' BY <1>f, <1>2 DEF OneOpenRow, Open
<1>15. DivergenceExplained' BY <1>f, <1>2 DEF DivergenceExplained, Open
<1>16. AuditedExactlyOnce' BY <1>f, <1>2 DEF AuditedExactlyOnce
<1> QED BY <1>7, <1>8, <1>9, <1>10, <1>11, <1>12, <1>13, <1>14, <1>15, <1>16

LEMMA SendWKeepsInv ==
  ASSUME JournalInv, TypeOK', NEW g \in Group, SendW(g)
  PROVE  JournalInv'
<1> USE DEF JournalInv, SendW, pgVars, sweepVars
<1>1. \A o \in Op : /\ pc'[GroupOf[o]] = IF GroupOf[o] = g THEN "sent" ELSE pc[GroupOf[o]]
                    /\ w'[GroupOf[o]] = IF GroupOf[o] = g THEN "inflight" ELSE w[GroupOf[o]]
  BY JournalAssumption DEF Moves, TypeOK
<1>2. \A o \in Op : GroupOf[o] = g => /\ pc[g] = "planned" /\ w[g] = "unsent" /\ ops[o].effect
                                      /\ ops[o].state # "none"
                                      /\ ops[o].state = "pending" => ops[o].plan # "null"
  BY DEF StageOK, Unreserved, Moves
<1>3. RowsAgree' BY DEF RowsAgree
<1>4. FenceTracksW' BY <1>1, <1>2 DEF FenceTracksW
<1>5. OneOperation' BY DEF OneOperation
<1>6. StageOK' BY <1>1, <1>2 DEF StageOK, Unreserved
<1>7. PlanOK' BY <1>1, <1>2 DEF PlanOK
<1>8. DecisionBacked' BY <1>1, <1>2 DEF DecisionBacked
<1>9. SweepKnows' BY DEF SweepKnows
<1>10. OneOpenRow' BY DEF OneOpenRow, Open
<1>11. DivergenceExplained' BY <1>1, <1>2 DEF DivergenceExplained, Open
<1>12. AuditedExactlyOnce' BY DEF AuditedExactlyOnce
<1> QED BY <1>3, <1>4, <1>5, <1>6, <1>7, <1>8, <1>9, <1>10, <1>11, <1>12

LEMMA LandWKeepsInv ==
  ASSUME JournalInv, TypeOK', NEW g \in Group, LandW(g)
  PROVE  JournalInv'
<1> USE DEF JournalInv, LandW, pgVars, sweepVars
<1>1. RowsAgree' BY DEF RowsAgree
<1>2. OneOperation' BY DEF OneOperation, Slots
<1>3. OneOpenRow' BY DEF OneOpenRow, Open
<1>4. AuditedExactlyOnce' BY DEF AuditedExactlyOnce
<1>5. \A o \in Op : GroupOf[o] = g => ops[o].effect /\ ops[o].state # "none"
  BY DEF PlanOK
<1>6. CASE w'[g] # "applied"
  <2>1. /\ UNCHANGED <<fence, graph>>
        /\ \A o \in Op : w'[GroupOf[o]] = w[GroupOf[o]]
              \/ (/\ GroupOf[o] = g /\ w[GroupOf[o]] = "inflight"
                  /\ w'[GroupOf[o]] \in {"refused", "missing"})
    BY <1>6, JournalAssumption DEF TypeOK
  <2>2. FenceTracksW' BY <2>1 DEF FenceTracksW
  <2>3. StageOK' BY <2>1 DEF StageOK, Unreserved
  <2>4. PlanOK' BY <1>5, <2>1 DEF PlanOK
  <2>5. DecisionBacked' BY <2>1 DEF DecisionBacked
  <2>6. SweepKnows' BY <2>1 DEF SweepKnows
  <2>7. DivergenceExplained' BY <2>1 DEF DivergenceExplained, Open
  <2> QED BY <1>1, <1>2, <1>3, <1>4, <2>2, <2>3, <2>4, <2>5, <2>6, <2>7
<1>7. CASE w'[g] = "applied"
  <2>1. /\ \A o \in Op : w'[GroupOf[o]] = IF GroupOf[o] = g THEN "applied" ELSE w[GroupOf[o]]
        /\ \A o \in Op : fence'[o].outcome = IF GroupOf[o] = g THEN "applied" ELSE fence[o].outcome
        /\ \A o \in Op : GroupOf[o] = g => fence[o].outcome = "none"
        /\ w[g] = "inflight"
    BY <1>7, JournalAssumption DEF TypeOK, WState, Fenced, Slots
  <2>2. \A c \in CI : graph'[c] = IF \E o \in Op : GroupOf[o] = g /\ CiOf[o] = c
                                 THEN g ELSE graph[c]
    BY <1>7 DEF TypeOK, Slots
  <2>3. \A o \in Op : GroupOf[o] = g => ops[o].state = "pending"
    BY <1>5, <2>1 DEF DecisionBacked, TypeOK, Row, RowState
  <2>4. FenceTracksW' BY <2>1 DEF FenceTracksW
  <2>5. StageOK' BY <1>5, <2>1, <2>3 DEF StageOK, Unreserved
  <2>6. PlanOK' BY <1>5, <2>1, <2>3 DEF PlanOK
  <2>7. DecisionBacked' BY <2>1, <2>3 DEF DecisionBacked
  <2>8. SweepKnows'
    <3>1. \A v \in Worker : /\ \A r \in todo[v] : r.op \in Op
                            /\ \A d \in deciding[v] : d.row.op \in Op
      BY DEF TypeOK, Claimed, Decision
    <3> QED BY <2>1, <3>1 DEF SweepKnows
  <2>9. DivergenceExplained'
    <3>1. \A o \in Op : Open(o) /\ w'[GroupOf[o]] = "applied" => graph'[CiOf[o]] = GroupOf[o]
      <4> SUFFICES ASSUME NEW o \in Op, Open(o), w'[GroupOf[o]] = "applied"
                   PROVE  graph'[CiOf[o]] = GroupOf[o]
        OBVIOUS
      <4>1. CiOf[o] \in CI BY JournalAssumption
      <4>2. CASE GroupOf[o] = g BY <2>2, <4>1, <4>2
      <4>3. CASE GroupOf[o] # g
        <5>1. \A q \in Op : CiOf[q] = CiOf[o] /\ Open(q) => q = o BY DEF OneOpenRow
        <5>2. ~(\E q \in Op : GroupOf[q] = g /\ CiOf[q] = CiOf[o])
          BY <2>3, <4>3, <5>1 DEF Open
        <5> QED BY <2>1, <2>2, <4>1, <4>3, <5>2 DEF DivergenceExplained
      <4> QED BY <4>2, <4>3
    <3>2. \A c \in CI : graph'[c] # recorded[c] =>
            \E o \in Op : CiOf[o] = c /\ Open(o) /\ w'[GroupOf[o]] = "applied"
      BY <2>1, <2>2, <2>3 DEF DivergenceExplained, Open
    <3> QED BY <3>1, <3>2 DEF DivergenceExplained, Open
  <2> QED BY <1>1, <1>2, <1>3, <1>4, <2>4, <2>5, <2>6, <2>7, <2>8, <2>9
<1> QED BY <1>6, <1>7

\* A recovery MERGE creates an aborted fence or finds the fence there is.
LEMMA MergeKeepsInv ==
  ASSUME JournalInv, TypeOK', NEW m, m.op \in Op, m.operation = "asked",
         fence' = Merged(m),
         UNCHANGED <<pgVars, graph, w, pc>>,
         late' \subseteq late,
         \A v \in Worker :
           /\ todo'[v] \subseteq todo[v]
           /\ \A d \in deciding'[v] :
                \/ d \in deciding[v]
                \/ /\ d.row.op \in Op
                   /\ d.heard = fence'[d.row.op].outcome
  PROVE  JournalInv'
<1> USE DEF JournalInv, pgVars
<1>1. ASSUME NEW o \in Op
      PROVE  /\ fence'[o].operation = "asked"
             /\ \/ fence'[o].outcome = fence[o].outcome
                \/ fence[o].outcome = "none" /\ fence'[o].outcome = "aborted"
  <2>1. fence[o].operation = "asked" BY DEF OneOperation
  <2>2. CASE o = m.op BY <2>1, <2>2 DEF Merged, TypeOK
  <2>3. CASE o # m.op BY <2>1, <2>3 DEF Merged, TypeOK
  <2> QED BY <2>2, <2>3
<1>2. \A o \in Op : fence'[o].outcome \in {"none", "applied", "aborted"}
  BY DEF TypeOK, Fence
<1>3. fence'[m.op].outcome # "none" BY DEF Merged, TypeOK
<1>4. RowsAgree' BY DEF RowsAgree
<1>5. FenceTracksW' BY <1>1 DEF FenceTracksW
<1>6. OneOperation' BY <1>1 DEF OneOperation
<1>7. StageOK' BY DEF StageOK, Unreserved
<1>8. PlanOK' BY DEF PlanOK
<1>9. DecisionBacked' BY <1>1 DEF DecisionBacked
<1>10. SweepKnows'
  <2>1. \A v \in Worker : \A d \in deciding[v] : d.row.op \in Op
    BY DEF TypeOK, Claimed, Decision
  <2> QED BY <1>1, <1>2, <2>1 DEF SweepKnows
<1>11. OneOpenRow' BY DEF OneOpenRow, Open
<1>12. DivergenceExplained' BY DEF DivergenceExplained, Open
<1>13. AuditedExactlyOnce' BY DEF AuditedExactlyOnce
<1> QED BY <1>4, <1>5, <1>6, <1>7, <1>8, <1>9, <1>10, <1>11, <1>12, <1>13

LEMMA FenceRowKeepsInv ==
  ASSUME JournalInv, TypeOK', NEW v \in Worker, NEW r \in todo[v], FenceRow(v, r)
  PROVE  JournalInv'
<1> USE DEF JournalInv
<1>1. r \in Claimed /\ r.op \in Op BY DEF TypeOK, Claimed
<1> DEFINE heard == IF ~r.effect THEN "applied"
                    ELSE IF fence'[r.op].operation # r.operation THEN "mismatch"
                    ELSE fence'[r.op].outcome
           d == [row |-> r, heard |-> heard]
<1>2. /\ deciding' = [deciding EXCEPT ![v] = {d}]
      /\ d.row = r
      /\ r.effect => d.heard = IF fence'[r.op].operation # r.operation THEN "mismatch"
                               ELSE fence'[r.op].outcome
      /\ ~r.effect => d.heard = "applied"
  BY DEF FenceRow
<1> HIDE DEF d, heard
<1>3. \A u \in Worker : /\ todo'[u] \subseteq todo[u]
                        /\ \A e \in deciding'[u] : e \in deciding[u] \/ e = d
  BY <1>2 DEF FenceRow, TypeOK
<1>4. CASE r.effect
  <2>1. r.operation = "asked" BY <1>4 DEF OneOperation
  <2>2. fence' = Merged(r) BY <1>4 DEF FenceRow
  <2>3. fence'[r.op].operation = "asked"
    BY <1>1, <2>1, <2>2 DEF Merged, TypeOK, OneOperation
  <2>4. d.heard = fence'[r.op].outcome BY <1>2, <1>4, <2>1, <2>3
  <2> QED BY <1>1, <1>2, <1>3, <2>1, <2>2, <2>4, MergeKeepsInv DEF FenceRow
<1>5. CASE ~r.effect
  <2>1. UNCHANGED <<pgVars, fence, graph, w, late, pc>> BY <1>5 DEF FenceRow
  <2> USE DEF pgVars
  <2>2. RowsAgree' BY <2>1 DEF RowsAgree
  <2>3. FenceTracksW' BY <2>1 DEF FenceTracksW
  <2>4. OneOperation' BY <1>3, <2>1 DEF OneOperation
  <2>5. StageOK' BY <2>1 DEF StageOK, Unreserved
  <2>6. PlanOK' BY <2>1 DEF PlanOK
  <2>7. DecisionBacked' BY <2>1 DEF DecisionBacked
  <2>8. SweepKnows' BY <1>2, <1>3, <1>5, <2>1 DEF SweepKnows
  <2>9. OneOpenRow' BY <2>1 DEF OneOpenRow, Open
  <2>10. DivergenceExplained' BY <2>1 DEF DivergenceExplained, Open
  <2>11. AuditedExactlyOnce' BY <2>1 DEF AuditedExactlyOnce
  <2> QED BY <2>2, <2>3, <2>4, <2>5, <2>6, <2>7, <2>8, <2>9, <2>10, <2>11
<1> QED BY <1>4, <1>5

\* A claim hands out rows as they are now; a release takes the claim back.
LEMMA ClaimKeepsInv ==
  ASSUME JournalInv, TypeOK', NEW v \in Worker, NEW S \in SUBSET Op, Claim(v, S),
         UNCHANGED <<epoch, audit, recorded, neoVars, pc, deciding>>
  PROVE  JournalInv'
<1> USE DEF JournalInv, neoVars
<1>1. \A o \in Op : /\ ops'[o].state = ops[o].state /\ ops'[o].plan = ops[o].plan
                    /\ ops'[o].effect = ops[o].effect
                    /\ ops'[o].operation = ops[o].operation
  <2>1. \A o \in Op : ops[o] \in Row BY DEF TypeOK
  <2>2. \A o \in Op : ops'[o] = IF o \in S THEN [ops[o] EXCEPT !.claim = v, !.lapsed = FALSE]
                               ELSE ops[o]
    BY DEF Claim
  <2> QED BY <2>1, <2>2 DEF Row
<1>2. \A u \in Worker : \A r \in todo'[u] :
        r \in todo[u] \/ \E o \in S : r = Returning(o)
  BY DEF Claim, TypeOK
<1>3. \A u \in Worker : \A r \in todo'[u] :
        IF r.effect THEN r.operation = "asked" ELSE ~ops[r.op].effect
  BY <1>2 DEF Returning, OneOperation, SweepKnows
<1> QED BY <1>1, <1>3, MarksKeepInv DEF OneOperation

LEMMA ReleaseFields ==
  ASSUME TypeOK, NEW v \in Worker, NEW o \in Op, Release(v, o), NEW p \in Op
  PROVE  /\ ops'[p].state = ops[p].state /\ ops'[p].plan = ops[p].plan
         /\ ops'[p].effect = ops[p].effect
         /\ ops'[p].operation = ops[p].operation
<1>1. \A q \in Op : ops[q] \in Row BY DEF TypeOK
<1>2. \/ ops' = [ops EXCEPT ![o] = [ops[o] EXCEPT !.claim = None, !.lapsed = FALSE]]
      \/ ops' = ops
  BY DEF Release, TypeOK
<1>3. \/ ops'[p] = [ops[p] EXCEPT !.claim = None, !.lapsed = FALSE]
      \/ ops'[p] = ops[p]
  BY <1>2 DEF TypeOK
<1> QED BY <1>1, <1>3 DEF Row

LEMMA FenceLostKeepsInv ==
  ASSUME JournalInv, TypeOK', NEW v \in Worker, NEW r \in todo[v], FenceLost(v, r)
  PROVE  JournalInv'
<1> USE DEF JournalInv
<1>1. r.op \in Op BY DEF TypeOK, Claimed
<1>2. r.operation = "asked" BY DEF FenceLost, OneOperation
<1>3. \A m \in late' : m.operation = "asked"
  BY <1>2 DEF FenceLost, OneOperation
<1>4. \A u \in Worker : todo'[u] \subseteq todo[u] BY DEF FenceLost, TypeOK
<1>5. \A u \in Worker : \A q \in todo'[u] :
        IF q.effect THEN q.operation = "asked" ELSE ~ops[q.op].effect
  BY <1>4 DEF OneOperation, SweepKnows
<1>6. \A o \in Op : /\ ops'[o].state = ops[o].state /\ ops'[o].plan = ops[o].plan
                    /\ ops'[o].effect = ops[o].effect
                    /\ ops'[o].operation = ops[o].operation
  BY <1>1, ReleaseFields DEF FenceLost
<1> QED BY <1>3, <1>5, <1>6, MarksKeepInv DEF FenceLost

\* A decision acts on what the fence said when the row was claimed; the fence
\* still says it, whoever has decided, replanned or requeued the row since.
LEMMA DecideKeepsInv ==
  ASSUME JournalInv, TypeOK', NEW v \in Worker, NEW d \in deciding[v], DecideRow(v, d)
  PROVE  JournalInv'
<1> USE DEF JournalInv
<1> DEFINE o == d.row.op
           g == GroupOf[o]
<1>1. o \in Op /\ g \in Group BY JournalAssumption DEF TypeOK, Decision, Claimed
<1>2. /\ UNCHANGED <<fence, graph, w, late, todo, pc>>
      /\ deciding' = [deciding EXCEPT ![v] = {}]
  BY DEF DecideRow, neoVars
<1> HIDE DEF o, g
<1>3. /\ \A u \in Worker : deciding'[u] \subseteq deciding[u]
      /\ \A u \in Worker : \A r \in todo'[u] :
            IF r.effect THEN r.operation = "asked" ELSE ~ops[r.op].effect
      /\ \A m \in late' : m.operation = "asked"
  BY <1>2 DEF TypeOK, OneOperation, SweepKnows
<1>4. CASE UNCHANGED <<ops, audit, recorded>>
  BY <1>2, <1>3, <1>4, MarksKeepInv
<1>5. CASE Release(v, o) /\ UNCHANGED <<epoch, audit, recorded>>
  BY <1>1, <1>2, <1>3, <1>5, MarksKeepInv, ReleaseFields
<1>6. CASE d.heard = "aborted" /\ Decide(v, o, "aborted")
  <2>1. CASE ops[o].claim # v BY <1>4, <1>6, <2>1 DEF Decide
  <2>2. CASE ops[o].claim = v
    <3>1. GroupOf[o] = g /\ fence[o].outcome = "aborted" BY <1>6 DEF SweepKnows, o, g
    <3>2. w[g] # "applied" BY <1>1, <3>1 DEF FenceTracksW
    <3>3. /\ ops' = Closed(Pending(g), "aborted")
          /\ UNCHANGED <<audit, recorded>>
      BY <1>6, <2>2, <3>1 DEF Decide
    <3> QED BY <1>1, <1>2, <3>1, <3>2, <3>3, AbortKeepsInv
  <2> QED BY <2>1, <2>2
<1>7. CASE d.heard = "applied" /\ (SweepT2(v, g) \/ Decide(v, o, "failed"))
  <2>1. GroupOf[o] = g /\ (w[g] = "applied" \/ ~ops[o].effect)
    BY <1>1, <1>7 DEF SweepKnows, FenceTracksW, o, g
  <2>2. \A p \in Op : GroupOf[p] = g /\ ops[p].effect => w[g] = "applied"
    BY <1>1, <2>1 DEF RowsAgree
  <2>3. \A p \in Op : GroupOf[p] = g /\ ops[p].state = "pending" => ops[p].plan # "null"
    BY <2>2 DEF PlanOK
  <2>4. CASE SweepT2(v, g)
    <3>1. CASE UNCHANGED pgVars
      <4>1. UNCHANGED <<ops, audit, recorded>> BY <3>1 DEF pgVars
      <4> QED BY <1>4, <4>1
    <3>2. CASE T2Ready(g) /\ Commit(g)
      <4>1. \A p \in Slots(g) : ops[p].effect => w[g] = "applied" BY <2>2 DEF Slots
      <4> QED BY <1>1, <1>2, <3>2, <4>1, CommitKeepsInv
    <3> QED BY <2>4, <3>1, <3>2 DEF SweepT2
  <2>5. CASE Decide(v, o, "failed")
    <3>1. CASE ops[o].claim # v BY <1>4, <2>5, <3>1 DEF Decide
    <3>2. CASE ops[o].claim = v
      <4>1. ops' = Closed(Pending(g), "failed") /\ UNCHANGED <<audit, recorded>>
        BY <2>1, <2>5, <3>2 DEF Decide
      <4> QED BY <1>1, <1>2, <2>2, <2>3, <4>1, FailKeepsInv
    <3> QED BY <3>1, <3>2
  <2> QED BY <1>7, <2>4, <2>5
<1>8. d.heard # "mismatch" BY DEF SweepKnows
<1> QED BY <1>5, <1>6, <1>7, <1>8 DEF DecideRow, o, g

\* A plan that throws, a late T1b and a W refused for good leave no trace in the
\* graph, so the group can be aborted.
LEMMA AbortedRunKeepsInv ==
  ASSUME JournalInv, TypeOK', NEW g \in Group, PlanFails(g) \/ AbortRun(g)
  PROVE  JournalInv'
<1> USE DEF JournalInv
<1>1. /\ ops' = Closed(Pending(g), "aborted")
      /\ UNCHANGED <<audit, recorded, fence, graph, w, late, todo, deciding>>
  BY DEF PlanFails, AbortRun, AbortGroup, neoVars, sweepVars
<1>2. PICK to \in {"declined", "aborted", "missing", "unproven"} :
        /\ pc[g] \in {"planning", "late", "sent"} /\ pc' = [pc EXCEPT ![g] = to]
        /\ to # "unproven" => pc[g] = "planning" \/ w[g] \in {"refused", "missing"}
  BY DEF PlanFails, AbortRun, Moves
<1>3. \A o \in Op : GroupOf[o] = g =>
        w[g] \notin {"applied", "inflight"} /\ pc[g] # "planned"
  BY DEF PlanFails, AbortRun, Moves, StageOK
<1>4. w[g] \notin {"applied", "inflight"} /\ pc[g] # "planned"
  BY <1>3, JournalAssumption
<1>5. ASSUME to # "unproven", NEW o \in Slots(g) PROVE ops'[o].state = "aborted"
  <2>1. o \in Op /\ GroupOf[o] = g BY DEF Slots
  <2>2. ops[o].effect BY <1>2, <1>5, <2>1 DEF StageOK, PlanOK
  <2>3. ops[o].state \in {"pending", "aborted"}
    BY <1>2, <1>4, <2>1, <2>2 DEF StageOK, Unreserved, DecisionBacked, TypeOK, Row, RowState
  <2>4. "aborted" \in RowState BY DEF RowState
  <2> QED BY <1>1, <2>1, <2>3, <2>4, ClosedGroup
<1>6. pc'[g] = to BY <1>2 DEF TypeOK
<1> QED BY <1>1, <1>2, <1>4, <1>5, <1>6, AbortKeepsInv

LEMMA RunT2KeepsInv ==
  ASSUME JournalInv, TypeOK', NEW g \in Group, RunT2(g)
  PROVE  JournalInv'
<1> USE DEF JournalInv
<1>1. UNCHANGED <<fence, graph, w, late, todo, deciding>>
  BY DEF RunT2, neoVars, sweepVars
<1>2. PICK to \in {"done", "unproven"} : pc[g] = "written" /\ pc' = [pc EXCEPT ![g] = to]
  BY DEF RunT2, Moves
<1>3. CASE T2Ready(g) /\ Commit(g)
  <2>1. \A o \in Slots(g) : ops[o].effect => w[g] = "applied"
    BY <1>2 DEF Slots, StageOK
  <2> QED BY <1>1, <1>2, <1>3, <2>1, CommitKeepsInv
<1>4. CASE UNCHANGED pgVars /\ (to = "done" => Committed(g))
  <2>1. \A o \in Op : pc'[GroupOf[o]] = IF GroupOf[o] = g THEN to ELSE pc[GroupOf[o]]
    BY <1>2, JournalAssumption DEF TypeOK
  <2>2. \A o \in Op : GroupOf[o] = g => /\ ops[o].state # "none"
                                        /\ to = "done" => ops[o].state = "committed"
    BY <1>2, <1>4 DEF StageOK, Unreserved, Committed, Slots
  <2>3. StageOK' BY <1>1, <1>2, <1>4, <2>1, <2>2 DEF StageOK, Unreserved, pgVars
  <2>4. Moves(g, {"written"}, to) BY <1>2 DEF Moves
  <2>5. UNCHANGED <<pgVars, neoVars>> BY <1>1, <1>4 DEF neoVars
  <2> QED BY <1>1, <2>3, <2>4, <2>5, StageKeepsInv
<1>5. pc'[g] = to BY <1>2 DEF TypeOK
<1> QED BY <1>2, <1>3, <1>4, <1>5 DEF RunT2, Moves, TypeOK

\* The steps of a run that only move it to another stage.
LEMMA MoveKeepsInv ==
  ASSUME JournalInv, TypeOK', NEW g \in Group,
         \/ Refuse(g) \/ Clash(g) \/ Inspect(g) \/ Recovered(g)
         \/ WAnswered(g) \/ Answer(g) \/ Abandon(g)
  PROVE  JournalInv'
<1> USE DEF JournalInv
<1>1. UNCHANGED <<pgVars, neoVars>>
  BY DEF Refuse, Clash, Inspect, Recovered, WAnswered, Answer, Abandon
<1>2. \A v \in Worker : todo'[v] \subseteq todo[v] /\ deciding'[v] \subseteq deciding[v]
  BY DEF Refuse, Clash, Inspect, Recovered, WAnswered, Answer, Abandon, sweepVars, TypeOK
<1>3. PICK from, to :
        /\ Moves(g, from, to)
        /\ \/ from \subseteq {"reserve", "clash", "recover", "retry"} /\ to \in Unreserved
           \/ from = {"sent"} /\ to = "written" /\ w[g] = "applied"
           \/ from = {"done"} /\ to = "ok"
           \/ to = "unproven"
  BY DEF Refuse, Clash, Inspect, Recovered, WAnswered, Answer, Abandon, Unreserved
<1>4. \A o \in Op : pc'[GroupOf[o]] = IF GroupOf[o] = g THEN to ELSE pc[GroupOf[o]]
  BY <1>3, JournalAssumption DEF TypeOK, Moves
<1>5. UNCHANGED <<ops, w>> BY <1>1 DEF pgVars, neoVars
<1>6. StageOK' BY <1>3, <1>4, <1>5 DEF StageOK, Unreserved, Moves
<1>7. to # "planned" BY <1>3 DEF Unreserved
<1> QED BY <1>1, <1>2, <1>3, <1>6, <1>7, StageKeepsInv

\* A requeued row is pending again, with its plan and its change as they were.
LEMMA RequeueKeepsInv ==
  ASSUME JournalInv, TypeOK', NEW g \in Group, Requeue(g)
  PROVE  JournalInv'
<1> USE DEF JournalInv
<1>1. \A o \in Op : ops[o] \in Row BY DEF TypeOK
<1>2. \A o \in Op :
        ops'[o] = IF GroupOf[o] = g /\ ops[o].state = "failed"
                  THEN [ops[o] EXCEPT !.state = "pending", !.claim = None, !.lapsed = TRUE]
                  ELSE ops[o]
  BY DEF Requeue, Slots
<1>3. \A o \in Op :
        /\ ops'[o].state = IF GroupOf[o] = g /\ ops[o].state = "failed" THEN "pending"
                           ELSE ops[o].state
        /\ ops'[o].plan = ops[o].plan /\ ops'[o].effect = ops[o].effect
        /\ ops'[o].operation = ops[o].operation
  BY <1>1, <1>2 DEF Row
<1>4. UNCHANGED <<audit, recorded, fence, graph, w, late, todo, deciding, pc>>
  BY DEF Requeue, neoVars, sweepVars
<1>5. RowsAgree' BY <1>3 DEF RowsAgree
<1>6. FenceTracksW' BY <1>4 DEF FenceTracksW
<1>7. OneOperation' BY <1>3, <1>4 DEF OneOperation
<1>8. StageOK' BY <1>3, <1>4 DEF StageOK, PlanOK, Unreserved
<1>9. PlanOK' BY <1>3, <1>4 DEF PlanOK
<1>10. DecisionBacked' BY <1>3, <1>4 DEF DecisionBacked
<1>11. SweepKnows'
  <2>1. \A u \in Worker : /\ \A r \in todo[u] : r.op \in Op
                          /\ \A d \in deciding[u] : d.row.op \in Op
    BY DEF TypeOK, Claimed, Decision
  <2> QED BY <1>3, <1>4, <2>1 DEF SweepKnows
<1>12. OneOpenRow' BY <1>3 DEF OneOpenRow, Open
<1>13. DivergenceExplained' BY <1>3, <1>4 DEF DivergenceExplained, Open
<1>14. AuditedExactlyOnce' BY <1>3, <1>4 DEF AuditedExactlyOnce
<1> QED BY <1>5, <1>6, <1>7, <1>8, <1>9, <1>10, <1>11, <1>12, <1>13, <1>14

LEMMA RunKeepsInv ==
  ASSUME JournalInv, NEW g \in Group, RunStep(g)
  PROVE  JournalInv'
<1>1. TypeOK' BY RunType DEF JournalInv
<1>2. CASE \E o \in Op : RecoverHolder(g, o)
  <2>1. PICK o \in Op : RecoverHolder(g, o) BY <1>2
  <2>2. g \in Worker BY DEF Worker
  <2>3. UNCHANGED <<epoch, audit, recorded, neoVars, pc, deciding>>
    BY <2>1 DEF RecoverHolder
  <2>4. CASE Claim(g, {o}) BY <1>1, <2>2, <2>3, <2>4, ClaimKeepsInv
  <2>5. CASE UNCHANGED <<ops, todo>>
    BY <1>1, <2>3, <2>5, MarksKeepInv DEF JournalInv, OneOperation, SweepKnows, neoVars
  <2> QED BY <2>1, <2>4, <2>5 DEF RecoverHolder
<1> QED
  BY <1>1, <1>2, AdmitKeepsInv, T1bKeepsInv, SendWKeepsInv, AbortedRunKeepsInv,
     RunT2KeepsInv, MoveKeepsInv DEF RunStep

LEMMA SweepKeepsInv ==
  ASSUME JournalInv, NEW v \in Worker, SweepStep(v)
  PROVE  JournalInv'
<1>1. TypeOK' BY SweepType DEF JournalInv
<1>2. CASE \E S \in SUBSET Op : StartSweep(v, S)
  BY <1>1, <1>2, ClaimKeepsInv DEF StartSweep
<1>3. CASE SweepCrash(v)
  <2>1. \A u \in Worker : todo'[u] \subseteq todo[u] /\ deciding'[u] \subseteq deciding[u]
    BY <1>3 DEF SweepCrash, JournalInv, TypeOK
  <2> QED
    BY <1>1, <1>3, <2>1, MarksKeepInv DEF SweepCrash, JournalInv, OneOperation, SweepKnows,
       pgVars, neoVars
<1> QED
  BY <1>1, <1>2, <1>3, FenceRowKeepsInv, FenceLostKeepsInv, DecideKeepsInv DEF SweepStep

LEMMA EnvKeepsInv ==
  ASSUME JournalInv,
         \/ \E g \in Group : LandW(g) \/ Requeue(g)
         \/ \E m \in late : LandLateMerge(m)
         \/ \E o \in Op : LeaseLapses(o)
  PROVE  JournalInv'
<1> USE DEF JournalInv
<1>1. TypeOK' BY EnvType
<1>2. ASSUME NEW g \in Group, LandW(g) PROVE JournalInv'
  BY <1>1, <1>2, LandWKeepsInv
<1>3. ASSUME NEW g \in Group, Requeue(g) PROVE JournalInv'
  BY <1>1, <1>3, RequeueKeepsInv
<1>4. ASSUME NEW m \in late, LandLateMerge(m) PROVE JournalInv'
  <2>1. m.op \in Op /\ m.operation = "asked" BY DEF TypeOK, OneOperation
  <2>2. UNCHANGED <<todo, deciding>> /\ late' \subseteq late
    BY <1>4 DEF LandLateMerge, sweepVars
  <2> QED BY <1>1, <1>4, <2>1, <2>2, MergeKeepsInv DEF LandLateMerge
<1>5. ASSUME NEW o \in Op, LeaseLapses(o) PROVE JournalInv'
  <2>1. \A p \in Op : ops[p] \in Row BY DEF TypeOK
  <2>2. \A p \in Op : ops'[p] = IF p = o THEN [ops[o] EXCEPT !.lapsed = TRUE] ELSE ops[p]
    BY <1>5 DEF LeaseLapses, TypeOK
  <2>3. \A p \in Op : /\ ops'[p].state = ops[p].state /\ ops'[p].plan = ops[p].plan
                      /\ ops'[p].effect = ops[p].effect
                      /\ ops'[p].operation = ops[p].operation
    BY <2>1, <2>2 DEF Row
  <2> QED
    BY <1>1, <1>5, <2>3, MarksKeepInv DEF LeaseLapses, OneOperation, SweepKnows, neoVars, sweepVars
<1> QED BY <1>2, <1>3, <1>4, <1>5

LEMMA InitInv == Init => JournalInv
<1> SUFFICES ASSUME Init PROVE JournalInv OBVIOUS
<1>1. TypeOK BY InitType
<1>2. RowsAgree /\ FenceTracksW /\ OneOperation
  BY JournalAssumption DEF Init, NoRow, RowsAgree, FenceTracksW, OneOperation
<1>3. StageOK /\ PlanOK /\ DecisionBacked
  BY JournalAssumption DEF Init, NoRow, StageOK, Unreserved, PlanOK, DecisionBacked
<1>4. SweepKnows /\ OneOpenRow /\ DivergenceExplained /\ AuditedExactlyOnce
  BY DEF Init, NoRow, SweepKnows, OneOpenRow, Open, DivergenceExplained, AuditedExactlyOnce
<1> QED BY <1>1, <1>2, <1>3, <1>4 DEF JournalInv

LEMMA StutterInv == JournalInv /\ UNCHANGED vars => JournalInv'
BY DEF JournalInv, vars, pgVars, neoVars, sweepVars, TypeOK, RowsAgree, FenceTracksW,
   OneOperation, StageOK, PlanOK, DecisionBacked, SweepKnows, OneOpenRow, Open,
   DivergenceExplained, AuditedExactlyOnce

\* The journal, the fences, the graph, the evidence and what sweeps remember stay
\* consistent in every interleaving of runs, sweeps, late statements and crashes,
\* for every number of groups, rows, CIs and sweepers.
THEOREM JournalIsConsistent == Spec => []JournalInv
<1>1. JournalInv /\ [Next]_vars => JournalInv'
  BY RunKeepsInv, SweepKeepsInv, EnvKeepsInv, StutterInv DEF Next
<1> QED BY InitInv, <1>1, PTL DEF Spec

-----------------------------------------------------------------------------
(* What the invariant gives.                                               *)

\* Every variable keeps its type.
THEOREM TypeCorrect == Spec => []TypeOK
BY JournalIsConsistent, PTL DEF JournalInv

\* The rows of a group are always in the same state, whichever of them the run and
\* any number of sweeps claimed.
THEOREM GroupsDecideTogether == Spec => []DecidedTogether
<1>1. JournalInv => DecidedTogether BY DEF JournalInv, RowsAgree, DecidedTogether
<1> QED BY <1>1, JournalIsConsistent, PTL

\* A committed change is in the graph and an aborted one is not, even when its W
\* lands after recovery gave up on it.
THEOREM DecisionsMatchGraph == Spec => []DecisionMatchesGraph
<1>1. JournalInv => DecisionMatchesGraph
  BY DEF JournalInv, DecisionBacked, FenceTracksW, DecisionMatchesGraph
<1> QED BY <1>1, JournalIsConsistent, PTL

\* Wherever graph and evidence differ, the read gap is closed.
THEOREM GapCovers == Spec => []GapCoversDivergence
<1>1. JournalInv => GapCoversDivergence
  BY DEF JournalInv, DivergenceExplained, GapCoversDivergence, Gap
<1> QED BY <1>1, JournalIsConsistent, PTL

\* A failed group keeps its plan and its change is in the graph.
THEOREM FailedGroupsReplay == Spec => []FailedIsReplayable
<1>1. JournalInv => FailedIsReplayable
  BY DEF JournalInv, PlanOK, DecisionBacked, FenceTracksW, FailedIsReplayable
<1> QED BY <1>1, JournalIsConsistent, PTL

\* No later step of another run or sweep falsifies what run() told its caller.
THEOREM AnswersStand == Spec => []AnswersHold
<1>1. JournalInv => AnswersHold
  BY DEF JournalInv, StageOK, Unreserved, DecisionBacked, FenceTracksW, AnswersHold,
     Committed, Slots
<1> QED BY <1>1, JournalIsConsistent, PTL

\* One audit row per slot of a committed group, and none of any other.
THEOREM EvidenceOnce == Spec => []AuditedExactlyOnce
BY JournalIsConsistent, PTL DEF JournalInv

\* Recovery never answers fence_mismatch.
THEOREM FencesNeverMismatch == Spec => []FencesAgree
<1>1. JournalInv => FencesAgree BY DEF JournalInv, SweepKnows, FencesAgree
<1> QED BY <1>1, JournalIsConsistent, PTL

\* Closing the pending rows of a group leaves every other row where it is.
LEMMA ClosedStands ==
  ASSUME JournalInv, NEW g \in Group, NEW s \in RowState, ops' = Closed(Pending(g), s),
         UNCHANGED fence, NEW o \in Op
  PROVE  DecisionStands(o)
BY ClosedGroup DEF JournalInv, DecisionStands

LEMMA CommitStands ==
  ASSUME JournalInv, NEW g \in Group, T2Ready(g), Commit(g), UNCHANGED fence, NEW o \in Op
  PROVE  DecisionStands(o)
<1>1. ops' = Closed(Slots(g), "committed") /\ Slots(g) \in SUBSET Op /\ "committed" \in RowState
  BY DEF Commit, Slots, RowState
<1>2. ops'[o].state = IF o \in Slots(g) THEN "committed" ELSE ops[o].state
  BY <1>1, ClosedFields DEF JournalInv
<1> QED BY <1>2 DEF T2Ready, DecisionStands

LEMMA MergeStands ==
  ASSUME JournalInv, NEW m, fence' = Merged(m), UNCHANGED ops, NEW o \in Op
  PROVE  DecisionStands(o)
BY DEF JournalInv, TypeOK, Merged, DecisionStands

LEMMA RunStands ==
  ASSUME JournalInv, NEW g \in Group, RunStep(g), NEW o \in Op
  PROVE  DecisionStands(o)
<1> USE DEF neoVars
<1>1. CASE Admit(g)
  <2>1. GroupOf[o] = g => ops[o].state = "none"
    BY <1>1 DEF Admit, JournalInv, StageOK, Unreserved, Moves
  <2>2. UNCHANGED fence /\ (GroupOf[o] # g => ops'[o] = ops[o])
    BY <1>1 DEF Admit, Slots
  <2> QED BY <2>1, <2>2 DEF DecisionStands
<1>2. CASE \E p \in Op : RecoverHolder(g, p)
  <2>1. ops[o] \in Row /\ UNCHANGED fence BY <1>2 DEF RecoverHolder, JournalInv, TypeOK
  <2>2. ops'[o] \in {ops[o], [ops[o] EXCEPT !.claim = g, !.lapsed = FALSE]}
    BY <1>2 DEF RecoverHolder, Claim
  <2> QED BY <2>1, <2>2 DEF DecisionStands, Row
<1>3. CASE PlanFails(g) \/ AbortRun(g)
  BY <1>3, ClosedStands DEF PlanFails, AbortRun, AbortGroup, RowState
<1>4. CASE \E p \in Plans : T1b(g, p)
  <2>1. PICK p \in Plans : T1b(g, p) BY <1>4
  <2>2. ops[o].state # "pending" => ops'[o] = ops[o]
    BY <2>1 DEF T1b, Pending
  <2>3. ops[o].state = "pending" \/ ops'[o].state = ops[o].state BY <2>2
  <2> QED BY <2>1, <2>3 DEF T1b, DecisionStands
<1>5. CASE RunT2(g)
  BY <1>5, CommitStands DEF RunT2, DecisionStands, pgVars
<1> QED
  BY <1>1, <1>2, <1>3, <1>4, <1>5 DEF RunStep, Refuse, Clash, Inspect, Recovered, SendW,
     WAnswered, Answer, Abandon, pgVars, DecisionStands

LEMMA SweepStands ==
  ASSUME JournalInv, NEW v \in Worker, SweepStep(v), NEW o \in Op
  PROVE  DecisionStands(o)
<1> USE DEF neoVars
<1>1. CASE \E S \in SUBSET Op : StartSweep(v, S)
  <2>1. ops[o] \in Row /\ UNCHANGED fence BY <1>1 DEF StartSweep, JournalInv, TypeOK
  <2>2. ops'[o] \in {ops[o], [ops[o] EXCEPT !.claim = v, !.lapsed = FALSE]}
    BY <1>1 DEF StartSweep, Claim
  <2> QED BY <2>1, <2>2 DEF DecisionStands, Row
<1>2. CASE \E r \in todo[v] : FenceRow(v, r)
  <2>1. PICK r \in todo[v] : FenceRow(v, r) BY <1>2
  <2>2. UNCHANGED ops BY <2>1 DEF FenceRow, pgVars
  <2>3. CASE UNCHANGED fence BY <2>2, <2>3 DEF DecisionStands
  <2>4. CASE fence' = Merged(r) BY <2>2, <2>4, MergeStands
  <2> QED BY <2>1, <2>3, <2>4 DEF FenceRow
<1>3. CASE \E r \in todo[v] : FenceLost(v, r)
  <2>1. PICK r \in todo[v] : FenceLost(v, r) BY <1>3
  <2>2. r.op \in Op BY DEF JournalInv, TypeOK, Claimed
  <2>3. ops'[o].state = ops[o].state
    BY <2>1, <2>2, ReleaseFields DEF FenceLost, JournalInv
  <2> QED BY <2>1, <2>3 DEF FenceLost, DecisionStands
<1>4. CASE \E d \in deciding[v] : DecideRow(v, d)
  <2>1. PICK d \in deciding[v] : DecideRow(v, d) BY <1>4
  <2> DEFINE p == d.row.op
             g == GroupOf[p]
  <2>2. p \in Op /\ g \in Group BY JournalAssumption DEF JournalInv, TypeOK, Decision, Claimed
  <2>3. UNCHANGED fence BY <2>1 DEF DecideRow
  <2>4. ASSUME NEW s \in {"aborted", "failed"}, Decide(v, p, s) PROVE DecisionStands(o)
    <3>1. CASE UNCHANGED ops BY <2>3, <3>1 DEF DecisionStands
    <3>2. CASE ops' = Closed(Pending(g), s)
      BY <2>2, <2>3, <3>2, ClosedStands DEF RowState
    <3> QED BY <2>4, <3>1, <3>2 DEF Decide
  <2>5. CASE SweepT2(v, g)
    BY <2>2, <2>3, <2>5, CommitStands DEF SweepT2, pgVars, DecisionStands
  <2>6. CASE Release(v, p)
    BY <2>2, <2>3, <2>6, ReleaseFields DEF JournalInv, DecisionStands
  <2> QED BY <2>1, <2>4, <2>5, <2>6 DEF DecideRow
<1>5. CASE SweepCrash(v) BY <1>5 DEF SweepCrash, pgVars, DecisionStands
<1> QED BY <1>1, <1>2, <1>3, <1>4, <1>5 DEF SweepStep

LEMMA EnvStands ==
  ASSUME JournalInv, NEW o \in Op,
         \/ \E g \in Group : LandW(g) \/ Requeue(g)
         \/ \E m \in late : LandLateMerge(m)
         \/ \E p \in Op : LeaseLapses(p)
  PROVE  DecisionStands(o)
<1> USE DEF neoVars
<1>1. ops[o] \in Row BY DEF JournalInv, TypeOK
<1>2. ASSUME NEW g \in Group, LandW(g) PROVE DecisionStands(o)
  BY <1>2 DEF LandW, Fenced, pgVars, DecisionStands
<1>3. ASSUME NEW g \in Group, Requeue(g) PROVE DecisionStands(o)
  <2>1. ops'[o].state = IF ops'[o] = ops[o] THEN ops[o].state ELSE "pending"
    BY <1>1, <1>3 DEF Requeue, Row
  <2>2. ops[o].state # "failed" => ops'[o] = ops[o] BY <1>3 DEF Requeue
  <2> QED BY <1>3, <2>1, <2>2 DEF Requeue, DecisionStands
<1>4. ASSUME NEW m \in late, LandLateMerge(m) PROVE DecisionStands(o)
  BY <1>4, MergeStands DEF LandLateMerge, pgVars
<1>5. ASSUME NEW p \in Op, LeaseLapses(p) PROVE DecisionStands(o)
  <2>1. ops'[o] \in {ops[o], [ops[o] EXCEPT !.lapsed = TRUE]}
    BY <1>5 DEF LeaseLapses, JournalInv, TypeOK
  <2> QED BY <1>1, <1>5, <2>1 DEF LeaseLapses, DecisionStands, Row
<1> QED BY <1>2, <1>3, <1>4, <1>5

\* Committed and aborted rows stay so, failed rows are only requeued, and a fence
\* keeps its outcome.
THEOREM DecisionsFinal == Spec => DecisionsAreFinal
<1>1. JournalInv /\ [Next]_vars => [\A o \in Op : DecisionStands(o)]_vars
  BY RunStands, SweepStands, EnvStands DEF Next
<1> QED BY <1>1, JournalIsConsistent, PTL DEF Spec, DecisionsAreFinal

-----------------------------------------------------------------------------
(* The refinement.  The invariant reads the mapping: a group's status is   *)
(* the state of any of its rows, and readers see what the evidence names.  *)

StatusIs(g, o) ==
  /\ ops[o].state = "none" <=> StatusOf(g) = "new"
  /\ Open(o) <=> StatusOf(g) = "open"
  /\ ops[o].state = "committed" <=> StatusOf(g) = "done"
  /\ ops[o].state = "aborted" <=> StatusOf(g) = "dropped"
  /\ StatusOf(g) \in {"new", "open", "done", "dropped"}

MapIsRead ==
  /\ \A g \in Group : \A o \in Slots(g) : StatusIs(g, o)
  /\ \A c \in CI : (IF Gap(c) THEN recorded[c] ELSE graph[c]) = recorded[c]

LEMMA MapReads == JournalInv => MapIsRead
<1> SUFFICES ASSUME JournalInv PROVE MapIsRead
  OBVIOUS
<1>1. ASSUME NEW g \in Group, NEW o \in Slots(g) PROVE StatusIs(g, o)
  <2> DEFINE p == CHOOSE p \in Slots(g) : TRUE
  <2>1. p \in Slots(g)
    BY <1>1
  <2>2. o \in Op /\ p \in Op /\ GroupOf[o] = GroupOf[p]
    BY <2>1 DEF Slots
  <2>3. ops[p].state = ops[o].state
    BY <2>2 DEF JournalInv, RowsAgree
  <2>4. ops[o].state \in RowState
    BY <2>2 DEF JournalInv, TypeOK, Row
  <2>5. StatusOf(g) = CASE ops[p].state = "none"                  -> "new"
                        [] ops[p].state \in {"pending", "failed"} -> "open"
                        [] ops[p].state = "committed"             -> "done"
                        [] ops[p].state = "aborted"               -> "dropped"
    BY DEF StatusOf
  <2> HIDE DEF p
  <2> QED BY <2>3, <2>4, <2>5 DEF StatusIs, RowState, Open
<1>2. \A c \in CI : ~Gap(c) => graph[c] = recorded[c]
  BY DEF JournalInv, DivergenceExplained, Gap
<1> QED BY <1>1, <1>2 DEF MapIsRead

StatesStay   == \A o \in Op : ops'[o].state = ops[o].state
OthersSay(g) == \A h \in Group : h # g => ToldTo(h)' = ToldTo(h)

\* A group's status changes only with its rows.
LEMMA StatusStays ==
  ASSUME MapIsRead, MapIsRead', NEW g \in Group,
         \A o \in Slots(g) : ops'[o].state = ops[o].state \/ (Open(o) /\ Open(o)')
  PROVE  StatusOf(g)' = StatusOf(g)
<1>1. PICK o \in Op : GroupOf[o] = g
  BY JournalAssumption
<1>2. o \in Slots(g) /\ Slots(g)' = Slots(g)
  BY <1>1 DEF Slots
<1>3. StatusIs(g, o) /\ StatusIs(g, o)'
  BY <1>2 DEF MapIsRead
<1> QED BY <1>2, <1>3 DEF StatusIs, Open

LEMMA SeenIsEvidence ==
  ASSUME MapIsRead, MapIsRead'
  PROVE  /\ [c \in CI |-> IF Gap(c) THEN recorded[c] ELSE graph[c]] = [c \in CI |-> recorded[c]]
         /\ [c \in CI |-> IF Gap(c) THEN recorded[c] ELSE graph[c]]' = [c \in CI |-> recorded'[c]]
BY DEF MapIsRead

LEMMA StutterMaps ==
  ASSUME MapIsRead, MapIsRead', recorded' = recorded,
         \A o \in Op : ops'[o].state = ops[o].state \/ (Open(o) /\ Open(o)'),
         \A g \in Group : ToldTo(g)' = ToldTo(g)
  PROVE  UNCHANGED Atomic!vars
<1>1. \A g \in Group : StatusOf(g)' = StatusOf(g)
  BY StatusStays DEF Slots
<1> QED BY <1>1, SeenIsEvidence DEF Atomic!vars

LEMMA TellMaps ==
  ASSUME MapIsRead, MapIsRead', recorded' = recorded, StatesStay, NEW g \in Group, OthersSay(g),
         ToldTo(g) = "nothing",
         \/ ToldTo(g)' = "yes" /\ \A o \in Slots(g) : ops[o].state = "committed"
         \/ ToldTo(g)' = "no" /\ \A o \in Slots(g) : ops[o].state \in {"none", "aborted"}
  PROVE  Atomic!Tell(g)
<1>1. ASSUME NEW h \in Group PROVE StatusOf(h)' = StatusOf(h)
  BY StatusStays DEF Slots, StatesStay
<1>2. PICK o \in Slots(g) : TRUE
  BY JournalAssumption DEF Slots
<1>3. StatusIs(g, o)
  BY <1>2 DEF MapIsRead
<1>4. \/ StatusOf(g) = "done" /\ ToldTo(g)' = "yes"
      \/ StatusOf(g) \in {"new", "dropped"} /\ ToldTo(g)' = "no"
  BY <1>2, <1>3 DEF StatusIs
<1>5. [h \in Group |-> ToldTo(h)]' = [[h \in Group |-> ToldTo(h)] EXCEPT ![g] = ToldTo(g)']
  BY DEF OthersSay
<1> QED BY <1>1, <1>4, <1>5, SeenIsEvidence DEF Atomic!Tell

LEMMA DropMaps ==
  ASSUME MapIsRead, MapIsRead', recorded' = recorded, NEW g \in Group, OthersSay(g),
         \A o \in Op : IF o \in Slots(g) THEN ops[o].state = "pending" /\ ops'[o].state = "aborted"
                       ELSE ops'[o].state = ops[o].state,
         ToldTo(g)' \in {ToldTo(g), "no"}
  PROVE  Atomic!Drop(g)
<1>1. ASSUME NEW h \in Group, h # g PROVE StatusOf(h)' = StatusOf(h)
  <2>1. \A o \in Slots(h) : ops'[o].state = ops[o].state
    BY <1>1 DEF Slots
  <2> QED BY <2>1, StatusStays
<1>2. PICK o \in Slots(g) : TRUE
  BY JournalAssumption DEF Slots
<1>3. StatusIs(g, o) /\ StatusIs(g, o)' /\ o \in Op
  BY <1>2 DEF MapIsRead, Slots
<1>4. StatusOf(g) = "open" /\ StatusOf(g)' = "dropped"
  BY <1>2, <1>3 DEF StatusIs, Open
<1>5. \/ [h \in Group |-> ToldTo(h)]' = [h \in Group |-> ToldTo(h)]
      \/ [h \in Group |-> ToldTo(h)]' = [[h \in Group |-> ToldTo(h)] EXCEPT ![g] = "no"]
  BY DEF OthersSay
<1>6. [h \in Group |-> StatusOf(h)]' = [[h \in Group |-> StatusOf(h)] EXCEPT ![g] = "dropped"]
  BY <1>1, <1>4
<1> QED BY <1>4, <1>5, <1>6, SeenIsEvidence DEF Atomic!Drop

LEMMA CommitMaps ==
  ASSUME JournalInv, MapIsRead, MapIsRead', NEW g \in Group, T2Ready(g), Commit(g),
         \A h \in Group : ToldTo(h)' = ToldTo(h)
  PROVE  Atomic!TakeEffect(g)
<1>1. \A o \in Op : ops'[o].state = IF o \in Slots(g) THEN "committed" ELSE ops[o].state
  BY ClosedFields DEF JournalInv, Commit, RowState, Slots
<1>2. ASSUME NEW h \in Group, h # g PROVE StatusOf(h)' = StatusOf(h)
  <2>1. \A o \in Slots(h) : ops'[o].state = ops[o].state
    BY <1>1, <1>2 DEF Slots
  <2> QED BY <2>1, StatusStays
<1>3. PICK o \in Slots(g) : TRUE
  BY JournalAssumption DEF Slots
<1>4. StatusIs(g, o) /\ StatusIs(g, o)' /\ o \in Op /\ GroupOf[o] = g
  BY <1>3 DEF MapIsRead, Slots
<1>5. StatusOf(g) = "open" /\ StatusOf(g)' = "done"
  BY <1>1, <1>3, <1>4 DEF StatusIs, Open, T2Ready
<1>6. [h \in Group |-> StatusOf(h)]' = [[h \in Group |-> StatusOf(h)] EXCEPT ![g] = "done"]
  BY <1>2, <1>5
<1>7. ToldTo(g) = "nothing"
  BY <1>3, <1>4 DEF JournalInv, StageOK, Unreserved, ToldTo, T2Ready
<1>8. \/ [c \in CI |-> recorded'[c]] =
           [c \in CI |-> IF c \in {CiOf[p] : p \in Slots(g)} THEN g ELSE recorded[c]]
      \/ [c \in CI |-> recorded'[c]] = [c \in CI |-> recorded[c]]
  <2>1. \A p, q \in Slots(g) : ops[p].effect = ops[q].effect
    BY DEF JournalInv, RowsAgree, Slots
  <2>2. CASE \A p \in Slots(g) : ops[p].effect
    BY <2>2 DEF Commit
  <2>3. CASE \A p \in Slots(g) : ~ops[p].effect
    BY <2>3 DEF Commit
  <2> QED BY <2>1, <2>2, <2>3
<1>9. [h \in Group |-> ToldTo(h)]' = [h \in Group |-> ToldTo(h)]
  OBVIOUS
<1> QED BY <1>5, <1>6, <1>7, <1>8, <1>9, SeenIsEvidence DEF Atomic!TakeEffect

-----------------------------------------------------------------------------
(* What a step may be on the abstract side.                                *)

MapsTo == (\E g \in Group : Atomic!Begin(g) \/ Atomic!TakeEffect(g) \/ Atomic!Drop(g) \/ Atomic!Tell(g))
          \/ UNCHANGED Atomic!vars

Says(s) == CASE s = "ok" -> "yes"
             [] s \in {"gap", "refused", "declined", "aborted", "missing"} -> "no"
             [] OTHER -> "nothing"

LEMMA RunSays ==
  ASSUME TypeOK, NEW g \in Group, NEW from, NEW to, Moves(g, from, to)
  PROVE  pc[g] \in from /\ OthersSay(g) /\ ToldTo(g)' = Says(to) /\ ToldTo(g) = Says(pc[g])
BY DEF TypeOK, Moves, OthersSay, ToldTo, Says

LEMMA SilentMoves ==
  ASSUME TypeOK, NEW g \in Group, NEW from, NEW to, Moves(g, from, to),
         from \subseteq Running, to \in Running \cup {"unproven"}
  PROVE  \A h \in Group : ToldTo(h)' = ToldTo(h)
<1>1. pc[g] \in Running /\ Says(pc[g]) = "nothing" /\ Says(to) = "nothing"
  BY RunSays DEF Running, Says
<1> QED BY <1>1, RunSays DEF OthersSay

LEMMA SilentSteps ==
  ASSUME MapIsRead, MapIsRead', recorded' = recorded, StatesStay,
         \A g \in Group : ToldTo(g)' = ToldTo(g)
  PROVE  UNCHANGED Atomic!vars
BY StutterMaps DEF StatesStay

LEMMA ClaimStates ==
  ASSUME TypeOK, NEW v \in Worker, NEW S \in SUBSET Op, Claim(v, S) PROVE StatesStay
<1> SUFFICES ASSUME NEW o \in Op PROVE ops'[o].state = ops[o].state
  BY DEF StatesStay
<1>1. ops[o] \in Row
  BY DEF TypeOK
<1> QED BY <1>1 DEF Claim, Row

LEMMA ReleaseStates ==
  ASSUME TypeOK, NEW v \in Worker, NEW p \in Op, Release(v, p) PROVE StatesStay
BY ReleaseFields DEF StatesStay

LEMMA AdmitMaps ==
  ASSUME JournalInv, MapIsRead, MapIsRead', NEW g \in Group, Admit(g)
  PROVE  Atomic!Begin(g)
<1> USE DEF JournalInv
<1>1. /\ pc[g] \in {"reserve", "retry"} /\ OthersSay(g)
      /\ ToldTo(g) = "nothing" /\ ToldTo(g)' = "nothing"
  BY RunSays DEF Admit, Says
<1>2. \A o \in Op : ops'[o].state = IF o \in Slots(g) THEN "pending" ELSE ops[o].state
  BY DEF Admit, NoRow
<1>3. ASSUME NEW h \in Group, h # g PROVE StatusOf(h)' = StatusOf(h)
  <2>1. \A o \in Slots(h) : ops'[o].state = ops[o].state
    BY <1>2, <1>3 DEF Slots
  <2> QED BY <2>1, StatusStays
<1>4. PICK o \in Slots(g) : TRUE
  BY JournalAssumption DEF Slots
<1>5. StatusIs(g, o) /\ StatusIs(g, o)' /\ o \in Op /\ GroupOf[o] = g
  BY <1>4 DEF MapIsRead, Slots
<1>6. StatusOf(g) = "new" /\ StatusOf(g)' = "open"
  BY <1>1, <1>2, <1>4, <1>5 DEF StatusIs, Open, StageOK, Unreserved
<1>7. ASSUME NEW h \in Group, StatusOf(h) = "open"
      PROVE  {CiOf[p] : p \in Slots(h)} \cap {CiOf[p] : p \in Slots(g)} = {}
  <2> SUFFICES ASSUME NEW p \in Slots(h), NEW q \in Slots(g), CiOf[p] = CiOf[q] PROVE FALSE
    OBVIOUS
  <2>1. Open(p)
    BY <1>7 DEF MapIsRead, StatusIs
  <2> QED BY <2>1 DEF Admit, Contended, Gap, Slots
<1>8. [h \in Group |-> ToldTo(h)]' = [h \in Group |-> ToldTo(h)]
  BY <1>1 DEF OthersSay
<1>9. [h \in Group |-> StatusOf(h)]' = [[h \in Group |-> StatusOf(h)] EXCEPT ![g] = "open"]
  BY <1>3, <1>6
<1>10. recorded' = recorded
  BY DEF Admit
<1> QED BY <1>1, <1>6, <1>7, <1>8, <1>9, <1>10, SeenIsEvidence DEF Atomic!Begin

\* A run that gives its group up: drops it, or finds it decided and at most says so.
LEMMA AbortMaps ==
  ASSUME JournalInv, MapIsRead, MapIsRead', recorded' = recorded, NEW g \in Group,
         AbortGroup(g), OthersSay(g), ToldTo(g) = "nothing",
         \/ ToldTo(g)' = "nothing"
         \/ ToldTo(g)' = "no" /\ \A o \in Slots(g) : ops[o].state \in {"pending", "aborted"}
  PROVE  MapsTo
<1> USE DEF JournalInv
<1>1. CASE Pending(g) = {}
  <2>1. StatesStay
    BY <1>1, ClosedFields DEF AbortGroup, StatesStay, RowState
  <2>2. \A o \in Slots(g) : ops[o].state # "pending"
    BY <1>1 DEF Pending
  <2>3. CASE ToldTo(g)' = "nothing"
    BY <2>1, <2>3, SilentSteps DEF MapsTo, OthersSay
  <2>4. CASE ToldTo(g)' = "no"
    <3>1. \A o \in Slots(g) : ops[o].state \in {"none", "aborted"}
      BY <2>2, <2>4
    <3> QED BY <2>1, <2>4, <3>1, TellMaps DEF MapsTo
  <2> QED BY <2>3, <2>4
<1>2. CASE Pending(g) = Slots(g)
  <2>1. \A o \in Op : IF o \in Slots(g) THEN ops[o].state = "pending" /\ ops'[o].state = "aborted"
                      ELSE ops'[o].state = ops[o].state
    BY <1>2, ClosedFields DEF AbortGroup, RowState, Pending, Slots
  <2>2. ToldTo(g)' \in {ToldTo(g), "no"}
    OBVIOUS
  <2> QED BY <2>1, <2>2, DropMaps DEF MapsTo
<1> QED BY <1>1, <1>2, AllOrNonePending
LEMMA RunMaps ==
  ASSUME JournalInv, JournalInv', NEW g \in Group, RunStep(g)
  PROVE  MapsTo
<1> USE DEF JournalInv, pgVars
<1>0. MapIsRead /\ MapIsRead'
  BY MapReads, PTL
<1>1. ASSUME ops' = ops, recorded' = recorded, OthersSay(g), ToldTo(g) = "nothing",
             \/ ToldTo(g)' = "nothing"
             \/ ToldTo(g)' = "yes" /\ \A o \in Slots(g) : ops[o].state = "committed"
             \/ ToldTo(g)' = "no" /\ \A o \in Slots(g) : ops[o].state \in {"none", "aborted"}
      PROVE  MapsTo
  <2>1. StatesStay
    BY <1>1 DEF StatesStay
  <2>2. CASE ToldTo(g)' = "nothing"
    BY <1>0, <1>1, <2>1, <2>2, SilentSteps DEF MapsTo, OthersSay
  <2>3. CASE ToldTo(g)' # "nothing"
    BY <1>0, <1>1, <2>1, <2>3, TellMaps DEF MapsTo
  <2> QED BY <2>2, <2>3
<1>2. ASSUME pc[g] \in Unreserved PROVE \A o \in Slots(g) : ops[o].state = "none"
  BY <1>2 DEF StageOK, Slots
<1>3. CASE Refuse(g)
  <2>1. pc[g] \in {"reserve", "retry"} /\ OthersSay(g) /\ ToldTo(g) = "nothing" /\ ToldTo(g)' = "no"
    BY <1>3, RunSays DEF Refuse, Says
  <2> QED BY <1>1, <1>2, <1>3, <2>1 DEF Refuse, Unreserved
<1>4. CASE Admit(g)
  BY <1>0, <1>4, AdmitMaps DEF MapsTo
<1>5. CASE Clash(g)
  <2>1. /\ pc[g] \in {"reserve", "retry"} /\ OthersSay(g)
        /\ ToldTo(g) = "nothing" /\ ToldTo(g)' \in {"no", "nothing"}
    BY <1>5, RunSays DEF Clash, Says
  <2> QED BY <1>1, <1>2, <1>5, <2>1 DEF Clash, Unreserved
<1>6. CASE Inspect(g)
  <2>1. /\ pc[g] = "clash" /\ OthersSay(g)
        /\ ToldTo(g) = "nothing" /\ ToldTo(g)' \in {"no", "nothing"}
    BY <1>6, RunSays DEF Inspect, Says
  <2> QED BY <1>1, <1>2, <1>6, <2>1 DEF Inspect, Unreserved
<1>7. CASE Recovered(g)
  <2>1. OthersSay(g) /\ ToldTo(g) = "nothing" /\ ToldTo(g)' = "nothing"
    BY <1>7, RunSays DEF Recovered, Says
  <2> QED BY <1>1, <1>7, <2>1 DEF Recovered
<1>8. ASSUME NEW o \in Op, RecoverHolder(g, o) PROVE MapsTo
  <2>1. StatesStay
    BY <1>8, ClaimStates DEF RecoverHolder, StatesStay, Worker
  <2>2. \A h \in Group : ToldTo(h)' = ToldTo(h)
    BY <1>8 DEF RecoverHolder, ToldTo
  <2> QED BY <1>0, <1>8, <2>1, <2>2, SilentSteps DEF RecoverHolder, MapsTo
<1>9. CASE PlanFails(g)
  <2>1. pc[g] = "planning" /\ OthersSay(g) /\ ToldTo(g) = "nothing" /\ ToldTo(g)' = "no"
    BY <1>9, RunSays DEF PlanFails, Says
  <2>2. \A o \in Slots(g) : ops[o].state \in {"pending", "aborted"}
    <3> SUFFICES ASSUME NEW o \in Slots(g) PROVE ops[o].state \in {"pending", "aborted"}
      OBVIOUS
    <3>1. o \in Op /\ GroupOf[o] = g
      BY DEF Slots
    <3>2. ops[o].state \in RowState
      BY <3>1 DEF TypeOK, Row
    <3>3. w[g] = "unsent" /\ ops[o].effect /\ ops[o].state # "none"
      BY <2>1, <3>1 DEF StageOK, Unreserved
    <3> QED BY <3>1, <3>2, <3>3 DEF DecisionBacked, RowState
  <2> QED BY <1>0, <1>9, <2>1, <2>2, AbortMaps DEF PlanFails
<1>10. ASSUME NEW p \in Plans, T1b(g, p) PROVE MapsTo
  <2>1. OthersSay(g) /\ ToldTo(g) = "nothing" /\ ToldTo(g)' = "nothing"
    <3>1. PICK to \in {"planned", "written", "late"} : Moves(g, {"planning"}, to)
      BY <1>10 DEF T1b
    <3> QED BY <3>1, RunSays DEF Says
  <2>2. StatesStay
    <3> SUFFICES ASSUME NEW o \in Op PROVE ops'[o].state = ops[o].state
      BY DEF StatesStay
    <3>1. ops[o] \in Row
      BY DEF TypeOK
    <3>2. CASE o \notin Pending(g)
      BY <1>10, <3>2 DEF T1b
    <3>3. CASE o \in Pending(g)
      <4>1. ops'[o] = [ops[o] EXCEPT !.plan = p, !.effect = p \in GraphPlans, !.lapsed = FALSE,
                                     !.operation = IF p = "hold" THEN "hold" ELSE @]
        BY <1>10, <3>3 DEF T1b
      <4> QED BY <3>1, <4>1 DEF Row
    <3> QED BY <3>2, <3>3
  <2> QED BY <1>0, <1>10, <2>1, <2>2, SilentSteps DEF T1b, MapsTo, OthersSay
<1>11. CASE SendW(g)
  <2>1. OthersSay(g) /\ ToldTo(g) = "nothing" /\ ToldTo(g)' = "nothing"
    BY <1>11, RunSays DEF SendW, Says
  <2> QED BY <1>1, <1>11, <2>1 DEF SendW
<1>12. CASE AbortRun(g)
  <2>1. CASE Moves(g, {"late"}, "unproven")
    <3>1. OthersSay(g) /\ ToldTo(g) = "nothing" /\ ToldTo(g)' = "nothing"
      BY <2>1, RunSays DEF Says
    <3> QED BY <1>0, <1>12, <3>1, AbortMaps DEF AbortRun
  <2>2. ASSUME NEW to \in {"aborted", "missing"}, w[g] \in {"refused", "missing"},
               Moves(g, {"sent"}, to)
        PROVE  MapsTo
    <3>1. pc[g] = "sent" /\ OthersSay(g) /\ ToldTo(g) = "nothing" /\ ToldTo(g)' = "no"
      BY <2>2, RunSays DEF Says
    <3>2. \A o \in Slots(g) : ops[o].state \in {"pending", "aborted"}
      BY <2>2 DEF PlanOK, DecisionBacked, Slots, TypeOK, Row, RowState
    <3> QED BY <1>0, <1>12, <3>1, <3>2, AbortMaps DEF AbortRun
  <2> QED BY <1>12, <2>1, <2>2 DEF AbortRun
<1>13. CASE WAnswered(g)
  <2>1. OthersSay(g) /\ ToldTo(g) = "nothing" /\ ToldTo(g)' = "nothing"
    BY <1>13, RunSays DEF WAnswered, Says
  <2> QED BY <1>1, <1>13, <2>1 DEF WAnswered
<1>14. CASE RunT2(g)
  <2>1. OthersSay(g) /\ ToldTo(g) = "nothing" /\ ToldTo(g)' = "nothing"
    BY <1>14, RunSays DEF RunT2, Says
  <2>2. CASE UNCHANGED pgVars
    BY <1>1, <2>1, <2>2
  <2>3. CASE T2Ready(g) /\ Commit(g)
    BY <1>0, <2>1, <2>3, CommitMaps DEF MapsTo, OthersSay
  <2> QED BY <1>14, <2>2, <2>3 DEF RunT2
<1>15. CASE Answer(g)
  <2>1. pc[g] = "done" /\ OthersSay(g) /\ ToldTo(g) = "nothing" /\ ToldTo(g)' = "yes"
    BY <1>15, RunSays DEF Answer, Says
  <2>2. \A o \in Slots(g) : ops[o].state = "committed"
    BY <2>1 DEF StageOK, Slots
  <2> QED BY <1>1, <1>15, <2>1, <2>2 DEF Answer
<1>16. CASE Abandon(g)
  <2>1. OthersSay(g) /\ ToldTo(g) = "nothing" /\ ToldTo(g)' = "nothing"
    BY <1>16, RunSays DEF Abandon, Says, Running
  <2> QED BY <1>1, <1>16, <2>1 DEF Abandon
<1> QED
  BY <1>3, <1>4, <1>5, <1>6, <1>7, <1>8, <1>9, <1>10, <1>11, <1>12, <1>13, <1>14, <1>15, <1>16
  DEF RunStep

LEMMA SweepMaps ==
  ASSUME JournalInv, JournalInv', NEW v \in Worker, SweepStep(v)
  PROVE  MapsTo
<1> USE DEF JournalInv, pgVars
<1>0. MapIsRead /\ MapIsRead'
  BY MapReads, PTL
<1>1. ASSUME pc' = pc PROVE \A h \in Group : ToldTo(h)' = ToldTo(h)
  BY <1>1 DEF ToldTo
<1>2. ASSUME NEW S \in SUBSET Op, StartSweep(v, S) PROVE MapsTo
  BY <1>0, <1>1, <1>2, ClaimStates, SilentSteps DEF StartSweep, MapsTo
<1>3. ASSUME NEW r \in todo[v], FenceRow(v, r) PROVE MapsTo
  BY <1>0, <1>1, <1>3, SilentSteps DEF FenceRow, MapsTo, StatesStay
<1>4. ASSUME NEW r \in todo[v], FenceLost(v, r) PROVE MapsTo
  <2>1. r.op \in Op
    BY DEF TypeOK, Claimed
  <2> QED BY <1>0, <1>1, <1>4, <2>1, ReleaseStates, SilentSteps DEF FenceLost, MapsTo
<1>5. ASSUME NEW d \in deciding[v], DecideRow(v, d) PROVE MapsTo
  <2> DEFINE o == d.row.op
             g == GroupOf[o]
  <2>0. o \in Op /\ g \in Group
    BY JournalAssumption DEF TypeOK, Claimed, Decision
  <2>1. \A h \in Group : ToldTo(h)' = ToldTo(h)
    BY <1>1, <1>5 DEF DecideRow
  <2> HIDE DEF g, o
  <2>2. ASSUME NEW s \in {"aborted", "failed"}, Decide(v, o, s), g = GroupOf[o] PROVE MapsTo
    <3>1. recorded' = recorded
      BY <2>2 DEF Decide
    <3>2. CASE ops' = ops
      BY <1>0, <2>1, <3>1, <3>2, SilentSteps DEF MapsTo, StatesStay
    <3>3. CASE ops' = Closed(Pending(g), s) /\ s = "aborted"
      <4>1. ToldTo(g) = "nothing" \/ Pending(g) = {}
        BY <2>0 DEF ToldTo, StageOK, Pending, Slots, Unreserved
      <4>2. CASE Pending(g) = {}
        <5>1. StatesStay
          BY <3>3, <4>2, ClosedFields DEF StatesStay, RowState
        <5> QED BY <1>0, <2>1, <3>1, <5>1, SilentSteps DEF MapsTo
      <4>3. CASE ToldTo(g) = "nothing"
        BY <1>0, <2>0, <2>1, <3>1, <3>3, <4>3, AbortMaps DEF AbortGroup, OthersSay
      <4> QED BY <4>1, <4>2, <4>3
    <3>4. CASE ops' = Closed(Pending(g), s) /\ s = "failed"
      <4>1. \A p \in Op : ops'[p].state = ops[p].state \/ (Open(p) /\ Open(p)')
        <5> SUFFICES ASSUME NEW p \in Op
                     PROVE  ops'[p].state = ops[p].state \/ (Open(p) /\ Open(p)')
          OBVIOUS
        <5>1. ops'[p].state = IF p \in Pending(g) THEN "failed" ELSE ops[p].state
          BY <3>4, ClosedFields DEF RowState, Pending, Slots
        <5> QED BY <5>1 DEF Pending, Open
      <4> QED BY <1>0, <2>1, <3>1, <4>1, StutterMaps DEF MapsTo
    <3> QED BY <2>2, <3>2, <3>3, <3>4 DEF Decide
  <2>3. CASE SweepT2(v, g)
    <3>1. CASE T2Ready(g) /\ Commit(g)
      BY <1>0, <2>0, <2>1, <3>1, CommitMaps DEF MapsTo
    <3>2. CASE UNCHANGED pgVars
      BY <1>0, <2>1, <3>2, SilentSteps DEF MapsTo, StatesStay
    <3> QED BY <2>3, <3>1, <3>2 DEF SweepT2
  <2>4. CASE Release(v, o) /\ recorded' = recorded
    BY <1>0, <2>0, <2>1, <2>4, ReleaseStates, SilentSteps DEF MapsTo
  <2> QED BY <1>5, <2>2, <2>3, <2>4 DEF DecideRow, g, o
<1>6. CASE SweepCrash(v)
  BY <1>0, <1>1, <1>6, SilentSteps DEF SweepCrash, MapsTo, StatesStay
<1> QED BY <1>2, <1>3, <1>4, <1>5, <1>6 DEF SweepStep

LEMMA EnvMaps ==
  ASSUME JournalInv, JournalInv',
         \/ \E g \in Group : LandW(g) \/ Requeue(g)
         \/ \E m \in late : LandLateMerge(m)
         \/ \E o \in Op : LeaseLapses(o)
  PROVE  MapsTo
<1> USE DEF JournalInv, pgVars
<1>0. MapIsRead /\ MapIsRead'
  BY MapReads, PTL
<1>1. pc' = pc /\ recorded' = recorded
  BY DEF LandW, Requeue, LandLateMerge, LeaseLapses
<1>2. \A h \in Group : ToldTo(h)' = ToldTo(h)
  BY <1>1 DEF ToldTo
<1>3. \A o \in Op : ops'[o].state = ops[o].state \/ (Open(o) /\ Open(o)')
  <2>1. CASE ops' = ops
    BY <2>1
  <2>2. ASSUME NEW g \in Group, Requeue(g)
        PROVE  \A o \in Op : ops'[o].state = ops[o].state \/ (Open(o) /\ Open(o)')
    <3> SUFFICES ASSUME NEW o \in Op, ops'[o] # ops[o] PROVE Open(o) /\ Open(o)'
      OBVIOUS
    <3>1. ops[o] \in Row /\ ops[o].state = "failed"
      BY <2>2 DEF Requeue, TypeOK
    <3>2. ops'[o].state = "pending"
      BY <2>2, <3>1 DEF Requeue, Row
    <3> QED BY <3>1, <3>2 DEF Open
  <2>3. ASSUME NEW p \in Op, LeaseLapses(p)
        PROVE  \A o \in Op : ops'[o].state = ops[o].state
    BY <2>3 DEF LeaseLapses, TypeOK, Row
  <2> QED BY <2>1, <2>2, <2>3 DEF LandW, LandLateMerge
<1> QED BY <1>0, <1>1, <1>2, <1>3, StutterMaps DEF MapsTo

LEMMA InitMaps == Init => Atomic!Init
<1> SUFFICES ASSUME Init PROVE Atomic!Init
  OBVIOUS
<1>1. MapIsRead
  BY InitInv, MapReads
<1>2. ASSUME NEW g \in Group PROVE StatusOf(g) = "new" /\ ToldTo(g) = "nothing"
  <2>1. PICK o \in Op : GroupOf[o] = g
    BY JournalAssumption
  <2>2. o \in Slots(g) /\ ops[o].state = "none"
    BY <2>1 DEF Slots, Init, NoRow
  <2> QED BY <1>1, <2>2 DEF MapIsRead, StatusIs, ToldTo, Init
<1>3. \A c \in CI : graph[c] = None /\ recorded[c] = None
  BY DEF Init
<1> QED BY <1>2, <1>3 DEF Atomic!Init

\* Seen by admitted readers and by callers the journal, with its leases, fences, sweeps
\* and crashes, is an atomic write of several CIs, for any number of writes, rows, CIs
\* and sweepers.
THEOREM JournalIsAtomic == Spec => ImplementsAtomicWrite
<1>1. Init => Atomic!Init
  BY InitMaps
<1>2. JournalInv /\ JournalInv' /\ [Next]_vars => [Atomic!Next]_(Atomic!vars)
  <2> SUFFICES ASSUME JournalInv, JournalInv', [Next]_vars PROVE [Atomic!Next]_(Atomic!vars)
    OBVIOUS
  <2>1. CASE Next
    <3>1. MapsTo
      BY <2>1, RunMaps, SweepMaps, EnvMaps DEF Next
    <3> QED BY <3>1 DEF MapsTo, Atomic!Next
  <2>2. CASE UNCHANGED vars
    BY <2>2 DEF vars, pgVars, neoVars, Atomic!vars, StatusOf, ToldTo, Gap, Open
  <2> QED BY <2>1, <2>2
<1> QED BY <1>1, <1>2, JournalIsConsistent, PTL DEF Spec, ImplementsAtomicWrite, Atomic!Spec
=============================================================================
