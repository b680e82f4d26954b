--------------------------- MODULE AdmissionProofs ---------------------------
(***************************************************************************)
(* Reads and referenced writes are consistent beside any number of writes, *)
(* sweeps and other requests.  First what one journal step can do to a row *)
(* and a CI, then each request's part of the invariant.                    *)
(***************************************************************************)
EXTENDS AdmissionInvariant, AdmissionRefinement, JournalProofs, FiniteSetTheorems

\* A row that is not open stays as it is.
ShutStays(o) == ~Open(o) => ops'[o].state = ops[o].state

\* An open row ends by an abort or by evidence that names its group.
OpenMoves(o) ==
  Open(o) /\ ops[o].effect => \/ ops'[o].state \in {"pending", "failed", "aborted"}
                              \/ recorded'[CiOf[o]] = GroupOf[o]

RowMoves(o) == ShutStays(o) /\ OpenMoves(o)

\* A CI outside the gap keeps its value and its evidence.
CIStays(c) == ~Gap(c) => graph'[c] = graph[c] /\ recorded'[c] = recorded[c]

LEMMA KeptRowMoves ==
  ASSUME NEW o \in Op, ops'[o].state = ops[o].state
  PROVE  RowMoves(o)
BY DEF RowMoves, ShutStays, OpenMoves, Open

LEMMA ClosedMoves ==
  ASSUME JournalInv, NEW g \in Group, NEW s \in {"aborted", "failed"},
         ops' = Closed(Pending(g), s), NEW o \in Op
  PROVE  RowMoves(o)
BY ClosedGroup DEF JournalInv, RowMoves, ShutStays, OpenMoves, Open, RowState

LEMMA CommitMoves ==
  ASSUME JournalInv, NEW g \in Group, T2Ready(g), Commit(g)
  PROVE  /\ \A o \in Op : RowMoves(o)
         /\ \A c \in CI : ~Gap(c) => recorded'[c] = recorded[c]
         /\ epoch' = epoch
<1>1. ASSUME NEW o \in Op PROVE RowMoves(o)
  <2>1. CASE GroupOf[o] = g
    <3>1. o \in Slots(g) /\ CiOf[o] \in CI BY <2>1, JournalAssumption DEF Slots
    <3>2. ops[o].effect => recorded'[CiOf[o]] = g BY <3>1 DEF Commit
    <3>3. Open(o) BY <3>1 DEF T2Ready, Open
    <3> QED BY <2>1, <3>2, <3>3 DEF RowMoves, ShutStays, OpenMoves
  <2>2. CASE GroupOf[o] # g
    <3>1. ops'[o] = ops[o] BY <2>2 DEF Commit, Closed, Slots
    <3> QED BY <3>1, KeptRowMoves
  <2> QED BY <2>1, <2>2
<1>2. ASSUME NEW c \in CI, ~Gap(c) PROVE recorded'[c] = recorded[c]
  <2>1. \A o \in Slots(g) : CiOf[o] # c BY <1>2 DEF T2Ready, Gap, Open, Slots
  <2> QED BY <2>1 DEF Commit
<1> QED BY <1>1, <1>2 DEF Commit

LEMMA RunMoves ==
  ASSUME JournalInv, NEW g \in Group, RunStep(g), ~Admit(g)
  PROVE  /\ \A o \in Op : RowMoves(o)
         /\ \A c \in CI : CIStays(c)
         /\ epoch' = epoch
         /\ w[g] = "applied" => w'[g] = "applied"
         /\ \A h \in Group \ {g} : w'[h] = w[h]
<1> USE DEF neoVars
<1>g. graph' = graph
  BY DEF RunStep, Refuse, Clash, Inspect, Recovered, RecoverHolder, PlanFails, T1b, SendW,
     AbortRun, WAnswered, RunT2, Answer, Abandon
<1>1. CASE \E p \in Op : RecoverHolder(g, p)
  <2>1. ASSUME NEW o \in Op PROVE RowMoves(o)
    <3>1. ops[o] \in Row BY DEF JournalInv, TypeOK
    <3>2. ops'[o] \in {ops[o], [ops[o] EXCEPT !.claim = g, !.lapsed = FALSE]}
      BY <1>1 DEF RecoverHolder, Claim
    <3>3. ops'[o].state = ops[o].state BY <3>1, <3>2 DEF Row
    <3> QED BY <3>3, KeptRowMoves
  <2> QED BY <1>1, <1>g, <2>1 DEF RecoverHolder, CIStays
<1>2. CASE PlanFails(g) \/ AbortRun(g)
  BY <1>2, <1>g, ClosedMoves DEF PlanFails, AbortRun, AbortGroup, CIStays
<1>3. CASE \E p \in Plans : T1b(g, p)
  <2>1. PICK p \in Plans : T1b(g, p) BY <1>3
  <2>2. ASSUME NEW o \in Op PROVE RowMoves(o)
    <3> DEFINE effect == p \in GraphPlans
    <3>1. ops[o] \in Row BY DEF JournalInv, TypeOK
    <3>2. ops'[o] \in {ops[o], [ops[o] EXCEPT !.plan = p, !.effect = effect, !.lapsed = FALSE,
                                   !.operation = IF p = "hold" THEN "hold" ELSE @]}
      BY <2>1 DEF T1b
    <3> HIDE DEF effect
    <3>3. ops'[o].state = ops[o].state BY <3>1, <3>2 DEF Row
    <3> QED BY <3>3, KeptRowMoves
  <2> QED BY <1>g, <2>1, <2>2 DEF T1b, CIStays
<1>4. CASE RunT2(g)
  <2>1. CASE T2Ready(g) /\ Commit(g)
    BY <1>g, <1>4, <2>1, CommitMoves DEF RunT2, CIStays
  <2>2. CASE UNCHANGED pgVars
    BY <1>g, <1>4, <2>2, KeptRowMoves DEF RunT2, CIStays, pgVars
  <2> QED BY <1>4, <2>1, <2>2 DEF RunT2
<1>5. CASE SendW(g)
  <2>1. w[g] # "applied"
    <3>1. PICK o \in Op : GroupOf[o] = g BY JournalAssumption
    <3> QED BY <1>5, <3>1 DEF SendW, Moves, JournalInv, StageOK
  <2> QED BY <1>5, <1>g, <2>1, KeptRowMoves DEF SendW, CIStays, pgVars, JournalInv, TypeOK
<1>6. CASE Refuse(g) \/ Clash(g) \/ Inspect(g) \/ Recovered(g) \/ WAnswered(g) \/ Answer(g)
           \/ Abandon(g)
  <2>1. UNCHANGED <<pgVars, neoVars>>
    BY <1>6 DEF Refuse, Clash, Inspect, Recovered, WAnswered, Answer, Abandon
  <2> QED BY <2>1, KeptRowMoves DEF CIStays, pgVars
<1> QED BY <1>1, <1>2, <1>3, <1>4, <1>5, <1>6 DEF RunStep

LEMMA SweepMoves ==
  ASSUME JournalInv, NEW v \in Worker, SweepStep(v)
  PROVE  /\ \A o \in Op : RowMoves(o)
         /\ \A c \in CI : CIStays(c)
         /\ epoch' = epoch /\ w' = w
<1> USE DEF neoVars
<1>1. CASE \E S \in SUBSET Op : StartSweep(v, S)
  <2>1. ASSUME NEW o \in Op PROVE RowMoves(o)
    <3>1. ops[o] \in Row BY DEF JournalInv, TypeOK
    <3>2. ops'[o] \in {ops[o], [ops[o] EXCEPT !.claim = v, !.lapsed = FALSE]}
      BY <1>1 DEF StartSweep, Claim
    <3>3. ops'[o].state = ops[o].state BY <3>1, <3>2 DEF Row
    <3> QED BY <3>3, KeptRowMoves
  <2> QED BY <1>1, <2>1 DEF StartSweep, CIStays
<1>2. CASE \E r \in todo[v] : FenceRow(v, r)
  BY <1>2, KeptRowMoves DEF FenceRow, CIStays, pgVars
<1>3. CASE \E r \in todo[v] : FenceLost(v, r)
  <2>1. PICK r \in todo[v] : FenceLost(v, r) BY <1>3
  <2>2. r.op \in Op BY DEF JournalInv, TypeOK, Claimed
  <2>3. \A o \in Op : RowMoves(o)
    BY <2>1, <2>2, ReleaseFields, KeptRowMoves DEF FenceLost, JournalInv
  <2> QED BY <2>1, <2>3 DEF FenceLost, CIStays
<1>4. CASE \E d \in deciding[v] : DecideRow(v, d)
  <2>1. PICK d \in deciding[v] : DecideRow(v, d) BY <1>4
  <2> DEFINE p == d.row.op
             g == GroupOf[p]
  <2>2. p \in Op /\ g \in Group BY JournalAssumption DEF JournalInv, TypeOK, Decision, Claimed
  <2>3. UNCHANGED <<graph, w>> BY <2>1 DEF DecideRow
  <2>4. ASSUME NEW s \in {"aborted", "failed"}, Decide(v, p, s)
        PROVE  (\A o \in Op : RowMoves(o)) /\ UNCHANGED <<epoch, recorded>>
    <3>1. CASE UNCHANGED ops BY <2>4, <3>1, KeptRowMoves DEF Decide
    <3>2. CASE ops' = Closed(Pending(g), s) BY <2>2, <2>4, <3>2, ClosedMoves DEF Decide
    <3> QED BY <2>4, <3>1, <3>2 DEF Decide
  <2>5. CASE SweepT2(v, g)
    <3>1. CASE T2Ready(g) /\ Commit(g) BY <2>2, <2>3, <3>1, CommitMoves DEF CIStays
    <3>2. CASE UNCHANGED pgVars BY <2>3, <3>2, KeptRowMoves DEF CIStays, pgVars
    <3> QED BY <2>5, <3>1, <3>2 DEF SweepT2
  <2>6. CASE Release(v, p) /\ UNCHANGED <<epoch, recorded>>
    BY <2>2, <2>3, <2>6, ReleaseFields, KeptRowMoves DEF JournalInv, CIStays
  <2> QED BY <2>1, <2>3, <2>4, <2>5, <2>6 DEF DecideRow, CIStays
<1>5. CASE SweepCrash(v) BY <1>5, KeptRowMoves DEF SweepCrash, CIStays, pgVars
<1> QED BY <1>1, <1>2, <1>3, <1>4, <1>5 DEF SweepStep

LEMMA EnvMoves ==
  ASSUME JournalInv,
         \/ \E g \in Group : LandW(g) \/ Requeue(g)
         \/ \E m \in late : LandLateMerge(m)
         \/ \E o \in Op : LeaseLapses(o)
  PROVE  /\ \A o \in Op : RowMoves(o)
         /\ \A c \in CI : CIStays(c)
         /\ epoch' = epoch /\ \A g \in Group : w[g] = "applied" => w'[g] = "applied"
<1> USE DEF neoVars
<1>1. ASSUME NEW g \in Group, LandW(g) PROVE (\A c \in CI : CIStays(c)) /\ UNCHANGED pgVars
  <2>1. CASE graph' = graph BY <1>1, <2>1 DEF LandW, CIStays, pgVars
  <2>2. CASE ~Fenced(g)
    \* W lands on a row that is still open: an abort would have left a fence.
    <3>1. \A o \in Slots(g) : Open(o)
      BY <1>1, <2>2, JournalAssumption
      DEF LandW, Fenced, Slots, Open, JournalInv, TypeOK, Row, RowState, PlanOK, DecisionBacked
    <3>2. \A c \in CI : ~Gap(c) => ~\E o \in Slots(g) : CiOf[o] = c
      BY <3>1 DEF Gap, Slots
    <3> QED BY <1>1, <3>2 DEF LandW, CIStays, pgVars
  <2> QED BY <1>1, <2>1, <2>2 DEF LandW
<1>2. ASSUME NEW g \in Group, LandW(g), NEW h \in Group, w[h] = "applied"
      PROVE  w'[h] = "applied"
  BY <1>2 DEF LandW, JournalInv, TypeOK
<1>3. ASSUME NEW g \in Group, LandW(g) PROVE \A o \in Op : RowMoves(o)
  BY <1>1, <1>3, KeptRowMoves DEF pgVars
<1>4. ASSUME NEW g \in Group, Requeue(g) PROVE \A o \in Op : RowMoves(o)
  <2> TAKE o \in Op
  <2>1. ops[o] \in Row BY DEF JournalInv, TypeOK
  <2>2. \/ ops'[o] = ops[o]
        \/ ops[o].state = "failed" /\ ops'[o] = [ops[o] EXCEPT !.state = "pending",
                                                  !.claim = None, !.lapsed = TRUE]
    BY <1>4 DEF Requeue
  <2>3. \/ ops'[o].state = ops[o].state
        \/ ops[o].state = "failed" /\ ops'[o].state = "pending"
    BY <2>1, <2>2 DEF Row
  <2> QED BY <2>3 DEF RowMoves, ShutStays, OpenMoves, Open
<1>5. ASSUME NEW o \in Op, LeaseLapses(o) PROVE \A p \in Op : RowMoves(p)
  <2> TAKE p \in Op
  <2>1. ops[p] \in Row BY DEF JournalInv, TypeOK
  <2>2. ops'[p] \in {ops[p], [ops[p] EXCEPT !.lapsed = TRUE]}
    BY <1>5 DEF LeaseLapses, JournalInv, TypeOK
  <2>3. ops'[p].state = ops[p].state BY <2>1, <2>2 DEF Row
  <2> QED BY <2>3, KeptRowMoves
<1>6. CASE \E g \in Group : LandW(g) BY <1>1, <1>2, <1>3, <1>6 DEF pgVars
<1>7. CASE \E g \in Group : Requeue(g) BY <1>4, <1>7 DEF Requeue, CIStays
<1>8. CASE \E m \in late : LandLateMerge(m)
  BY <1>8, KeptRowMoves DEF LandLateMerge, CIStays, pgVars
<1>9. CASE \E o \in Op : LeaseLapses(o) BY <1>5, <1>9 DEF LeaseLapses, CIStays
<1> QED BY <1>6, <1>7, <1>8, <1>9

\* A journal step besides T1 only closes gaps; a T1 raises the epoch, leaves every
\* value and all evidence alone, and waits for the requests that share the lock.
LEMMA JournalMoves ==
  ASSUME JournalInv, Next
  PROVE  /\ \A c \in CI : CIStays(c)
         /\ \A g \in Group : w[g] = "applied" => w'[g] = "applied"
         /\ \A o \in Op : OpenMoves(o)
         /\ \/ epoch' = epoch /\ \A o \in Op : ShutStays(o)
            \/ epoch' = epoch + 1 /\ T1Locked
<1>1. ASSUME NEW g \in Group, Admit(g)
      PROVE  /\ epoch' = epoch + 1 /\ T1Locked
             /\ UNCHANGED <<graph, recorded, w>>
             /\ \A o \in Op : OpenMoves(o)
  <2>1. pc[g] \in {"reserve", "retry"} /\ pc'[g] = "planning"
    BY <1>1 DEF Admit, Moves, JournalInv, TypeOK
  <2>2. \A o \in Op : Open(o) => ops'[o] \in {ops[o], [NoRow EXCEPT !.state = "pending"]}
    BY <1>1 DEF Admit
  <2>3. \A o \in Op : Open(o) => ops'[o].state \in {"pending", "failed"}
    BY <2>2 DEF NoRow, Open
  <2> QED BY <1>1, <2>1, <2>3 DEF Admit, neoVars, T1Locked, OpenMoves
<1>2. CASE \E g \in Group : Admit(g)
  <2>1. PICK g \in Group : Admit(g) BY <1>2
  <2> QED BY <1>1, <2>1 DEF CIStays
<1>3. ASSUME NEW g \in Group, RunStep(g), ~Admit(g)
      PROVE  /\ \A o \in Op : RowMoves(o)
             /\ \A c \in CI : CIStays(c)
             /\ epoch' = epoch /\ \A h \in Group : w[h] = "applied" => w'[h] = "applied"
  BY <1>3, RunMoves
<1> QED BY <1>2, <1>3, SweepMoves, EnvMoves DEF Next, RowMoves

LEMMA StepKeepsJournalInv == JournalInv /\ [Next]_vars => JournalInv'
BY RunKeepsInv, SweepKeepsInv, EnvKeepsInv, StutterInv DEF Next

-----------------------------------------------------------------------------
(* Journal steps beside the requests.                                      *)

\* A gap that T1 did not open in this step was open before.
LEMMA GapWasOpen ==
  ASSUME NEW c \in CI, \A o \in Op : ShutStays(o), ~Gap(c)
  PROVE  ~Gap(c)'
BY DEF Gap, Open, ShutStays

\* While no reservation commits, a cut stays the cut.
LEMMA CutStays ==
  ASSUME JournalInv, NEW l \in List, CutStands(l), \A c \in CI : CIStays(c),
         \A o \in Op : ShutStays(o),
         UNCHANGED <<before, unread, page, cut>>
  PROVE  CutStands(l)'
BY GapWasOpen DEF CutStands, CIStays

LEMMA JournalKeepsLists ==
  ASSUME AdmissionInv, JournalStep
  PROVE  (\A l \in List : ListRead(l)') /\ NamedStayOutOfGap'
<1> USE DEF AdmissionInv
<1>1. /\ \A c \in CI : CIStays(c)
      /\ \/ epoch' = epoch /\ \A o \in Op : ShutStays(o)
         \/ epoch' = epoch + 1 /\ T1Locked
  BY JournalMoves DEF JournalStep
<1>2. UNCHANGED <<at, locked, before, unread, page, cut>> BY DEF JournalStep
<1>3. locked # {} => epoch' = epoch /\ \A o \in Op : ShutStays(o)
  BY <1>1 DEF JournalStep, LockFree
<1>4. epoch \in Nat /\ \A l \in List : before[l].epoch \in Nat
  BY DEF JournalInv, TypeOK, AdmissionTypeOK, Request
<1>5. ASSUME NEW l \in List, at[l] = "read"
      PROVE  before[l].epoch <= epoch' /\ (before[l].epoch = epoch' => CutStands(l)')
  <2>1. before[l].epoch <= epoch /\ (before[l].epoch = epoch => CutStands(l))
    BY <1>5 DEF ListRead
  <2>2. CASE epoch' = epoch + 1 BY <1>4, <2>1, <2>2
  <2>3. CASE epoch' = epoch /\ \A o \in Op : ShutStays(o)
    BY <1>1, <1>2, <2>1, <2>3, CutStays
  <2> QED BY <1>1, <2>2, <2>3
<1>6. ASSUME NEW l \in List, at[l] = "reread", l \in locked PROVE CutStands(l)'
  BY <1>1, <1>2, <1>3, <1>6, CutStays DEF ListRead
<1>7. \A l \in List : ListRead(l)' BY <1>2, <1>5, <1>6 DEF ListRead
<1>8. NamedStayOutOfGap'
  <2>1. \A r \in Writer : Names[r] \subseteq CI BY AdmissionAssumption DEF Request
  <2> QED BY <1>2, <1>3, <2>1, GapWasOpen DEF NamedStayOutOfGap, NoneInGap
<1> QED BY <1>7, <1>8

\* The value of a single read stays accounted for: its row cannot be aborted once
\* its W has landed, so it stays open or becomes evidence of the read's time.
LEMMA JournalKeepsSingles ==
  ASSUME AdmissionInv, JournalStep
  PROVE  \A s \in Single : SingleRead(s)'
<1> USE DEF AdmissionInv
<1>1. /\ \A g \in Group : w[g] = "applied" => w'[g] = "applied"
      /\ \A o \in Op : OpenMoves(o)
      /\ JournalInv'
  BY JournalMoves, StepKeepsJournalInv DEF JournalStep
<1>2. UNCHANGED <<at, unread, page>> BY DEF JournalStep
<1>3. ASSUME NEW s \in Single, at[s] # "start"
      PROVE  evidenced'[s] = evidenced[s] \cup {recorded'[c] : c \in Names[s]}
  BY <1>3 DEF JournalStep
<1>4. ASSUME NEW s \in Single, NEW c \in Names[s], at[s] # "start", Accounted(s, c)
      PROVE  Accounted(s, c)'
  <2>1. CASE page[s][c] \in evidenced[s] BY <1>2, <1>3, <1>4, <2>1 DEF Accounted
  <2>2. ASSUME NEW o \in Op, CiOf[o] = c, Open(o), w[GroupOf[o]] = "applied",
               GroupOf[o] = page[s][c]
        PROVE  Accounted(s, c)'
    <3>1. w'[GroupOf[o]] = "applied" BY <1>1, <2>2, JournalAssumption
    <3>2. ops[o].effect BY <2>2 DEF JournalInv, PlanOK
    <3>3. ops'[o].state # "aborted" BY <1>1, <3>1 DEF JournalInv, DecisionBacked
    <3>4. ops'[o].state \in {"pending", "failed"} \/ recorded'[c] = GroupOf[o]
      BY <1>1, <2>2, <3>2, <3>3 DEF OpenMoves
    <3> QED BY <1>2, <1>3, <1>4, <2>2, <3>1, <3>4 DEF Accounted, Open
  <2> QED BY <1>4, <2>1, <2>2 DEF Accounted
<1>5. ASSUME NEW s \in Single, NEW c \in Names[s]
      PROVE  /\ at'[s] # "start" => recorded'[c] \in evidenced'[s]
             /\ at'[s] \in {"read", "recheck"} => c \in unread'[s] \/ Accounted(s, c)'
             /\ at'[s] = "answered" => page'[s][c] \in evidenced'[s]
  BY <1>2, <1>3, <1>4 DEF SingleRead
<1> QED BY <1>5 DEF SingleRead

-----------------------------------------------------------------------------
(* Steps of the requests.  They leave the journal alone.                   *)

RequestStep ==
  \/ \E r \in Request : (\E c \in CI : ReadCI(r, c)) \/ ShareLock(r) \/ SessionEnds(r)
  \/ \E s \in Single : Look(s) \/ Check(s) \/ Recheck(s)
  \/ \E l \in List : First(l) \/ Second(l) \/ EnterFallback(l) \/ LockedPending(l)
                     \/ Latest(l) \/ CommitList(l) \/ RefuseList(l)
  \/ \E r \in Writer : CheckNamed(r) \/ Insert(r) \/ CommitInsert(r) \/ RefuseWrite(r)

LEMMA JournalUntouched ==
  ASSUME RequestStep PROVE UNCHANGED vars
BY DEF RequestStep, ReadCI, ShareLock, SessionEnds, Look, Check, Recheck, First, Second,
   EnterFallback, LockedPending, Latest, CommitList, RefuseList, CheckNamed, Insert,
   CommitInsert, RefuseWrite

\* One CI read of a list, on a CI its cut vouches for.
LEMMA ReadKeepsCut ==
  ASSUME AdmissionInv, NEW r \in List, NEW c \in CI, ReadCI(r, c), NEW l \in List, CutStands(l)
  PROVE  CutStands(l)'
<1> USE DEF AdmissionInv
<1>1. UNCHANGED <<ops, graph, recorded, before, cut>> BY DEF ReadCI, vars, pgVars, neoVars
<1>2. \A d \in CI : ~Gap(d) => graph[d] = recorded[d]
  BY DEF JournalInv, DivergenceExplained, Gap
<1>3. /\ l # r => page'[l] = page[l] /\ unread'[l] = unread[l]
      /\ l = r => /\ unread'[l] = unread[l] \ {c}
                  /\ \A d \in CI : page'[l][d] = IF d = c THEN graph[c] ELSE page[l][d]
  BY DEF ReadCI, AdmissionTypeOK, Values, Request
<1>4. ASSUME NEW d \in CI \ before[l].pending
      PROVE  /\ ~Gap(d)' /\ recorded'[d] = cut'[l][d]
             /\ d \in unread'[l] \/ page'[l][d] = cut'[l][d]
  BY <1>1, <1>2, <1>3 DEF CutStands, Gap, Open
<1> QED BY <1>1, <1>4 DEF CutStands

\* A step that does not touch a list's reading leaves its part of the invariant.
LEMMA ListUntouched ==
  ASSUME NEW l \in List, ListRead(l), UNCHANGED vars,
         UNCHANGED <<at[l], before[l], unread[l], page[l], cut[l]>>,
         l \in locked' => l \in locked
  PROVE  ListRead(l)'
BY DEF ListRead, CutStands, Gap, Open, vars, pgVars

LEMMA SingleUntouched ==
  ASSUME NEW s \in Single, SingleRead(s), UNCHANGED vars,
         UNCHANGED <<at[s], unread[s], page[s], evidenced[s]>>
  PROVE  SingleRead(s)'
BY DEF SingleRead, Accounted, Open, vars, pgVars, neoVars

\* A snapshot vouches for the CIs it does not name at the moment it is taken.
LEMMA SnapshotCuts ==
  ASSUME AdmissionInv, NEW l \in List, TakeBefore(l), UNCHANGED vars
  PROVE  CutStands(l)' /\ before'[l].epoch = epoch
<1> USE DEF AdmissionInv
<1>1. /\ before'[l] = [epoch |-> epoch, pending |-> PendingCIs]
      /\ cut'[l] = recorded /\ unread'[l] = CI \ PendingCIs
  BY DEF TakeBefore, AdmissionTypeOK, Request
<1>2. \A c \in CI \ PendingCIs : ~Gap(c) BY DEF PendingCIs, Gap
<1> QED BY <1>1, <1>2 DEF CutStands, Gap, Open, vars, pgVars

LEMMA RequestsKeepLists ==
  ASSUME AdmissionInv, RequestStep, NEW l \in List
  PROVE  ListRead(l)'
<1> USE DEF AdmissionInv
<1>1. UNCHANGED vars BY JournalUntouched
<1>2. /\ ListRead(l) /\ l \in Request /\ epoch \in Nat
      /\ l \notin Single /\ l \notin Writer
  BY AdmissionAssumption DEF Request, JournalInv, TypeOK
<1> DEFINE Same == /\ UNCHANGED <<at[l], before[l], unread[l], page[l], cut[l]>>
                   /\ l \in locked' => l \in locked
<1>3. Same => ListRead(l)' BY <1>1, <1>2, ListUntouched
<1>4. ASSUME NEW r \in Request, NEW c \in CI, ReadCI(r, c) PROVE ListRead(l)'
  <2>1. CutStands(l) => CutStands(l)'
    <3>1. CASE r \in List BY <1>4, <3>1, ReadKeepsCut
    <3>2. CASE r \notin List
      <4>1. UNCHANGED <<before[l], unread[l], page[l], cut[l]>>
        BY <1>4, <3>2 DEF ReadCI, AdmissionTypeOK
      <4> QED BY <1>1, <4>1 DEF CutStands, Gap, Open, vars, pgVars
    <3> QED BY <3>1, <3>2
  <2>2. at[l] \notin {"read", "reread"} => page'[l] = page[l]
    BY <1>4 DEF ReadCI, AdmissionTypeOK
  <2> QED BY <1>1, <1>2, <1>4, <2>1, <2>2 DEF ListRead, ReadCI, vars, pgVars
<1>5. ASSUME NEW r \in Request, ShareLock(r) \/ SessionEnds(r) PROVE ListRead(l)'
  <2>1. CASE r = l /\ ShareLock(r)
    <3>1. at'[l] = "pending" BY <1>2, <2>1 DEF ShareLock, Goes, AdmissionTypeOK
    <3> QED BY <3>1 DEF ListRead
  <2>2. CASE r # l /\ ShareLock(r)
    <3>1. at'[l] = at[l] /\ locked' = locked \cup {r}
      BY <1>2, <2>2 DEF ShareLock, Goes, AdmissionTypeOK
    <3> QED BY <1>3, <2>2, <3>1 DEF ShareLock
  <2>3. CASE SessionEnds(r) BY <1>3, <2>3 DEF SessionEnds
  <2> QED BY <1>5, <2>1, <2>2, <2>3
<1>6. ASSUME NEW s \in Single, Look(s) \/ Check(s) \/ Recheck(s) PROVE ListRead(l)'
  <2>1. s # l BY <1>2
  <2>2. at'[l] = at[l]
    BY <1>2, <1>6, <2>1 DEF Look, Check, Recheck, Goes, AdmissionTypeOK
  <2>3. UNCHANGED <<before[l], unread[l], page[l], cut, locked>>
    BY <1>2, <1>6, <2>1 DEF Look, Check, Recheck, AdmissionTypeOK
  <2> QED BY <1>3, <2>2, <2>3
<1>7. ASSUME NEW r \in Writer,
             CheckNamed(r) \/ Insert(r) \/ CommitInsert(r) \/ RefuseWrite(r)
      PROVE  ListRead(l)'
  <2>1. r # l BY <1>2
  <2>2. at'[l] = at[l]
    BY <1>2, <1>7, <2>1
    DEF CheckNamed, Insert, CommitInsert, RefuseWrite, Goes, AdmissionTypeOK
  <2>3. UNCHANGED <<before, unread, page, cut>> /\ locked' \subseteq locked
    BY <1>7 DEF CheckNamed, Insert, CommitInsert, RefuseWrite
  <2> QED BY <1>3, <2>2, <2>3
<1>8. ASSUME NEW k \in List, k # l,
             \/ First(k) \/ Second(k) \/ EnterFallback(k) \/ LockedPending(k)
             \/ Latest(k) \/ CommitList(k) \/ RefuseList(k)
      PROVE  ListRead(l)'
  BY <1>2, <1>3, <1>8 DEF First, Second, EnterFallback, LockedPending, Latest, CommitList,
     RefuseList, TakeBefore, Goes, AdmissionTypeOK
<1>9. CASE First(l)
  <2>1. at'[l] = "read" BY <1>2, <1>9 DEF First, Goes, AdmissionTypeOK
  <2>2. CutStands(l)' /\ before'[l].epoch = epoch BY <1>1, <1>9, SnapshotCuts DEF First
  <2> QED BY <1>1, <1>2, <2>1, <2>2 DEF ListRead, vars, pgVars
<1>10. CASE Second(l)
  <2>1. /\ at[l] = "read" /\ unread[l] = {}
        /\ at'[l] = IF Unmoved(l) THEN "answered" ELSE "fallback"
        /\ UNCHANGED <<before, page, cut>>
    BY <1>2, <1>10 DEF Second, Goes, AdmissionTypeOK
  <2>2. Unmoved(l) => CutStands(l) BY <1>2, <2>1 DEF Unmoved, ListRead
  <2> QED BY <2>1, <2>2 DEF ListRead, CutStands
<1>11. CASE LockedPending(l)
  <2>1. at'[l] = "reread" BY <1>2, <1>11 DEF LockedPending, Goes, AdmissionTypeOK
  <2>2. CutStands(l)' BY <1>1, <1>11, SnapshotCuts DEF LockedPending
  <2> QED BY <2>1, <2>2 DEF ListRead
<1>12. CASE Latest(l)
  <2>1. /\ at[l] = "reread" /\ unread[l] = {} /\ l \in locked /\ at'[l] = "commit"
        /\ UNCHANGED <<before, page, cut>>
    BY <1>2, <1>12 DEF Latest, Goes, AdmissionTypeOK
  <2> QED BY <1>2, <2>1 DEF ListRead, CutStands
<1>13. CASE CommitList(l)
  <2>1. at[l] = "commit" /\ at'[l] = "answered" /\ UNCHANGED <<before, page, cut>>
    BY <1>2, <1>13 DEF CommitList, Goes, AdmissionTypeOK
  <2> QED BY <1>2, <2>1 DEF ListRead
<1>14. CASE EnterFallback(l) \/ RefuseList(l)
  <2>1. at'[l] \in {"lock", "refused"}
    BY <1>2, <1>14 DEF EnterFallback, RefuseList, Goes, AdmissionTypeOK
  <2> QED BY <2>1 DEF ListRead
<1> QED BY <1>4, <1>5, <1>6, <1>7, <1>8, <1>9, <1>10, <1>11, <1>12, <1>13, <1>14 DEF RequestStep

\* What the graph shows is evidenced, or the landed change of an open row.
LEMMA ShownIsExplained ==
  ASSUME JournalInv, NEW c \in CI
  PROVE  \/ graph[c] = recorded[c]
         \/ \E o \in Op : /\ CiOf[o] = c /\ Open(o)
                          /\ w[GroupOf[o]] = "applied" /\ GroupOf[o] = graph[c]
BY DEF JournalInv, DivergenceExplained

LEMMA RequestsKeepSingles ==
  ASSUME AdmissionInv, RequestStep, NEW s \in Single
  PROVE  SingleRead(s)'
<1> USE DEF AdmissionInv
<1>1. UNCHANGED vars BY JournalUntouched
<1>2. /\ SingleRead(s) /\ s \in Request /\ Names[s] \subseteq CI
      /\ s \notin List /\ s \notin Writer
  BY AdmissionAssumption DEF Request
<1>3. UNCHANGED <<at[s], unread[s], page[s], evidenced[s]>> => SingleRead(s)'
  BY <1>1, <1>2, SingleUntouched
<1>4. UNCHANGED <<ops, graph, recorded, w>> BY <1>1 DEF vars, pgVars, neoVars
<1>5. ASSUME NEW c \in Names[s], page'[s][c] = graph[c], recorded[c] \in evidenced'[s]
      PROVE  Accounted(s, c)'
  BY <1>2, <1>4, <1>5, ShownIsExplained DEF Accounted, Open
<1>6. ASSUME NEW c \in Names[s], page'[s][c] = page[s][c], evidenced'[s] = evidenced[s],
             Accounted(s, c)
      PROVE  Accounted(s, c)'
  BY <1>4, <1>6 DEF Accounted, Open
<1>7. ASSUME NEW r \in Request, NEW c \in CI, ReadCI(r, c) PROVE SingleRead(s)'
  <2>1. CASE r # s
    <3>1. UNCHANGED <<at, evidenced, unread[s], page[s]>>
      BY <1>7, <2>1 DEF ReadCI, AdmissionTypeOK
    <3> QED BY <1>3, <3>1
  <2>2. CASE r = s
    <3>1. /\ at'[s] = at[s] /\ evidenced'[s] = evidenced[s] /\ at[s] \in {"read", "reread"}
          /\ unread'[s] = unread[s] \ {c}
          /\ \A d \in CI : page'[s][d] = IF d = c THEN graph[c] ELSE page[s][d]
      BY <1>2, <1>7, <2>2 DEF ReadCI, AdmissionTypeOK, Values
    <3>2. ASSUME NEW d \in Names[s], at[s] = "read"
          PROVE  recorded'[d] \in evidenced'[s] /\ (d \in unread'[s] \/ Accounted(s, d)')
      <4>1. recorded[d] \in evidenced[s] /\ (d \in unread[s] \/ Accounted(s, d))
        BY <1>2, <3>2 DEF SingleRead
      <4>2. CASE d = c BY <1>4, <1>5, <3>1, <4>1, <4>2
      <4>3. CASE d # c BY <1>2, <1>4, <1>6, <3>1, <4>1, <4>3
      <4> QED BY <4>2, <4>3
    <3>3. recorded' = recorded /\ \A d \in Names[s] : at[s] # "start" => recorded[d] \in evidenced[s]
      BY <1>2, <1>4 DEF SingleRead
    <3> QED BY <3>1, <3>2, <3>3 DEF SingleRead
  <2> QED BY <2>1, <2>2
<1>8. ASSUME NEW r \in Request, ShareLock(r) \/ SessionEnds(r) PROVE SingleRead(s)'
  <2>1. ShareLock(r) => r # s BY <1>2 DEF ShareLock
  <2>2. at'[s] = at[s] BY <1>2, <1>8, <2>1 DEF ShareLock, SessionEnds, Goes, AdmissionTypeOK
  <2> QED BY <1>3, <1>8, <2>2 DEF ShareLock, SessionEnds
<1>9. ASSUME NEW r \in Single, r # s, Look(r) \/ Check(r) \/ Recheck(r) PROVE SingleRead(s)'
  <2>1. at'[s] = at[s]
    BY <1>2, <1>9 DEF Look, Check, Recheck, Goes, AdmissionTypeOK
  <2>2. UNCHANGED <<unread[s], page[s], evidenced[s]>>
    BY <1>2, <1>9 DEF Look, Check, Recheck, AdmissionTypeOK
  <2> QED BY <1>3, <2>1, <2>2
<1>10. CASE Look(s)
  <2>1. at'[s] \in {"check", "recheck"} BY <1>2, <1>10 DEF Look, Goes, AdmissionTypeOK
  <2>2. evidenced'[s] = {recorded[c] : c \in Names[s]} BY <1>10 DEF Look, Evidence, AdmissionTypeOK
  <2>3. \A c \in Names[s] : page'[s][c] = graph[c] BY <1>2, <1>10 DEF Look, AdmissionTypeOK
  <2>4. \A c \in Names[s] : recorded'[c] \in evidenced'[s] /\ Accounted(s, c)'
    BY <1>4, <1>5, <2>2, <2>3
  <2> QED BY <2>1, <2>4 DEF SingleRead
<1>11. CASE Check(s)
  <2>1. CASE ~NoneInGap(Names[s])
    <3>1. at[s] = "check" /\ at'[s] = "gap" /\ evidenced' = evidenced
      BY <1>2, <1>11, <2>1 DEF Check, Goes, AdmissionTypeOK
    <3> QED BY <1>2, <1>4, <3>1 DEF SingleRead
  <2>2. CASE NoneInGap(Names[s])
    <3>1. at'[s] = "read" BY <1>2, <1>11, <2>2 DEF Check, Goes, AdmissionTypeOK
    <3>2. unread'[s] = Names[s] /\ evidenced'[s] = {recorded[c] : c \in Names[s]}
      BY <1>2, <1>11, <2>2 DEF Check, Evidence, AdmissionTypeOK
    <3> QED BY <1>4, <3>1, <3>2 DEF SingleRead
  <2> QED BY <2>1, <2>2
<1>12. CASE Recheck(s)
  <2>1. /\ unread[s] = {} /\ at[s] \in {"read", "recheck"}
        /\ at'[s] = IF NoneInGap(Names[s]) THEN "answered" ELSE "gap"
        /\ UNCHANGED <<page, evidenced>>
    BY <1>2, <1>12 DEF Recheck, Goes, AdmissionTypeOK
  <2>2. \A c \in Names[s] : recorded[c] \in evidenced[s] /\ Accounted(s, c)
    BY <1>2, <2>1 DEF SingleRead
  \* Outside the gap no row is open that could still owe the evidence.
  <2>3. NoneInGap(Names[s]) => \A c \in Names[s] : page[s][c] \in evidenced[s]
    BY <2>2 DEF NoneInGap, Gap, Accounted
  <2> QED BY <1>4, <2>1, <2>2, <2>3 DEF SingleRead
<1>13. ASSUME NEW l \in List,
              \/ First(l) \/ Second(l) \/ EnterFallback(l) \/ LockedPending(l)
              \/ Latest(l) \/ CommitList(l) \/ RefuseList(l)
       PROVE  SingleRead(s)'
  <2>1. l # s BY <1>2
  <2>2. at'[s] = at[s]
    BY <1>2, <1>13, <2>1 DEF First, Second, EnterFallback, LockedPending, Latest, CommitList,
       RefuseList, Goes, AdmissionTypeOK
  <2>3. UNCHANGED <<unread[s], page, evidenced>>
    BY <1>2, <1>13, <2>1 DEF First, Second, EnterFallback, LockedPending, Latest, CommitList,
       RefuseList, TakeBefore, AdmissionTypeOK
  <2> QED BY <1>3, <2>2, <2>3
<1>14. ASSUME NEW r \in Writer,
              CheckNamed(r) \/ Insert(r) \/ CommitInsert(r) \/ RefuseWrite(r)
       PROVE  SingleRead(s)'
  <2>1. r # s BY <1>2
  <2>2. at'[s] = at[s]
    BY <1>2, <1>14, <2>1
    DEF CheckNamed, Insert, CommitInsert, RefuseWrite, Goes, AdmissionTypeOK
  <2> QED BY <1>3, <1>14, <2>2 DEF CheckNamed, Insert, CommitInsert, RefuseWrite
<1> QED BY <1>7, <1>8, <1>9, <1>10, <1>11, <1>12, <1>13, <1>14 DEF RequestStep

LEMMA RequestsKeepNames ==
  ASSUME AdmissionInv, RequestStep
  PROVE  NamedStayOutOfGap'
<1> USE DEF AdmissionInv
<1>1. SUFFICES ASSUME NEW r \in Writer, r \in locked', at'[r] \in {"insert", "inserted"}
               PROVE  NoneInGap(Names[r])'
  BY DEF NamedStayOutOfGap
<1>2. UNCHANGED ops BY JournalUntouched DEF vars, pgVars
<1>3. r \in Request /\ r \notin List /\ r \notin Single BY AdmissionAssumption DEF Request
<1>4. SUFFICES ASSUME ~CheckNamed(r)
               PROVE  r \in locked /\ at[r] \in {"insert", "inserted"}
  <2>1. CASE CheckNamed(r)
    <3>1. NoneInGap(Names[r])
      BY <1>1, <1>3, <2>1 DEF CheckNamed, Goes, AdmissionTypeOK
    <3> QED BY <1>2, <3>1 DEF NoneInGap, Gap, Open
  <2>2. CASE r \in locked /\ at[r] \in {"insert", "inserted"}
    BY <1>2, <2>2 DEF NamedStayOutOfGap, NoneInGap, Gap, Open
  <2> QED BY <1>4, <2>1, <2>2
<1>5. ASSUME NEW q \in Request, (\E c \in CI : ReadCI(q, c)) \/ SessionEnds(q)
      PROVE  r \in locked /\ at[r] \in {"insert", "inserted"}
  BY <1>1, <1>5 DEF ReadCI, SessionEnds
<1>6. ASSUME NEW q \in Request, ShareLock(q)
      PROVE  r \in locked /\ at[r] \in {"insert", "inserted"}
  <2>1. q # r
    BY <1>1, <1>3, <1>6 DEF ShareLock, Goes, AdmissionTypeOK
  <2> QED BY <1>1, <1>3, <1>6, <2>1 DEF ShareLock, Goes, AdmissionTypeOK
<1>7. ASSUME NEW s \in Single, Look(s) \/ Check(s) \/ Recheck(s)
      PROVE  r \in locked /\ at[r] \in {"insert", "inserted"}
  <2>1. s # r BY <1>3
  <2>2. at'[r] = at[r] BY <1>3, <1>7, <2>1 DEF Look, Check, Recheck, Goes, AdmissionTypeOK
  <2> QED BY <1>1, <1>7, <2>2 DEF Look, Check, Recheck
<1>8. ASSUME NEW l \in List,
             \/ First(l) \/ Second(l) \/ EnterFallback(l) \/ LockedPending(l)
             \/ Latest(l) \/ CommitList(l) \/ RefuseList(l)
      PROVE  r \in locked /\ at[r] \in {"insert", "inserted"}
  <2>1. l # r BY <1>3
  <2>2. at'[r] = at[r]
    BY <1>3, <1>8, <2>1 DEF First, Second, EnterFallback, LockedPending, Latest, CommitList,
       RefuseList, Goes, AdmissionTypeOK
  <2>3. locked' \subseteq locked
    BY <1>8 DEF First, Second, EnterFallback, LockedPending, Latest, CommitList, RefuseList
  <2> QED BY <1>1, <2>2, <2>3
<1>9. ASSUME NEW q \in Writer, q # r,
             CheckNamed(q) \/ Insert(q) \/ CommitInsert(q) \/ RefuseWrite(q)
      PROVE  r \in locked /\ at[r] \in {"insert", "inserted"}
  <2>1. at'[r] = at[r]
    BY <1>3, <1>9
    DEF CheckNamed, Insert, CommitInsert, RefuseWrite, Goes, AdmissionTypeOK
  <2>2. locked' \subseteq locked
    BY <1>9 DEF CheckNamed, Insert, CommitInsert, RefuseWrite
  <2> QED BY <1>1, <2>1, <2>2
<1>10. CASE Insert(r) BY <1>3, <1>10 DEF Insert, Goes, AdmissionTypeOK
<1>11. CASE CommitInsert(r) \/ RefuseWrite(r)
  BY <1>1, <1>3, <1>11 DEF CommitInsert, RefuseWrite, Goes, AdmissionTypeOK
<1> QED BY <1>4, <1>5, <1>6, <1>7, <1>8, <1>9, <1>10, <1>11 DEF RequestStep

-----------------------------------------------------------------------------
(* The slots of the fallback, and types.                                   *)

\* One list moves: into the fallback with one slot more, out of it with one less.
LEMMA SlotsMove ==
  ASSUME AdmissionInv, NEW l \in List, NEW from, NEW to \in Phase, Goes(l, from, to),
         active' = CASE l \notin InFallback /\ to \in Fallback -> active + 1
                     [] l \in InFallback /\ to \notin Fallback -> active - 1
                     [] OTHER -> active
  PROVE  IsFiniteSet(InFallback)' /\ SlotsAreConserved' /\ active' \in Nat
<1> USE DEF AdmissionInv
<1>1. InFallback' = IF to \in Fallback THEN InFallback \cup {l} ELSE InFallback \ {l}
  BY DEF Goes, InFallback, AdmissionTypeOK, Request
<1>2. active = Cardinality(InFallback) /\ Cardinality(InFallback) \in Nat
  BY FS_CardinalityType DEF SlotsAreConserved, InFallback
<1>3. /\ IsFiniteSet(InFallback \cup {l}) /\ IsFiniteSet(InFallback \ {l})
      /\ Cardinality(InFallback \cup {l}) =
           IF l \in InFallback THEN Cardinality(InFallback) ELSE Cardinality(InFallback) + 1
      /\ Cardinality(InFallback \ {l}) =
           IF l \in InFallback THEN Cardinality(InFallback) - 1 ELSE Cardinality(InFallback)
  BY FS_AddElement, FS_RemoveElement
<1>4. IsFiniteSet(InFallback') /\ active' = Cardinality(InFallback') /\ active' \in Nat
  <2>1. CASE to \in Fallback BY <1>1, <1>2, <1>3, <2>1
  <2>2. CASE to \notin Fallback
    <3>1. IsFiniteSet(InFallback') /\ active' = Cardinality(InFallback')
      BY <1>1, <1>2, <1>3, <2>2
    <3> QED BY <3>1, FS_CardinalityType
  <2> QED BY <2>1, <2>2
<1> QED BY <1>4 DEF SlotsAreConserved, InFallback

LEMMA SlotsKept ==
  ASSUME AdmissionInv, active' = active, \A l \in List : at'[l] = at[l]
  PROVE  IsFiniteSet(InFallback)' /\ SlotsAreConserved' /\ active' \in 0 .. MaxActive
<1>1. InFallback' = InFallback BY DEF InFallback
<1> QED BY <1>1 DEF AdmissionInv, SlotsAreConserved, InFallback, AdmissionTypeOK

LEMMA RequestsKeepSlots ==
  ASSUME AdmissionInv, RequestStep
  PROVE  IsFiniteSet(InFallback)' /\ SlotsAreConserved' /\ active' \in 0 .. MaxActive
<1> USE DEF AdmissionInv
<1>1. active \in 0 .. MaxActive /\ MaxActive \in Nat BY AdmissionAssumption DEF AdmissionTypeOK
<1>2. ASSUME NEW r \in Request, (\E c \in CI : ReadCI(r, c)) \/ SessionEnds(r)
      PROVE  active' = active /\ \A l \in List : at'[l] = at[l]
  BY <1>2 DEF ReadCI, SessionEnds
<1>3. ASSUME NEW s \in Single, Look(s) \/ Check(s) \/ Recheck(s)
      PROVE  active' = active /\ \A l \in List : at'[l] = at[l]
  <2>1. \A l \in List : l # s /\ l \in Request BY AdmissionAssumption DEF Request
  <2> QED BY <1>3, <2>1 DEF Look, Check, Recheck, Goes, AdmissionTypeOK
<1>4. ASSUME NEW r \in Writer,
             ShareLock(r) \/ CheckNamed(r) \/ Insert(r) \/ CommitInsert(r) \/ RefuseWrite(r)
      PROVE  active' = active /\ \A l \in List : at'[l] = at[l]
  <2>1. \A l \in List : l # r /\ l \in Request BY AdmissionAssumption DEF Request
  <2> QED BY <1>4, <2>1
    DEF ShareLock, CheckNamed, Insert, CommitInsert, RefuseWrite, Goes, AdmissionTypeOK
<1>5. ASSUME NEW l \in List, EnterFallback(l)
      PROVE  IsFiniteSet(InFallback)' /\ SlotsAreConserved' /\ active' \in 0 .. MaxActive
  <2>1. l \notin InFallback /\ Goes(l, {"fallback"}, "lock") /\ active' = active + 1
    BY <1>5 DEF EnterFallback, Goes, InFallback, Fallback
  <2>2. IsFiniteSet(InFallback)' /\ SlotsAreConserved'
    BY <2>1, SlotsMove DEF Phase, Fallback
  <2> QED BY <1>1, <1>5, <2>1, <2>2 DEF EnterFallback
<1>6. ASSUME NEW l \in List, CommitList(l)
      PROVE  IsFiniteSet(InFallback)' /\ SlotsAreConserved' /\ active' \in 0 .. MaxActive
  <2>1. l \in InFallback /\ Goes(l, {"commit"}, "answered") /\ active' = active - 1
    BY <1>6 DEF CommitList, Goes, InFallback, Fallback
  <2>2. IsFiniteSet(InFallback)' /\ SlotsAreConserved' /\ active' \in Nat
    BY <2>1, SlotsMove DEF Phase, Fallback, Final
  <2> QED BY <1>1, <2>1, <2>2
<1>7. ASSUME NEW l \in List, RefuseList(l)
      PROVE  IsFiniteSet(InFallback)' /\ SlotsAreConserved' /\ active' \in 0 .. MaxActive
  <2>1. /\ Goes(l, {at[l]}, "refused")
        /\ active' = IF l \in InFallback THEN active - 1 ELSE active
    BY <1>7 DEF RefuseList, SlotReturned, InFallback
  <2>2. IsFiniteSet(InFallback)' /\ SlotsAreConserved' /\ active' \in Nat
    BY <2>1, SlotsMove DEF Phase, Fallback, Final
  <2> QED BY <1>1, <2>1, <2>2
<1>8. ASSUME NEW l \in List, NEW from, NEW to \in Phase, Goes(l, from, to),
             l \in InFallback <=> to \in Fallback, active' = active
      PROVE  IsFiniteSet(InFallback)' /\ SlotsAreConserved' /\ active' \in 0 .. MaxActive
  BY <1>1, <1>8, SlotsMove
<1>9. ASSUME NEW l \in List, First(l) \/ Second(l)
      PROVE  IsFiniteSet(InFallback)' /\ SlotsAreConserved' /\ active' \in 0 .. MaxActive
  <2>1. PICK from \in {{"start"}, {"read"}}, to \in {"read", "answered", "fallback"} :
          Goes(l, from, to)
    BY <1>9 DEF First, Second
  <2>2. l \notin InFallback /\ to \notin Fallback /\ to \in Phase /\ active' = active
    BY <1>9, <2>1 DEF First, Second, Goes, InFallback, Fallback, Phase, Final
  <2> QED BY <1>8, <2>1, <2>2
<1>10. ASSUME NEW l \in List, ShareLock(l) \/ LockedPending(l) \/ Latest(l)
       PROVE  IsFiniteSet(InFallback)' /\ SlotsAreConserved' /\ active' \in 0 .. MaxActive
  <2>1. l \notin Writer BY AdmissionAssumption
  <2>2. PICK from \in {{"lock"}, {"pending"}, {"reread"}}, to \in {"pending", "reread", "commit"} :
          Goes(l, from, to)
    BY <1>10, <2>1 DEF ShareLock, LockedPending, Latest
  <2>3. l \in InFallback /\ to \in Fallback /\ to \in Phase /\ active' = active
    BY <1>10, <2>2 DEF ShareLock, LockedPending, Latest, Goes, InFallback, Fallback, Phase
  <2> QED BY <1>8, <2>2, <2>3
<1>11. \A r \in Request : ShareLock(r) => r \in List \cup Writer BY DEF ShareLock
<1> QED BY <1>2, <1>3, <1>4, <1>5, <1>6, <1>7, <1>9, <1>10, <1>11, SlotsKept DEF RequestStep

LEMMA GoesType ==
  ASSUME AdmissionTypeOK, NEW r \in Request, NEW from, NEW to \in Phase, Goes(r, from, to)
  PROVE  at' \in [Request -> Phase]
BY DEF AdmissionTypeOK, Goes

LEMMA RequestType ==
  ASSUME AdmissionInv, RequestStep
  PROVE  AdmissionTypeOK'
<1> USE DEF AdmissionInv
<1>1. active' \in 0 .. MaxActive BY RequestsKeepSlots
<1>2. /\ epoch \in Nat /\ graph \in [CI -> Group \cup {None}]
      /\ recorded \in [CI -> Group \cup {None}]
      /\ PendingCIs \subseteq CI
  BY JournalAssumption DEF JournalInv, TypeOK, PendingCIs
<1>3. \A r \in Request : Names[r] \subseteq CI BY AdmissionAssumption
<1>4. ASSUME NEW r \in Request, NEW c \in CI, ReadCI(r, c) PROVE AdmissionTypeOK'
  BY <1>2, <1>4 DEF ReadCI, AdmissionTypeOK, Values
<1>5. ASSUME NEW r \in Request, ShareLock(r) \/ SessionEnds(r) PROVE AdmissionTypeOK'
  BY <1>5 DEF ShareLock, SessionEnds, Goes, AdmissionTypeOK, Phase, Fallback
<1>6. ASSUME NEW s \in Single, Look(s) \/ Check(s) \/ Recheck(s) PROVE AdmissionTypeOK'
  <2>1. Evidence(s) \subseteq Group \cup {None}
    BY <1>2, <1>3 DEF Evidence, Request
  <2>2. [c \in CI |-> IF c \in Names[s] THEN graph[c] ELSE None] \in Values
    BY <1>2 DEF Values
  <2>3. CASE Look(s)
    BY <1>1, <2>1, <2>2, <2>3 DEF Look, Goes, AdmissionTypeOK, Phase
  <2>4. CASE Check(s)
    <3>1. at' \in [Request -> Phase]
      BY <2>4, GoesType DEF Check, Phase, Final, Request
    <3>2. before' \in [Request -> [epoch : Nat, pending : SUBSET CI]] BY <2>4 DEF Check, AdmissionTypeOK
    <3>3. unread' \in [Request -> SUBSET CI] /\ evidenced' \in [Single -> SUBSET (Group \cup {None})]
      BY <1>3, <2>1, <2>4 DEF Check, AdmissionTypeOK, Request
    <3> QED BY <1>1, <2>4, <3>1, <3>2, <3>3 DEF Check, AdmissionTypeOK
  <2>5. CASE Recheck(s)
    BY <1>1, <2>5 DEF Recheck, Goes, AdmissionTypeOK, Phase, Final
  <2> QED BY <1>6, <2>3, <2>4, <2>5
<1>7. ASSUME NEW l \in List, First(l) \/ LockedPending(l) PROVE AdmissionTypeOK'
  <2>1. TakeBefore(l) => /\ before' \in [Request -> [epoch : Nat, pending : SUBSET CI]]
                         /\ cut' \in [List -> Values]
                         /\ unread' \in [Request -> SUBSET CI]
    <3> SUFFICES ASSUME TakeBefore(l)
                 PROVE  /\ before' \in [Request -> [epoch : Nat, pending : SUBSET CI]]
                        /\ cut' \in [List -> Values]
                        /\ unread' \in [Request -> SUBSET CI]
      OBVIOUS
    <3>1. [epoch |-> epoch, pending |-> PendingCIs] \in [epoch : Nat, pending : SUBSET CI]
      BY <1>2
    <3>2. before' \in [Request -> [epoch : Nat, pending : SUBSET CI]]
      BY <3>1 DEF TakeBefore, AdmissionTypeOK
    <3>3. cut' \in [List -> Values] BY <1>2 DEF TakeBefore, AdmissionTypeOK, Values
    <3>4. unread' \in [Request -> SUBSET CI] BY DEF TakeBefore, AdmissionTypeOK
    <3> QED BY <3>2, <3>3, <3>4
  <2>2. at' \in [Request -> Phase]
    BY <1>7, GoesType DEF First, LockedPending, Phase, Fallback, Request
  <2> QED BY <1>1, <1>7, <2>1, <2>2 DEF First, LockedPending, AdmissionTypeOK
<1>8. ASSUME NEW l \in List,
             Second(l) \/ EnterFallback(l) \/ Latest(l) \/ CommitList(l) \/ RefuseList(l)
      PROVE  AdmissionTypeOK'
  BY <1>1, <1>8 DEF Second, EnterFallback, Latest, CommitList, RefuseList, Goes,
     AdmissionTypeOK, Phase, Fallback, Final
<1>9. ASSUME NEW r \in Writer,
             CheckNamed(r) \/ Insert(r) \/ CommitInsert(r) \/ RefuseWrite(r)
      PROVE  AdmissionTypeOK'
  BY <1>9 DEF CheckNamed, Insert, CommitInsert, RefuseWrite, Goes, AdmissionTypeOK,
     Phase, Fallback, Final
<1> QED BY <1>4, <1>5, <1>6, <1>7, <1>8, <1>9 DEF RequestStep

LEMMA JournalKeepsRequests ==
  ASSUME AdmissionInv, JournalStep
  PROVE  AdmissionTypeOK' /\ IsFiniteSet(InFallback)' /\ SlotsAreConserved'
<1> USE DEF AdmissionInv
<1>1. \A s \in Single : Names[s] \subseteq CI BY AdmissionAssumption DEF Request
<1>2. recorded' \in [CI -> Group \cup {None}]
  BY StepKeepsJournalInv DEF JournalStep, JournalInv, TypeOK
<1>3. evidenced' \in [Single -> SUBSET (Group \cup {None})]
  BY <1>1, <1>2 DEF JournalStep, AdmissionTypeOK
<1>4. AdmissionTypeOK' BY <1>3 DEF JournalStep, AdmissionTypeOK
<1> QED BY <1>4, SlotsKept DEF JournalStep

-----------------------------------------------------------------------------
LEMMA InitAdmission == AdmissionInit => AdmissionInv
<1> SUFFICES ASSUME AdmissionInit PROVE AdmissionInv OBVIOUS
<1>1. JournalInv BY InitInv DEF AdmissionInit
<1>2. AdmissionTypeOK
  BY AdmissionAssumption DEF AdmissionInit, AdmissionTypeOK, Phase, Values
<1>3. \A r \in Request : at[r] = "start" BY DEF AdmissionInit
<1>4. (\A l \in List : ListRead(l)) /\ (\A s \in Single : SingleRead(s)) /\ NamedStayOutOfGap
  BY <1>3 DEF Request, ListRead, SingleRead, NamedStayOutOfGap
<1>5. InFallback = {} BY <1>3 DEF Request, InFallback, Fallback
<1>6. active = 0 BY DEF AdmissionInit
<1> QED
  BY <1>1, <1>2, <1>4, <1>5, <1>6, FS_EmptySet DEF AdmissionInv, SlotsAreConserved, InFallback

LEMMA StutterAdmission == AdmissionInv /\ UNCHANGED allVars => AdmissionInv'
<1> SUFFICES ASSUME AdmissionInv, UNCHANGED allVars PROVE AdmissionInv' OBVIOUS
<1> USE DEF AdmissionInv, allVars, admissionVars
<1>1. JournalInv' BY StutterInv
<1>2. UNCHANGED <<ops, epoch, recorded, w>> BY DEF vars, pgVars, neoVars
<1> QED
  BY <1>1, <1>2 DEF AdmissionTypeOK, ListRead, CutStands, SingleRead, Accounted,
     NamedStayOutOfGap, NoneInGap, Gap, Open, InFallback, SlotsAreConserved

\* Requests, locks, snapshots and slots stay consistent with the journal, for any
\* number of reads, lists, referenced writes, groups, rows, CIs and sweepers.
THEOREM AdmissionIsConsistent == AdmissionSpec => []AdmissionInv
<1>1. AdmissionInv /\ RequestStep => AdmissionInv'
  <2> SUFFICES ASSUME AdmissionInv, RequestStep PROVE AdmissionInv' OBVIOUS
  <2>1. JournalInv' BY JournalUntouched, StutterInv DEF AdmissionInv
  <2> QED BY <2>1, RequestType, RequestsKeepLists, RequestsKeepSingles, RequestsKeepNames,
             RequestsKeepSlots DEF AdmissionInv
<1>2. AdmissionInv /\ JournalStep => AdmissionInv'
  <2> SUFFICES ASSUME AdmissionInv, JournalStep PROVE AdmissionInv' OBVIOUS
  <2>1. JournalInv' BY StepKeepsJournalInv DEF AdmissionInv, JournalStep
  <2> QED BY <2>1, JournalKeepsLists, JournalKeepsSingles, JournalKeepsRequests
      DEF AdmissionInv
<1>3. AdmissionNext => JournalStep \/ RequestStep BY DEF AdmissionNext, RequestStep
<1> QED BY <1>1, <1>2, <1>3, InitAdmission, StutterAdmission, PTL DEF AdmissionSpec

\* Every request variable keeps its type; active fallbacks never exceed MaxActive.
THEOREM AdmissionTypeCorrect == AdmissionSpec => []AdmissionTypeOK
BY AdmissionIsConsistent, PTL DEF AdmissionInv

\* An answered list shows one consistent cut of graph and evidence.
THEOREM ListsAreOneCut == AdmissionSpec => []ListIsOneCut
<1>1. AdmissionInv => ListIsOneCut BY DEF AdmissionInv, ListRead, ListIsOneCut
<1> QED BY <1>1, AdmissionIsConsistent, PTL

\* An answered single read returns a value that was evidenced during the read.
THEOREM SinglesAreEvidenced == AdmissionSpec => []SingleIsEvidenced
<1>1. AdmissionInv => SingleIsEvidenced BY DEF AdmissionInv, SingleRead, SingleIsEvidenced
<1> QED BY <1>1, AdmissionIsConsistent, PTL

\* A referenced write that still holds its lock names no CI in a gap.
THEOREM NamesStayOutOfGap == AdmissionSpec => []NamedStayOutOfGap
BY AdmissionIsConsistent, PTL DEF AdmissionInv

\* Every slot of the fallback is given back exactly once.
THEOREM FallbackSlotsConserved == AdmissionSpec => []SlotsAreConserved
BY AdmissionIsConsistent, PTL DEF AdmissionInv

\* The journal keeps its invariant beside the requests.
THEOREM JournalConsistentBesideReads == AdmissionSpec => []JournalInv
BY AdmissionIsConsistent, PTL DEF AdmissionInv

-----------------------------------------------------------------------------
(* The refinement.  A step of the journal is a step of the writes, which   *)
(* the single reads see as evidence; a step of a request moves its own     *)
(* view, evidence or answer, or nothing.                                   *)

LEMMA WritesMap ==
  ASSUME JournalInv, JournalInv', Next PROVE Reads!Next \/ UNCHANGED Reads!vars
<1>1. MapsTo
  BY RunMaps, SweepMaps, EnvMaps DEF Next
<1> QED
  BY <1>1 DEF MapsTo, Reads!Next, Reads!vars, Reads!Begin, Reads!TakeEffect, Reads!Drop, Reads!Tell,
     Atomic!vars, Atomic!Begin, Atomic!TakeEffect, Atomic!Drop, Atomic!Tell

LEMMA WritesStay ==
  ASSUME UNCHANGED vars PROVE UNCHANGED Reads!vars
BY DEF vars, pgVars, neoVars, Reads!vars, StatusOf, ToldTo, Gap, Open

\* Readers see the evidence; undecided writes hold the pending CIs.
LEMMA ReadsSeen ==
  ASSUME JournalInv
  PROVE  /\ \A c \in CI : (IF Gap(c) THEN recorded[c] ELSE graph[c]) = recorded[c]
         /\ Reads!Held = PendingCIs
<1>1. MapIsRead
  BY MapReads
<1>2. ASSUME NEW c \in PendingCIs PROVE c \in Reads!Held
  <2>1. PICK o \in Op : Open(o) /\ CiOf[o] = c
    BY <1>2 DEF PendingCIs
  <2>2. GroupOf[o] \in Group /\ o \in Slots(GroupOf[o])
    BY JournalAssumption DEF Slots
  <2>3. StatusOf(GroupOf[o]) = "open"
    BY <1>1, <2>1, <2>2 DEF MapIsRead, StatusIs
  <2> QED BY <2>1, <2>2, <2>3 DEF Reads!Held
<1>3. ASSUME NEW c \in Reads!Held PROVE c \in PendingCIs
  <2>1. PICK g \in Group : StatusOf(g) = "open" /\ c \in {CiOf[o] : o \in Slots(g)}
    BY <1>3 DEF Reads!Held
  <2>2. PICK o \in Slots(g) : CiOf[o] = c
    BY <2>1
  <2>3. Open(o)
    BY <1>1, <2>1, <2>2 DEF MapIsRead, StatusIs
  <2> QED BY <2>2, <2>3 DEF PendingCIs, Slots
<1> QED BY <1>1, <1>2, <1>3 DEF MapIsRead

\* The value sets of a single read, as the mapping shows them.
LEMMA HadIsEmpty ==
  ASSUME AdmissionInv, NEW s \in Single
  PROVE  HadBy(s) = {} <=> at[s] \in {"start", "gap"}
<1>1. PICK c \in CI : Names[s] = {c}
  BY AdmissionAssumption
<1>2. at[s] # "start" => recorded[c] \in evidenced[s]
  BY <1>1 DEF AdmissionInv, SingleRead
<1> QED BY <1>2 DEF HadBy

LEMMA JournalStepMaps ==
  ASSUME AdmissionInv, JournalInv', JournalStep
  PROVE  Reads!ReadsNext
<1> USE DEF AdmissionInv
<1>1. Reads!Next \/ UNCHANGED Reads!vars
  BY WritesMap DEF JournalStep
<1>2. UNCHANGED <<at, before, page, cut>>
  BY DEF JournalStep
<1>3. /\ [l \in List |-> ViewOf(l)]' = [l \in List |-> ViewOf(l)]
      /\ [r \in Single \cup List |-> AnswersOf(r)]' = [r \in Single \cup List |-> AnswersOf(r)]
      /\ {r \in Writer : at[r] = "answered"}' = {r \in Writer : at[r] = "answered"}
  BY <1>2 DEF ViewOf, AnswersOf, Shown
<1>4. ASSUME NEW s \in Single
      PROVE  HadBy(s)' = IF HadBy(s) = {} THEN {} ELSE HadBy(s) \cup {recorded'[c] : c \in Names[s]}
  BY <1>2, HadIsEmpty DEF HadBy, JournalStep
<1>5. \A s \in Single : Names[s] \subseteq CI
  BY AdmissionAssumption DEF Request
<1>0. MapIsRead /\ MapIsRead'
  BY MapReads, PTL
<1>6. \A c \in CI : /\ (IF Gap(c) THEN recorded[c] ELSE graph[c]) = recorded[c]
                    /\ (IF Gap(c) THEN recorded[c] ELSE graph[c])' = recorded'[c]
  BY <1>0 DEF MapIsRead
<1>7. CASE Reads!Next
  <2>1. [s \in Single |-> HadBy(s)]' =
          [s \in Single |-> IF HadBy(s) = {} THEN {}
             ELSE HadBy(s) \cup {[c \in CI |-> IF Gap(c) THEN recorded[c] ELSE graph[c]]'[d]
                                    : d \in Names[s]}]
    <3>1. ASSUME NEW s \in Single
          PROVE  {[c \in CI |-> IF Gap(c) THEN recorded[c] ELSE graph[c]]'[d] : d \in Names[s]}
                   = {recorded'[d] : d \in Names[s]}
      BY <1>5, <1>6
    <3> QED BY <1>4, <3>1
  <2> QED BY <1>3, <1>5, <1>7, <2>1 DEF Reads!Write, Reads!ReadsNext
<1>8. CASE UNCHANGED Reads!vars
  <2>1. \A c \in CI : recorded'[c] = recorded[c]
    BY <1>6, <1>8 DEF Reads!vars
  <2>2. ASSUME NEW s \in Single PROVE HadBy(s)' = HadBy(s)
    <3>1. HadBy(s) # {} => \A c \in Names[s] : recorded[c] \in HadBy(s)
      BY HadIsEmpty DEF SingleRead, HadBy
    <3>2. {recorded'[c] : c \in Names[s]} = {recorded[c] : c \in Names[s]}
      BY <1>5, <2>1
    <3> QED BY <1>4, <3>1, <3>2
  <2>3. [s \in Single |-> HadBy(s)]' = [s \in Single |-> HadBy(s)]
    BY <2>2
  <2> QED BY <1>3, <1>8, <2>3 DEF Reads!Unseen, Reads!readVars, Reads!ReadsNext
<1> QED BY <1>1, <1>7, <1>8

\* The other requests look as they did.
OthersStay(r) ==
  /\ \A l \in List \ {r} : ViewOf(l)' = ViewOf(l)
  /\ \A s \in Single \ {r} : HadBy(s)' = HadBy(s)
  /\ \A q \in (Single \cup List) \ {r} : AnswersOf(q)' = AnswersOf(q)
  /\ \A q \in Writer \ {r} : at'[q] = "answered" <=> at[q] = "answered"

\* What the abstract specification sees of one request.
LooksSame(r) ==
  /\ r \in List => ViewOf(r)' = ViewOf(r)
  /\ r \in Single => HadBy(r)' = HadBy(r)
  /\ r \in Single \cup List => AnswersOf(r)' = AnswersOf(r)
  /\ r \in Writer => (at'[r] = "answered" <=> at[r] = "answered")

LEMMA OthersLookSame ==
  ASSUME AdmissionTypeOK, NEW r \in Request,
         \A q \in Request \ {r} : UNCHANGED <<at[q], before[q], page[q]>>,
         \A l \in List \ {r} : cut'[l] = cut[l],
         \A s \in Single \ {r} : evidenced'[s] = evidenced[s]
  PROVE  OthersStay(r)
BY DEF OthersStay, ViewOf, HadBy, AnswersOf, Shown, Request

LEMMA UnseenMaps ==
  ASSUME UNCHANGED vars, NEW r \in Request, OthersStay(r), LooksSame(r)
  PROVE  Reads!ReadsNext
<1>1. /\ [l \in List |-> ViewOf(l)]' = [l \in List |-> ViewOf(l)]
      /\ [s \in Single |-> HadBy(s)]' = [s \in Single |-> HadBy(s)]
      /\ [q \in Single \cup List |-> AnswersOf(q)]' = [q \in Single \cup List |-> AnswersOf(q)]
      /\ {q \in Writer : at[q] = "answered"}' = {q \in Writer : at[q] = "answered"}
  BY DEF OthersStay, LooksSame
<1> QED BY <1>1, WritesStay DEF Reads!ReadsNext, Reads!Unseen, Reads!readVars

LEMMA SnapMaps ==
  ASSUME JournalInv, UNCHANGED vars, NEW l \in List, OthersStay(l),
         AnswersOf(l) = {}, AnswersOf(l)' = {},
         ViewOf(l)' = {[c \in CI \ PendingCIs |-> recorded[c]]}
  PROVE  Reads!ReadsNext
<1>1. l \notin Single /\ l \notin Writer
  BY AdmissionAssumption
<1>2. [c \in CI \ PendingCIs |-> recorded[c]] =
        [c \in CI \ Reads!Held |-> [d \in CI |-> IF Gap(d) THEN recorded[d] ELSE graph[d]][c]]
  BY ReadsSeen
<1>3. /\ [k \in List |-> ViewOf(k)]' = [[k \in List |-> ViewOf(k)] EXCEPT ![l] = ViewOf(l)']
      /\ [s \in Single |-> HadBy(s)]' = [s \in Single |-> HadBy(s)]
      /\ [q \in Single \cup List |-> AnswersOf(q)]' = [q \in Single \cup List |-> AnswersOf(q)]
      /\ {q \in Writer : at[q] = "answered"}' = {q \in Writer : at[q] = "answered"}
  BY <1>1 DEF OthersStay
<1>4. Reads!Snap(l)
  BY <1>2, <1>3 DEF Reads!Snap
<1> QED BY <1>4, WritesStay DEF Reads!ReadsNext, Reads!Read

LEMMA AnswerListMaps ==
  ASSUME UNCHANGED vars, NEW l \in List, OthersStay(l),
         AnswersOf(l) = {}, AnswersOf(l)' = ViewOf(l), ViewOf(l) # {}, ViewOf(l)' = ViewOf(l)
  PROVE  Reads!ReadsNext
<1>1. l \notin Single /\ l \notin Writer
  BY AdmissionAssumption
<1>2. /\ [k \in List |-> ViewOf(k)]' = [k \in List |-> ViewOf(k)]
      /\ [s \in Single |-> HadBy(s)]' = [s \in Single |-> HadBy(s)]
      /\ [q \in Single \cup List |-> AnswersOf(q)]' =
           [[q \in Single \cup List |-> AnswersOf(q)] EXCEPT ![l] = ViewOf(l)]
      /\ {q \in Writer : at[q] = "answered"}' = {q \in Writer : at[q] = "answered"}
  BY <1>1 DEF OthersStay
<1>3. Reads!AnswerList(l)
  BY <1>2 DEF Reads!AnswerList
<1> QED BY <1>3, WritesStay DEF Reads!ReadsNext, Reads!Read

LEMMA RefuseListMaps ==
  ASSUME UNCHANGED vars, NEW l \in List, OthersStay(l),
         AnswersOf(l) = {}, AnswersOf(l)' = {}, ViewOf(l)' = {}
  PROVE  Reads!ReadsNext
<1>1. l \notin Single /\ l \notin Writer
  BY AdmissionAssumption
<1>2. /\ [k \in List |-> ViewOf(k)]' = [[k \in List |-> ViewOf(k)] EXCEPT ![l] = {}]
      /\ [s \in Single |-> HadBy(s)]' = [s \in Single |-> HadBy(s)]
      /\ [q \in Single \cup List |-> AnswersOf(q)]' = [q \in Single \cup List |-> AnswersOf(q)]
      /\ {q \in Writer : at[q] = "answered"}' = {q \in Writer : at[q] = "answered"}
  BY <1>1 DEF OthersStay
<1>3. Reads!RefuseList(l)
  BY <1>2 DEF Reads!RefuseList
<1> QED BY <1>3, WritesStay DEF Reads!ReadsNext, Reads!Read

\* A single read begins (again), or is refused.
LEMMA AskMaps ==
  ASSUME JournalInv, UNCHANGED vars, NEW s \in Single, OthersStay(s),
         AnswersOf(s) = {}, AnswersOf(s)' = {},
         HadBy(s)' \in {{}, {recorded[c] : c \in Names[s]}}
  PROVE  Reads!ReadsNext
<1>1. s \notin List /\ s \notin Writer /\ Names[s] \subseteq CI
  BY AdmissionAssumption DEF Request
<1>2. {[d \in CI |-> IF Gap(d) THEN recorded[d] ELSE graph[d]][c] : c \in Names[s]} =
        {recorded[c] : c \in Names[s]}
  BY <1>1, ReadsSeen
<1>3. /\ [k \in List |-> ViewOf(k)]' = [k \in List |-> ViewOf(k)]
      /\ [k \in Single |-> HadBy(k)]' = [[k \in Single |-> HadBy(k)] EXCEPT ![s] = HadBy(s)']
      /\ [q \in Single \cup List |-> AnswersOf(q)]' = [q \in Single \cup List |-> AnswersOf(q)]
      /\ {q \in Writer : at[q] = "answered"}' = {q \in Writer : at[q] = "answered"}
  BY <1>1 DEF OthersStay
<1>4. Reads!Ask(s) \/ Reads!RefuseSingle(s)
  BY <1>2, <1>3 DEF Reads!Ask, Reads!RefuseSingle
<1> QED BY <1>4, WritesStay DEF Reads!ReadsNext, Reads!Read

LEMMA AnswerSingleMaps ==
  ASSUME JournalInv, UNCHANGED vars, NEW s \in Single, OthersStay(s), NoneInGap(Names[s]),
         AnswersOf(s) = {}, AnswersOf(s)' = {[c \in Names[s] |-> page[s][c]]},
         HadBy(s)' = HadBy(s), \A c \in Names[s] : page[s][c] \in HadBy(s)
  PROVE  Reads!ReadsNext
<1>1. s \notin List /\ s \notin Writer
  BY AdmissionAssumption
<1>2. Names[s] \cap Reads!Held = {}
  BY ReadsSeen DEF PendingCIs, NoneInGap, Gap
<1>3. /\ [k \in List |-> ViewOf(k)]' = [k \in List |-> ViewOf(k)]
      /\ [k \in Single |-> HadBy(k)]' = [k \in Single |-> HadBy(k)]
      /\ [q \in Single \cup List |-> AnswersOf(q)]' =
           [[q \in Single \cup List |-> AnswersOf(q)] EXCEPT ![s] = {[c \in Names[s] |-> page[s][c]]}]
      /\ {q \in Writer : at[q] = "answered"}' = {q \in Writer : at[q] = "answered"}
  BY <1>1 DEF OthersStay
<1>4. [c \in Names[s] |-> page[s][c]] \in [Names[s] -> [k \in Single |-> HadBy(k)][s]]
  OBVIOUS
<1>5. Reads!AnswerSingle(s)
  BY <1>2, <1>3, <1>4 DEF Reads!AnswerSingle
<1> QED BY <1>5, WritesStay DEF Reads!ReadsNext, Reads!Read

LEMMA KeepMaps ==
  ASSUME JournalInv, UNCHANGED vars, NEW r \in Writer, OthersStay(r), NoneInGap(Names[r]),
         at'[r] = "answered"
  PROVE  Reads!ReadsNext
<1>1. r \notin List /\ r \notin Single
  BY AdmissionAssumption
<1>2. Names[r] \cap Reads!Held = {}
  BY ReadsSeen DEF PendingCIs, NoneInGap, Gap
<1>3. /\ [k \in List |-> ViewOf(k)]' = [k \in List |-> ViewOf(k)]
      /\ [k \in Single |-> HadBy(k)]' = [k \in Single |-> HadBy(k)]
      /\ [q \in Single \cup List |-> AnswersOf(q)]' = [q \in Single \cup List |-> AnswersOf(q)]
      /\ {q \in Writer : at[q] = "answered"}' = {q \in Writer : at[q] = "answered"} \cup {r}
  BY <1>1 DEF OthersStay
<1>4. Reads!Keep(r)
  BY <1>2, <1>3 DEF Reads!Keep
<1> QED BY <1>4, WritesStay DEF Reads!ReadsNext, Reads!Read

LEMMA AnyRequestMaps ==
  ASSUME AdmissionInv, NEW r \in Request, (\E c \in CI : ReadCI(r, c)) \/ ShareLock(r) \/ SessionEnds(r)
  PROVE  Reads!ReadsNext
<1>1. UNCHANGED <<vars, before, cut, evidenced>>
  BY DEF ReadCI, ShareLock, SessionEnds
<1>2. /\ AdmissionTypeOK
      /\ \A q \in Request \ {r} : at'[q] = at[q] /\ page'[q] = page[q]
  BY DEF AdmissionInv, AdmissionTypeOK, ReadCI, ShareLock, SessionEnds, Goes
<1>3. OthersStay(r)
  BY <1>1, <1>2, OthersLookSame
<1>4. \/ at'[r] = at[r] /\ (at[r] = "answered" => page'[r] = page[r])
      \/ r \notin Single /\ at[r] \in {"lock", "start"} /\ at'[r] \in {"pending", "check"}
         /\ (r \in List => at[r] = "lock")
  BY <1>2, AdmissionAssumption DEF AdmissionTypeOK, ReadCI, ShareLock, SessionEnds, Goes
<1>5. LooksSame(r)
  BY <1>1, <1>4 DEF LooksSame, ViewOf, HadBy, AnswersOf, Shown
<1> QED BY <1>1, <1>3, <1>5, UnseenMaps

LEMMA ListMaps ==
  ASSUME AdmissionInv, NEW l \in List,
         \/ First(l) \/ Second(l) \/ EnterFallback(l) \/ LockedPending(l)
         \/ Latest(l) \/ CommitList(l) \/ RefuseList(l)
  PROVE  Reads!ReadsNext
<1> USE DEF AdmissionInv
<1>1. UNCHANGED <<vars, page, evidenced>> /\ l \in Request /\ l \notin Single /\ l \notin Writer
  BY AdmissionAssumption DEF First, Second, EnterFallback, LockedPending, Latest, CommitList, RefuseList,
     Request
<1>2. \A q \in Request \ {l} : at'[q] = at[q] /\ before'[q] = before[q]
  BY DEF AdmissionTypeOK, First, Second, EnterFallback, LockedPending, Latest, CommitList,
     RefuseList, TakeBefore, Goes
<1>3. \A k \in List \ {l} : cut'[k] = cut[k]
  BY DEF AdmissionTypeOK, First, Second, EnterFallback, LockedPending, Latest, CommitList,
     RefuseList, TakeBefore
<1>4. OthersStay(l)
  BY <1>1, <1>2, <1>3, OthersLookSame
<1>5. CASE First(l) \/ LockedPending(l)
  <2>1. at[l] \in {"start", "pending"} /\ at'[l] \in {"read", "reread"}
    BY <1>1, <1>5 DEF First, LockedPending, Goes, AdmissionTypeOK
  <2>2. before'[l].pending = PendingCIs /\ cut'[l] = recorded
    BY <1>1, <1>5 DEF First, LockedPending, TakeBefore, AdmissionTypeOK
  <2>3. ViewOf(l)' = {[c \in CI \ PendingCIs |-> recorded[c]]}
    BY <2>1, <2>2 DEF ViewOf
  <2> QED BY <1>1, <1>4, <2>1, <2>3, SnapMaps DEF AnswersOf
\* An answer is what the list's snapshot named.
<1>6. ASSUME at[l] \in {"read", "commit"}, at'[l] = "answered", UNCHANGED <<before, cut>>,
             \A c \in CI \ before[l].pending : page[l][c] = cut[l][c]
      PROVE  Reads!ReadsNext
  <2>1. AnswersOf(l)' = {[c \in CI \ before[l].pending |-> page[l][c]]}
    BY <1>1, <1>6 DEF AnswersOf, Shown
  <2>2. ViewOf(l) = {[c \in CI \ before[l].pending |-> cut[l][c]]} /\ ViewOf(l)' = ViewOf(l)
    BY <1>6 DEF ViewOf
  <2>3. AnswersOf(l) = {} /\ AnswersOf(l)' = ViewOf(l)
    BY <1>6, <2>1, <2>2 DEF AnswersOf
  <2> QED BY <1>1, <1>4, <2>2, <2>3, AnswerListMaps
<1>7. ASSUME at[l] \notin {"start", "refused", "answered"}, at'[l] \notin {"start", "refused", "answered"},
             UNCHANGED <<before, cut>>
      PROVE  Reads!ReadsNext
  <2>1. LooksSame(l)
    BY <1>1, <1>7 DEF LooksSame, ViewOf, AnswersOf
  <2> QED BY <1>1, <1>4, <2>1, UnseenMaps
<1>8. CASE Second(l)
  <2>1. /\ at[l] = "read" /\ unread[l] = {} /\ UNCHANGED <<before, cut>>
        /\ at'[l] = IF Unmoved(l) THEN "answered" ELSE "fallback"
    BY <1>1, <1>8 DEF Second, Goes, AdmissionTypeOK
  <2>2. Unmoved(l) => \A c \in CI \ before[l].pending : page[l][c] = cut[l][c]
    BY <2>1 DEF Unmoved, ListRead, CutStands
  <2> QED BY <1>6, <1>7, <2>1, <2>2
<1>9. CASE EnterFallback(l) \/ Latest(l)
  BY <1>1, <1>7, <1>9 DEF EnterFallback, Latest, Goes, AdmissionTypeOK
<1>10. CASE CommitList(l)
  <2>1. at[l] = "commit" /\ at'[l] = "answered" /\ UNCHANGED <<before, cut>>
    BY <1>1, <1>10 DEF CommitList, Goes, AdmissionTypeOK
  <2> QED BY <1>6, <2>1 DEF ListRead
<1>11. CASE RefuseList(l)
  <2>1. at[l] # "answered" /\ at'[l] = "refused"
    BY <1>1, <1>11 DEF RefuseList, Goes, AdmissionTypeOK, Final
  <2> QED BY <1>1, <1>4, <2>1, RefuseListMaps DEF AnswersOf, ViewOf
<1> QED BY <1>5, <1>8, <1>9, <1>10, <1>11

LEMMA SingleMaps ==
  ASSUME AdmissionInv, NEW s \in Single, Look(s) \/ Check(s) \/ Recheck(s)
  PROVE  Reads!ReadsNext
<1> USE DEF AdmissionInv
<1>1. /\ UNCHANGED <<vars, before, cut>>
      /\ s \in Request /\ s \notin List /\ s \notin Writer
  BY AdmissionAssumption DEF Look, Check, Recheck, Request
<1>2. /\ \A q \in Request \ {s} : at'[q] = at[q] /\ page'[q] = page[q]
      /\ \A k \in Single \ {s} : evidenced'[k] = evidenced[k]
  BY DEF AdmissionTypeOK, Look, Check, Recheck, Goes
<1>3. OthersStay(s)
  BY <1>1, <1>2, OthersLookSame
<1>4. ASSUME at[s] # "answered", at'[s] = "gap" PROVE Reads!ReadsNext
  BY <1>1, <1>3, <1>4, AskMaps DEF AnswersOf, HadBy
<1>5. ASSUME at[s] # "answered", at'[s] \in {"check", "read", "recheck"},
             evidenced'[s] = {recorded[c] : c \in Names[s]}
      PROVE  Reads!ReadsNext
  BY <1>1, <1>3, <1>5, AskMaps DEF AnswersOf, HadBy
<1>6. CASE Look(s)
  <2>1. at[s] = "start" /\ at'[s] \in {"check", "recheck"}
    BY <1>1, <1>6 DEF Look, Goes, AdmissionTypeOK
  <2>2. evidenced'[s] = {recorded[c] : c \in Names[s]}
    BY <1>6 DEF Look, Evidence, AdmissionTypeOK
  <2> QED BY <1>5, <2>1, <2>2
<1>7. CASE Check(s)
  <2>1. /\ at[s] = "check"
        /\ \/ at'[s] = "gap"
           \/ at'[s] = "read" /\ evidenced'[s] = {recorded[c] : c \in Names[s]}
    BY <1>1, <1>7 DEF Check, Goes, Evidence, AdmissionTypeOK
  <2> QED BY <1>4, <1>5, <2>1
<1>8. CASE Recheck(s)
  <2>1. /\ unread[s] = {} /\ at[s] \in {"read", "recheck"} /\ UNCHANGED <<page, evidenced>>
        /\ at'[s] = IF NoneInGap(Names[s]) THEN "answered" ELSE "gap"
    BY <1>1, <1>8 DEF Recheck, Goes, AdmissionTypeOK
  <2>2. CASE NoneInGap(Names[s])
    <3>1. \A c \in Names[s] : page[s][c] \in evidenced[s]
      BY <2>1, <2>2 DEF SingleRead, Accounted, NoneInGap, Gap
    <3>2. AnswersOf(s)' = {[c \in Names[s] |-> page[s][c]]} /\ AnswersOf(s) = {}
      BY <1>1, <2>1, <2>2 DEF AnswersOf, Shown
    <3>3. HadBy(s) = evidenced[s] /\ HadBy(s)' = HadBy(s)
      BY <2>1, <2>2 DEF HadBy
    <3> QED BY <1>1, <1>3, <2>2, <3>1, <3>2, <3>3, AnswerSingleMaps
  <2>3. CASE ~NoneInGap(Names[s]) BY <1>4, <2>1, <2>3
  <2> QED BY <2>2, <2>3
<1> QED BY <1>6, <1>7, <1>8

LEMMA WriterMaps ==
  ASSUME AdmissionInv, NEW r \in Writer,
         CheckNamed(r) \/ Insert(r) \/ CommitInsert(r) \/ RefuseWrite(r)
  PROVE  Reads!ReadsNext
<1> USE DEF AdmissionInv
<1>1. /\ UNCHANGED <<vars, before, page, cut, evidenced>>
      /\ r \in Request /\ r \notin List /\ r \notin Single
  BY AdmissionAssumption DEF CheckNamed, Insert, CommitInsert, RefuseWrite, Request
<1>2. \A q \in Request \ {r} : at'[q] = at[q]
  BY DEF AdmissionTypeOK, CheckNamed, Insert, CommitInsert, RefuseWrite, Goes
<1>3. OthersStay(r)
  BY <1>1, <1>2, OthersLookSame
<1>4. CASE CommitInsert(r)
  <2>1. r \in locked /\ at[r] = "inserted" /\ at'[r] = "answered"
    BY <1>1, <1>4 DEF CommitInsert, Goes, AdmissionTypeOK
  <2> QED BY <1>1, <1>3, <2>1, KeepMaps DEF NamedStayOutOfGap
<1>5. CASE CheckNamed(r) \/ Insert(r) \/ RefuseWrite(r)
  <2>1. at[r] # "answered" /\ at'[r] # "answered"
    BY <1>1, <1>5 DEF CheckNamed, Insert, RefuseWrite, Goes, AdmissionTypeOK, Final
  <2> QED BY <1>1, <1>3, <2>1, UnseenMaps DEF LooksSame
<1> QED BY <1>4, <1>5

LEMMA ReadsStart == AdmissionInit => Reads!ReadsInit
<1> SUFFICES ASSUME AdmissionInit PROVE Reads!ReadsInit
  OBVIOUS
<1>1. Atomic!Init
  BY InitMaps DEF AdmissionInit
<1>2. \A r \in Request : at[r] = "start"
  BY DEF AdmissionInit
<1>3. /\ \A l \in List : ViewOf(l) = {}
      /\ \A s \in Single : HadBy(s) = {}
      /\ \A r \in Single \cup List : AnswersOf(r) = {}
      /\ {r \in Writer : at[r] = "answered"} = {}
  BY <1>2 DEF ViewOf, HadBy, AnswersOf, Request
<1> QED BY <1>1, <1>3 DEF Atomic!Init, Reads!Init, Reads!ReadsInit

\* Read admission beside the journal is an atomic write of several CIs with snapshot
\* lists, single reads of values shown meanwhile, and references to nothing in doubt,
\* for any number of requests, writes, rows, CIs and sweepers.
THEOREM AdmissionIsAtomic == AdmissionSpec => ImplementsAtomicReads
<1>1. AdmissionInv /\ JournalInv' /\ [AdmissionNext]_allVars
        => [Reads!ReadsNext]_<<Reads!vars, Reads!readVars>>
  <2> SUFFICES ASSUME AdmissionInv, JournalInv', [AdmissionNext]_allVars
               PROVE  Reads!ReadsNext
    OBVIOUS
  <2>1. CASE JournalStep
    BY <2>1, JournalStepMaps
  <2>2. CASE UNCHANGED allVars
    <3>1. UNCHANGED vars /\ UNCHANGED <<at, before, page, cut, evidenced>>
      BY <2>2 DEF allVars, admissionVars
    <3>2. UNCHANGED Reads!vars
      BY <3>1, WritesStay
    <3>3. UNCHANGED Reads!readVars
      BY <3>1 DEF Reads!readVars, ViewOf, HadBy, AnswersOf, Shown
    <3> QED BY <3>2, <3>3 DEF Reads!ReadsNext, Reads!Unseen
  <2>3. CASE \E r \in Request : (\E c \in CI : ReadCI(r, c)) \/ ShareLock(r) \/ SessionEnds(r)
    BY <2>3, AnyRequestMaps
  <2>4. CASE \E s \in Single : Look(s) \/ Check(s) \/ Recheck(s)
    BY <2>4, SingleMaps
  <2>5. CASE \E l \in List : \/ First(l) \/ Second(l) \/ EnterFallback(l) \/ LockedPending(l)
                             \/ Latest(l) \/ CommitList(l) \/ RefuseList(l)
    BY <2>5, ListMaps
  <2>6. CASE \E r \in Writer : CheckNamed(r) \/ Insert(r) \/ CommitInsert(r) \/ RefuseWrite(r)
    BY <2>6, WriterMaps
  <2> QED BY <2>1, <2>2, <2>3, <2>4, <2>5, <2>6 DEF AdmissionNext
<1>2. AdmissionInv => JournalInv
  BY DEF AdmissionInv
<1> QED
  BY <1>1, <1>2, ReadsStart, AdmissionIsConsistent, PTL
  DEF AdmissionSpec, ImplementsAtomicReads, Reads!ReadsSpec
=============================================================================
