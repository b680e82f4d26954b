---------------------------- MODULE ReadAdmission ----------------------------
(***************************************************************************)
(* packages/api-server/src/read-admission.ts beside the journal: how a     *)
(* request reads CIs of the graph, or writes a row that names them, while  *)
(* journaled writes of the same organization are on their way.             *)
(*                                                                         *)
(*   Single  readSingleCI: gap check, read, gap check                      *)
(*   List    readCIList: journal snapshot, read without the pending CIs,   *)
(*           second snapshot; if they differ, once more under the          *)
(*           admission lock, for at most MaxActive requests at a time      *)
(*   Writer  writeReferencedCIs: gap check and insert under that lock      *)
(*                                                                         *)
(* A read visits its CIs one by one: a list takes its count and its page   *)
(* in two statements, and Neo4j isolates neither.  T1 takes the admission  *)
(* lock exclusively, lists and referenced writes share it.  One api-server *)
(* process, one organization, every request runs once.                     *)
(***************************************************************************)
EXTENDS Journal

CONSTANTS
  Single, List, Writer,  \* the requests of each kind
  Names,                 \* the CIs a request asks for (all of them for a list)
  MaxActive,             \* lists in the locked fallback of one process
  MaxPending             \* MAX_PENDING_CI_IDS

Request == Single \cup List \cup Writer

ASSUME AdmissionAssumption ==
  /\ Single \cap List = {} /\ Single \cap Writer = {} /\ List \cap Writer = {}
  /\ Names \in [Request -> SUBSET CI]
  /\ \A r \in Single : \E c \in CI : Names[r] = {c}
  /\ MaxActive \in Nat \ {0}
  /\ MaxPending \in Nat

VARIABLES
  at,         \* where a request is, or how it ended
  locked,     \* the requests whose transaction shares the admission lock
  active,     \* activeByOrg
  before,     \* the journal a list compares with: epoch and pending
  unread,     \* the CIs a request has still to read
  page,       \* the values it has read
  cut,        \* history: the evidence when a list took its `before'
  evidenced   \* history: what the evidence of a single read's CI has been

admissionVars == <<at, locked, active, before, unread, page, cut, evidenced>>
allVars       == <<vars, admissionVars>>

Fallback == {"lock", "pending", "reread", "commit"}
Final    == {"answered", "refused", "gap"}
Phase    == {"start", "check", "read", "recheck", "fallback", "insert", "inserted"}
            \cup Fallback \cup Final
Values   == [CI -> Group \cup {None}]

AdmissionTypeOK ==
  /\ at \in [Request -> Phase]
  /\ locked \subseteq Request
  /\ active \in 0 .. MaxActive
  /\ before \in [Request -> [epoch: Nat, pending: SUBSET CI]]
  /\ unread \in [Request -> SUBSET CI]
  /\ page \in [Request -> Values]
  /\ cut \in [List -> Values]
  /\ evidenced \in [Single -> SUBSET (Group \cup {None})]

AdmissionInit ==
  /\ Init
  /\ at = [r \in Request |-> "start"]
  /\ locked = {}
  /\ active = 0
  /\ before = [r \in Request |-> [epoch |-> 0, pending |-> {}]]
  /\ unread = [r \in Request |-> {}]
  /\ page = [r \in Request |-> [c \in CI |-> None]]
  /\ cut = [l \in List |-> [c \in CI |-> None]]
  /\ evidenced = [s \in Single |-> {}]

-----------------------------------------------------------------------------
PendingCIs    == {CiOf[o] : o \in {p \in Op : Open(p)}}
TooMany       == Inflight > MaxPending
NoneInGap(S)  == \A c \in S : ~Gap(c)
Goes(r, from, to) == at[r] \in from /\ at' = [at EXCEPT ![r] = to]

\* One CI of the graph, in whichever order the statements of the read reach it.
ReadCI(r, c) ==
  /\ at[r] \in {"read", "reread"} /\ c \in unread[r]
  /\ page' = [page EXCEPT ![r][c] = graph[c]]
  /\ unread' = [unread EXCEPT ![r] = @ \ {c}]
  /\ UNCHANGED <<vars, at, locked, active, before, cut, evidenced>>

-----------------------------------------------------------------------------
(* readSingleCI.                                                           *)

Evidence(s) == {recorded[c] : c \in Names[s]}

\* The handler looks the CI up first: not found, it checks the gap once and
\* answers 404; found, it starts over with readSingleCI.
Look(s) ==
  /\ Goes(s, {"start"}, "recheck") \/ Goes(s, {"start"}, "check")
  /\ page' = [page EXCEPT ![s] = [c \in CI |-> IF c \in Names[s] THEN graph[c] ELSE None]]
  /\ evidenced' = [evidenced EXCEPT ![s] = Evidence(s)]
  /\ UNCHANGED <<vars, locked, active, before, unread, cut>>

Check(s) ==
  /\ s \in Single
  /\ \/ ~NoneInGap(Names[s]) /\ Goes(s, {"check"}, "gap") /\ UNCHANGED <<unread, evidenced>>
     \/ /\ NoneInGap(Names[s]) /\ Goes(s, {"check"}, "read")
        /\ unread' = [unread EXCEPT ![s] = Names[s]]
        /\ evidenced' = [evidenced EXCEPT ![s] = Evidence(s)]
  /\ UNCHANGED <<vars, locked, active, before, page, cut>>

\* Mutant: the answer of the second check is not awaited.
RecheckIgnored(s) ==
  /\ unread[s] = {} /\ Goes(s, {"read", "recheck"}, "answered")
  /\ UNCHANGED <<vars, locked, active, before, unread, page, cut, evidenced>>

Recheck(s) ==
  /\ unread[s] = {}
  /\ Goes(s, {"read", "recheck"}, IF NoneInGap(Names[s]) THEN "answered" ELSE "gap")
  /\ UNCHANGED <<vars, locked, active, before, unread, page, cut, evidenced>>

-----------------------------------------------------------------------------
(* readCIList.                                                             *)

\* A journal snapshot is one statement; over MaxPending rows the list is refused.
TakeBefore(l) ==
  /\ before' = [before EXCEPT ![l] = [epoch |-> epoch, pending |-> PendingCIs]]
  /\ cut' = [cut EXCEPT ![l] = recorded]
  /\ unread' = [unread EXCEPT ![l] = CI \ PendingCIs]

First(l) ==
  /\ ~TooMany /\ Goes(l, {"start"}, "read")
  /\ TakeBefore(l)
  /\ UNCHANGED <<vars, locked, active, page, evidenced>>

\* Mutant: only the pending CIs are compared.
UnmovedPending(l) == before[l].pending = PendingCIs

Unmoved(l) == before[l].pending = PendingCIs /\ before[l].epoch = epoch

Second(l) ==
  /\ ~TooMany /\ unread[l] = {}
  /\ Goes(l, {"read"}, IF Unmoved(l) THEN "answered" ELSE "fallback")
  /\ UNCHANGED <<vars, locked, active, before, unread, page, cut, evidenced>>

EnterFallback(l) ==
  /\ active < MaxActive /\ Goes(l, {"fallback"}, "lock")
  /\ active' = active + 1
  /\ UNCHANGED <<vars, locked, before, unread, page, cut, evidenced>>

\* pg_advisory_xact_lock_shared: T1 holds the exclusive lock only inside the
\* step Admit or Clash, so a shared request is granted between those.
ShareLock(r) ==
  /\ \/ r \in List /\ Goes(r, {"lock"}, "pending")
     \/ r \in Writer /\ Goes(r, {"start"}, "check")
  /\ locked' = locked \cup {r}
  /\ UNCHANGED <<vars, active, before, unread, page, cut, evidenced>>

LockedPending(l) ==
  /\ l \in locked /\ ~TooMany /\ Goes(l, {"pending"}, "reread")
  /\ TakeBefore(l)
  /\ UNCHANGED <<vars, locked, active, page, evidenced>>

Latest(l) ==
  /\ l \in locked /\ ~TooMany /\ unread[l] = {} /\ before[l].pending = PendingCIs
  /\ Goes(l, {"reread"}, "commit")
  /\ UNCHANGED <<vars, locked, active, before, unread, page, cut, evidenced>>

\* COMMIT gives the lock up, the finally block gives the slot back.
CommitList(l) ==
  /\ l \in locked /\ Goes(l, {"commit"}, "answered")
  /\ locked' = locked \ {l}
  /\ active' = active - 1
  /\ UNCHANGED <<vars, before, unread, page, cut, evidenced>>

\* Mutant: a list that fails in the fallback keeps its slot.
SlotKept(l)  == active

SlotReturned(l) == IF at[l] \in Fallback THEN active - 1 ELSE active

\* 503: the 10 s are over, too many pending rows, another membership, no slot
\* left, or any error.  ROLLBACK may fail too: then the server still holds the
\* lock until it notices that the connection was destroyed.
RefuseList(l) ==
  /\ l \in List /\ at[l] \notin Final /\ Goes(l, {at[l]}, "refused")
  /\ active' = SlotReturned(l)
  /\ locked' \in {locked, locked \ {l}}
  /\ UNCHANGED <<vars, before, unread, page, cut, evidenced>>

-----------------------------------------------------------------------------
(* writeReferencedCIs.                                                     *)

CheckNamed(r) ==
  /\ r \in Writer /\ r \in locked
  /\ IF NoneInGap(Names[r])
     THEN Goes(r, {"check"}, "insert") /\ UNCHANGED locked
     ELSE Goes(r, {"check"}, "gap") /\ locked' = locked \ {r}
  /\ UNCHANGED <<vars, active, before, unread, page, cut, evidenced>>

Insert(r) ==
  /\ r \in locked /\ Goes(r, {"insert"}, "inserted")
  /\ UNCHANGED <<vars, locked, active, before, unread, page, cut, evidenced>>

CommitInsert(r) ==
  /\ r \in locked /\ Goes(r, {"inserted"}, "answered")
  /\ locked' = locked \ {r}
  /\ UNCHANGED <<vars, active, before, unread, page, cut, evidenced>>

RefuseWrite(r) ==
  /\ r \in Writer /\ at[r] \notin Final /\ Goes(r, {at[r]}, "refused")
  /\ locked' \in {locked, locked \ {r}}
  /\ UNCHANGED <<vars, active, before, unread, page, cut, evidenced>>

-----------------------------------------------------------------------------
\* PostgreSQL ends a session (idle in transaction for 15 s, a lost connection)
\* and its lock with it; the request learns of it at its next statement.
SessionEnds(r) ==
  /\ r \in locked
  /\ locked' = locked \ {r}
  /\ UNCHANGED <<vars, at, active, before, unread, page, cut, evidenced>>

\* Mutant: T1 takes no admission lock.
LockFreeToT1 == TRUE

LockFree == locked = {}

\* T1 got past its lock in this step: it inserted its rows or met the index.
T1Locked == \E g \in Group : /\ pc[g] \in {"reserve", "retry"}
                             /\ pc'[g] \in {"planning", "clash", "gap"}

JournalStep ==
  /\ Next
  /\ T1Locked => LockFree
  /\ evidenced' = [s \in Single |-> IF at[s] = "start" THEN {}
                     ELSE evidenced[s] \cup {recorded'[c] : c \in Names[s]}]
  /\ UNCHANGED <<at, locked, active, before, unread, page, cut>>

AdmissionNext ==
  \/ JournalStep
  \/ \E r \in Request : (\E c \in CI : ReadCI(r, c)) \/ ShareLock(r) \/ SessionEnds(r)
  \/ \E s \in Single : Look(s) \/ Check(s) \/ Recheck(s)
  \/ \E l \in List : First(l) \/ Second(l) \/ EnterFallback(l) \/ LockedPending(l)
                     \/ Latest(l) \/ CommitList(l) \/ RefuseList(l)
  \/ \E r \in Writer : CheckNamed(r) \/ Insert(r) \/ CommitInsert(r) \/ RefuseWrite(r)

AdmissionSpec == AdmissionInit /\ [][AdmissionNext]_allVars

-----------------------------------------------------------------------------
(* Properties.                                                             *)

\* A list is a consistent cut of both stores: every CI it shows has the value its
\* evidence named at the one moment the list took its snapshot, and every CI it
\* leaves out was in a gap then, however many writes ran during the read.
ListIsOneCut ==
  \A l \in List : at[l] = "answered" =>
    \A c \in CI \ before[l].pending : page[l][c] = cut[l][c]

\* A single read is linearizable against the evidence: the value it returns was
\* the CI's evidenced value at some moment between its start and its answer, never
\* a change whose T2 is still to come.
SingleIsEvidenced ==
  \A s \in Single : at[s] = "answered" => \A c \in Names[s] : page[s][c] \in evidenced[s]

\* "The referenced CI cannot enter a gap between this check and the insert": a
\* referenced write that still holds its lock, and so may commit, names no CI that
\* has been reserved since its check.
NamedStayOutOfGap ==
  \A r \in Writer : r \in locked /\ at[r] \in {"insert", "inserted"} => NoneInGap(Names[r])

\* Every slot of the fallback is given back exactly once, whichever statement of
\* the list fails.
SlotsAreConserved == active = Cardinality({l \in List : at[l] \in Fallback})
=============================================================================
