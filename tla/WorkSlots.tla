------------------------------ MODULE WorkSlots ------------------------------
(***************************************************************************)
(* packages/api-server/src/middleware/analysis-admission.ts: how many      *)
(* GraphQL and analysis requests of a tenant and of a user work at once.   *)
(*                                                                         *)
(* A request reserves one slot in the bucket of its organization and one   *)
(* in that of its user, or is refused.  A slot is given back when the work *)
(* is over, not when the response is: work outlives a timed-out response   *)
(* and a closed socket.  Time is abstracted to "the 60 s window of this    *)
(* bucket has elapsed", which may happen at any moment.                    *)
(***************************************************************************)
EXTENDS Naturals, FiniteSets

CONSTANTS
  GraphQL,    \* requests admitted by admitGraphQLRequest
  Analysis,   \* requests admitted by executeBoundedAnalysis: rate limited too
  Key,        \* the bucket keys (scope and organization, or with the user)
  OrgKey, UserKey, \* of each request
  StoreOf,    \* the map a key lives in: graphqlLimits or limits
  MaxActive, MaxRate, \* of each key
  MaxKeys     \* MAX_LIMITER_KEYS

Request == GraphQL \cup Analysis

ASSUME SlotsAssumption ==
  /\ GraphQL \cap Analysis = {}
  /\ OrgKey \in [Request -> Key] /\ UserKey \in [Request -> Key]
  /\ \A r \in Request : OrgKey[r] # UserKey[r] /\ StoreOf[OrgKey[r]] = StoreOf[UserKey[r]]
  /\ MaxActive \in [Key -> Nat] /\ MaxRate \in [Key -> Nat]
  /\ MaxKeys \in Nat

VARIABLES
  bucket,    \* the buckets the two maps hold
  phase,     \* where the work of a request is
  closed,    \* requests whose response has finished or whose socket has closed
  held       \* requests that have not released their slots

vars == <<bucket, phase, closed, held>>

Bucket == [elapsed: BOOLEAN, count: Nat, active: Nat]
Absent == [elapsed |-> FALSE, count |-> 0, active |-> 0, absent |-> TRUE]
Phase  == {"new", "refused", "admitted", "started", "completed"}

TypeOK ==
  /\ bucket \in [Key -> Bucket \cup {Absent}]
  /\ phase \in [Request -> Phase]
  /\ closed \subseteq Request /\ held \subseteq Request
  /\ \A s \in {StoreOf[k] : k \in Key} :
       Cardinality({k \in Key : StoreOf[k] = s /\ bucket[k] # Absent}) <= MaxKeys

Init ==
  /\ bucket = [k \in Key |-> Absent]
  /\ phase = [r \in Request |-> "new"]
  /\ closed = {} /\ held = {}

-----------------------------------------------------------------------------
(* reserveWorkSlots.                                                       *)

KeysOf(r)   == {OrgKey[r], UserKey[r]}
Fresh       == [elapsed |-> FALSE, count |-> 0, active |-> 0]
Stored(b, s) == {k \in Key : StoreOf[k] = s /\ b[k] # Absent}
Full(b, k)  == Cardinality(Stored(b, StoreOf[k])) >= MaxKeys

\* Mutant: a bucket whose window has elapsed is evicted whatever it holds.
IdleAnyway(b, k) == b[k] # Absent /\ b[k].elapsed

Idle(b, k) == b[k] # Absent /\ b[k].active = 0 /\ b[k].elapsed

Evicted(b, s) == [k \in Key |-> IF StoreOf[k] = s /\ Idle(b, k) THEN Absent ELSE b[k]]

\* The map after a look for k: evict only when full, insert only when not, and
\* start a new window when the old one has elapsed.
Entered(b, k) ==
  LET room == IF b[k] = Absent /\ Full(b, k) THEN Evicted(b, StoreOf[k]) ELSE b
  IN IF room[k] = Absent /\ Full(room, k) THEN room
     ELSE [room EXCEPT ![k] =
             IF @ = Absent THEN Fresh
             ELSE IF @.elapsed THEN [@ EXCEPT !.elapsed = FALSE, !.count = 0] ELSE @]

HasRoom(r, b, k) ==
  /\ b[k] # Absent
  /\ r \in Analysis => b[k].count < MaxRate[k]
  /\ b[k].active < MaxActive[k]

\* The two keys in order: the second is not looked up when the first refuses.
AfterOrg(r)  == Entered(bucket, OrgKey[r])
OrgRoom(r)   == HasRoom(r, AfterOrg(r), OrgKey[r])
AfterUser(r) == IF OrgRoom(r) THEN Entered(AfterOrg(r), UserKey[r]) ELSE AfterOrg(r)

Admissible(r) == OrgRoom(r) /\ HasRoom(r, AfterUser(r), UserKey[r])

Admit(r) ==
  /\ phase[r] = "new" /\ Admissible(r)
  /\ phase' = [phase EXCEPT ![r] = IF r \in GraphQL THEN "admitted" ELSE "started"]
  /\ bucket' = [k \in Key |-> IF k \in KeysOf(r)
                  THEN [AfterUser(r)[k] EXCEPT !.count = IF r \in Analysis THEN @ + 1 ELSE @,
                                               !.active = @ + 1]
                  ELSE AfterUser(r)[k]]
  /\ held' = held \cup {r}
  /\ UNCHANGED closed

\* 429; the buckets the search created or renewed stay.
Refuse(r) ==
  /\ phase[r] = "new" /\ ~Admissible(r)
  /\ phase' = [phase EXCEPT ![r] = "refused"]
  /\ bucket' = AfterUser(r)
  /\ UNCHANGED <<closed, held>>

\* The closure reserveWorkSlots returned: at most once.
Release(r) ==
  /\ held' = held \ {r}
  /\ bucket' = [k \in Key |-> IF r \in held /\ k \in KeysOf(r) /\ bucket[k] # Absent
                  THEN [bucket[k] EXCEPT !.active = @ - 1] ELSE bucket[k]]

-----------------------------------------------------------------------------
\* Apollo's requestDidStart.  On a closed socket nothing is executed.
Start(r) ==
  /\ phase[r] = "admitted" /\ r \notin closed
  /\ phase' = [phase EXCEPT ![r] = "started"]
  /\ UNCHANGED <<bucket, closed, held>>

\* Mutant: completed work on a closed socket keeps its slots.
ReleasesAtEndOpen(r) == r \in Analysis

\* GraphQL work keeps its slots while its response is being written.
ReleasesAtEnd(r) == r \in Analysis \/ r \in closed

\* willSendResponse, or the operation of an analysis has settled.
Complete(r) ==
  /\ phase[r] = "started"
  /\ phase' = [phase EXCEPT ![r] = "completed"]
  /\ IF ReleasesAtEnd(r) THEN Release(r) ELSE UNCHANGED <<bucket, held>>
  /\ UNCHANGED closed

\* Mutant: a finished response or a closed socket releases running work's slots.
ReleasesAtCloseAlways(r) == TRUE

ReleasesAtClose(r) == r \in GraphQL /\ phase[r] \in {"admitted", "completed"}

\* The response finished or its socket closed (GraphQL), or the analysis answered,
\* in time or not.
Close(r) ==
  /\ phase[r] \in {"admitted", "started", "completed"} /\ r \notin closed
  /\ closed' = closed \cup {r}
  /\ IF ReleasesAtClose(r) THEN Release(r) ELSE UNCHANGED <<bucket, held>>
  /\ UNCHANGED phase

\* 30 s after completion the response is destroyed; `close' follows.
WriteDeadline(r) ==
  /\ r \in GraphQL /\ phase[r] = "completed" /\ r \notin closed /\ r \in held
  /\ Release(r)
  /\ UNCHANGED <<phase, closed>>

WindowElapses(k) ==
  /\ bucket[k] # Absent /\ ~bucket[k].elapsed
  /\ bucket' = [bucket EXCEPT ![k].elapsed = TRUE]
  /\ UNCHANGED <<phase, closed, held>>

Next ==
  \/ \E r \in Request : Admit(r) \/ Refuse(r) \/ Start(r) \/ Complete(r) \/ Close(r)
                        \/ WriteDeadline(r)
  \/ \E k \in Key : WindowElapses(k)

Spec == Init /\ [][Next]_vars

\* Work that started ends, Apollo starts or answers what was admitted, and timers
\* fire.  Nobody has to close a socket.
Fairness ==
  \A r \in Request : /\ WF_vars(phase[r] = "admitted" /\ (Start(r) \/ Close(r)))
                     /\ WF_vars(Complete(r)) /\ WF_vars(WriteDeadline(r))

FairSpec == Spec /\ Fairness

-----------------------------------------------------------------------------
(* Properties.                                                             *)

Holding(k) == {r \in held : k \in KeysOf(r)}

\* Slots are conserved: every bucket counts the requests that hold a slot of it, and
\* eviction never forgets a bucket somebody will still release, however responses,
\* sockets and write deadlines end.
SlotsAreCounted ==
  \A k \in Key : IF bucket[k] = Absent THEN Holding(k) = {}
                 ELSE bucket[k].active = Cardinality(Holding(k))

WorkSlotsInv == TypeOK /\ SlotsAreCounted

\* "hold slots after a timed-out response": running work is always within the limits
\* of its organization and of its user, whether or not its client is still there.
RunningIsBounded ==
  \A k \in Key : Cardinality({r \in Request : k \in KeysOf(r) /\ phase[r] = "started"})
                   <= MaxActive[k]

\* No slot leaks: what a request reserved is released in the end, with a client that
\* disconnects before, during or after the work, or never reads the response.
SlotsComeBack == \A r \in Request : r \in held ~> r \notin held
=============================================================================
