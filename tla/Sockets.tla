------------------------------ MODULE Sockets ------------------------------
(***************************************************************************)
(* The WebSocket service of one API process (websocket.service.ts):        *)
(* admission of upgrades, the connections, and the periodic re-check of    *)
(* the users behind them.                                                  *)
(*                                                                         *)
(* A lookup in the user store cannot be cancelled: it may answer after its *)
(* asker has gone, or never.  What makes a connection's user unfit for it  *)
(* (disabled, removed, rotated, marked, moved to another organization) is  *)
(* one number, the user's generation; the token's expiry, which a timer    *)
(* enforces alone, and the delivery of messages are left out.              *)
(***************************************************************************)
EXTENDS Naturals, FiniteSets, Sequences, SequencesExt

CONSTANTS
  Peer,           \* sockets
  User, Org,
  UserOf, OrgOf,  \* the user behind a socket, the organization of a user
  MaxVerifying, MaxConnections, MaxOrgConnections, MaxUserConnections,
  Concurrency,    \* REVERIFY_CONCURRENCY
  MaxGen          \* bound on the changes of one user

ASSUME SocketsAssumption ==
  /\ UserOf \in [Peer -> User] /\ OrgOf \in [User -> Org]
  /\ Concurrency \in Nat \ {0} /\ MaxGen \in Nat
  /\ {MaxVerifying, MaxConnections, MaxOrgConnections, MaxUserConnections} \subseteq Nat

VARIABLES
  serving,     \* wss is not null
  gen,         \* the users in the store
  peer,        \* a socket, and the generation it was authenticated in
  verify,      \* its token's lookup
  verifying,   \* verificationInFlight
  tick,        \* the re-check at work, or the last one
  queue,       \* reverifyQueue
  look,        \* the tick's lookups
  orphans,     \* lookups of ticks that are over, still in flight
  checking     \* reverifyLookupsInFlight

upgradeVars == <<peer, verify, verifying>>
checkVars   == <<tick, queue, look, orphans, checking>>
socketVars  == <<serving, gen, upgradeVars, checkVars>>

Lookup == [at : {"none", "sent", "read", "failed"}, gen : 0 .. MaxGen]
NoLookup == [at |-> "none", gen |-> 0]
Out      == [at |-> "out", gen |-> 0]
Sent     == [at |-> "sent", gen |-> 0]

\* What a lookup may come to: the user's generation, or a failure.
Reads(u) == {[at |-> "read", gen |-> gen[u]], [at |-> "failed", gen |-> 0]}

Tick   == [open : BOOLEAN, pending : SUBSET User, seen : SUBSET Peer, since : [User -> 0 .. MaxGen]]

SocketsTypeOK ==
  /\ serving \in BOOLEAN
  /\ gen \in [User -> 0 .. MaxGen]
  /\ peer \in [Peer -> [at : {"out", "pending", "in"}, gen : 0 .. MaxGen]]
  /\ verify \in [Peer -> Lookup] /\ verifying \in Nat
  /\ tick \in Tick /\ (tick.open <=> tick.pending # {})
  /\ queue \in Seq(User) /\ look \in [User -> Lookup]
  /\ orphans \in Nat /\ checking \in Nat

SocketsInit ==
  /\ serving = TRUE /\ gen = [u \in User |-> 0]
  /\ peer = [p \in Peer |-> Out]
  /\ verify = [p \in Peer |-> NoLookup] /\ verifying = 0
  /\ tick = [open |-> FALSE, pending |-> {}, seen |-> {}, since |-> gen]
  /\ queue = << >> /\ look = [u \in User |-> NoLookup] /\ orphans = 0 /\ checking = 0

Pending == {p \in Peer : peer[p].at = "pending"}
Clients == {p \in Peer : peer[p].at = "in"}
OfUser(u) == {p \in Clients : UserOf[p] = u}
OfOrg(o)  == {p \in Clients : OrgOf[UserOf[p]] = o}

Drop(ps) == peer' = [p \in Peer |-> IF p \in ps THEN Out ELSE peer[p]]

-----------------------------------------------------------------------------
(* Upgrades.                                                               *)

Saturated ==
  \/ Cardinality(Pending) >= MaxVerifying \/ verifying >= MaxVerifying
  \/ Cardinality(Clients) + Cardinality(Pending) >= MaxConnections

\* handleUpgrade up to its first await.
Upgrade(p) ==
  /\ serving /\ ~Saturated
  /\ peer[p].at = "out" /\ verify[p].at = "none"
  /\ peer' = [peer EXCEPT ![p].at = "pending"]
  /\ verify' = [verify EXCEPT ![p] = Sent] /\ verifying' = verifying + 1
  /\ UNCHANGED <<serving, gen, checkVars>>

\* Inside verifyToken the user is read: the token is of the generation found, or refused.
VerifyReads(p) ==
  /\ verify[p].at = "sent"
  /\ \E v \in Reads(UserOf[p]) : verify' = [verify EXCEPT ![p] = v]
  /\ UNCHANGED <<serving, gen, peer, verifying, checkVars>>

\* Mutant: only the service's own cap is looked at again.
TotalOnly(p) == Cardinality(Clients) >= MaxConnections

AtCap(p) ==
  \/ Cardinality(Clients) >= MaxConnections
  \/ Cardinality(OfOrg(OrgOf[UserOf[p]])) >= MaxOrgConnections
  \/ Cardinality(OfUser(UserOf[p])) >= MaxUserConnections

\* It answers: the slot is free, and a peer that still waits is registered or refused.
VerifySettles(p) ==
  /\ verify[p].at \in {"read", "failed"}
  /\ verify' = [verify EXCEPT ![p] = NoLookup] /\ verifying' = verifying - 1
  /\ IF peer[p].at # "pending" THEN UNCHANGED peer
     ELSE IF verify[p].at = "read" /\ serving /\ ~AtCap(p)
          THEN peer' = [peer EXCEPT ![p] = [at |-> "in", gen |-> verify[p].gen]]
          ELSE Drop({p})
  /\ UNCHANGED <<serving, gen, checkVars>>

\* VERIFY_TIMEOUT_MS, or the peer leaves: its lookup goes on.
Abandon(p) ==
  /\ peer[p].at = "pending" /\ Drop({p})
  /\ UNCHANGED <<serving, gen, verify, verifying, checkVars>>

\* A connection closes, or its token expires.
Leave(p) ==
  /\ peer[p].at = "in" /\ Drop({p})
  /\ tick' = [tick EXCEPT !.seen = @ \ {p}]
  /\ UNCHANGED <<serving, gen, verify, verifying, queue, look, orphans, checking>>

-----------------------------------------------------------------------------
(* The re-check.                                                           *)

\* pumpReverifyQueue, from the queue q and the lookups l with n in flight.
Pump(q, l, n) ==
  LET free == IF n < Concurrency THEN Concurrency - n ELSE 0
      k    == IF free < Len(q) THEN free ELSE Len(q)
  IN  /\ queue' = SubSeq(q, k + 1, Len(q))
      /\ look' = [u \in User |-> IF u \in ToSet(SubSeq(q, 1, k)) THEN Sent ELSE l[u]]
      /\ checking' = n + k

\* reverifyClients.  A tick's deadline comes long before the next tick.
StartTick ==
  /\ serving /\ ~tick.open /\ Clients # {}
  /\ LET users == {UserOf[p] : p \in Clients}
     IN  /\ tick' = [open |-> TRUE, pending |-> users, seen |-> Clients, since |-> gen]
         /\ \E q \in SetToSeqs(users) : Pump(q, look, checking)
  /\ UNCHANGED <<serving, gen, upgradeVars, orphans>>

CheckReads(u) ==
  /\ look[u].at = "sent"
  /\ \E v \in Reads(u) : look' = [look EXCEPT ![u] = v]
  /\ UNCHANGED <<serving, gen, upgradeVars, tick, queue, orphans, checking>>

\* Mutant: a failed lookup closes nothing.
UnfitIfRead(p, v) == v.at = "read" /\ v.gen # peer[p].gen

Unfit(p, v) == v.at = "failed" \/ v.gen # peer[p].gen

\* The connections of the tick that are still there.
Checked(us) == {p \in tick.seen \cap Clients : UserOf[p] \in us}

Resolve(us) == [tick EXCEPT !.pending = @ \ us, !.open = tick.pending \ us # {}]

\* applyReverifyResult, and the slot goes to the next in the queue.
CheckSettles(u) ==
  /\ look[u].at \in {"read", "failed"} /\ serving
  /\ Drop({p \in Checked({u}) : Unfit(p, look[u])})
  /\ tick' = Resolve({u})
  /\ Pump(queue, [look EXCEPT ![u] = NoLookup], checking - 1)
  /\ UNCHANGED <<serving, gen, verify, verifying, orphans>>

\* A lookup whose tick is over settles.
OrphanSettles ==
  /\ orphans > 0 /\ orphans' = orphans - 1
  /\ IF serving THEN Pump(queue, look, checking - 1)
                ELSE checking' = checking - 1 /\ UNCHANGED <<queue, look>>
  /\ UNCHANGED <<serving, gen, upgradeVars, tick>>

InFlight == {u \in User : look[u].at # "none"}

\* Mutant: a deadline closes only the users whose lookup was still queued.
Queued == ToSet(queue)

Unresolved == tick.pending

\* expireReverifyTick: whatever is not resolved fails closed.
Deadline ==
  /\ tick.open /\ serving
  /\ Drop(Checked(Unresolved))
  /\ tick' = Resolve(tick.pending)
  /\ queue' = << >> /\ UNCHANGED checking
  /\ orphans' = orphans + Cardinality(InFlight) /\ look' = [u \in User |-> NoLookup]
  /\ UNCHANGED <<serving, gen, verify, verifying>>

-----------------------------------------------------------------------------
\* The account changes.
Revoke(u) ==
  /\ gen[u] < MaxGen /\ gen' = [gen EXCEPT ![u] = @ + 1]
  /\ UNCHANGED <<serving, upgradeVars, checkVars>>

\* close(): pending upgrades are cancelled, connections closed, ticks forgotten.
Shutdown ==
  /\ serving /\ serving' = FALSE
  /\ Drop(Peer)
  /\ tick' = Resolve(tick.pending) /\ queue' = << >>
  /\ orphans' = orphans + Cardinality(InFlight) /\ look' = [u \in User |-> NoLookup]
  /\ UNCHANGED <<gen, verify, verifying, checking>>

PeerStep(p) == \/ Upgrade(p) \/ VerifyReads(p) \/ VerifySettles(p) \/ Abandon(p) \/ Leave(p)

SocketsStep ==
  \/ \E p \in Peer : PeerStep(p)
  \/ StartTick \/ Deadline \/ OrphanSettles \/ Shutdown
  \/ \E u \in User : CheckReads(u) \/ CheckSettles(u) \/ Revoke(u)

SocketsSpec == SocketsInit /\ [][SocketsStep]_socketVars

\* Timers fire; no lookup needs ever answer.
SocketsFairness == WF_socketVars(StartTick) /\ WF_socketVars(Deadline)

-----------------------------------------------------------------------------
(* Properties.                                                             *)

\* "a slot is held until its lookup actually settles": whoever has gone meanwhile,
\* the counters are the lookups in flight, and these are never more than their caps.
LookupsAreCounted ==
  /\ verifying = Cardinality({p \in Peer : verify[p].at # "none"})
  /\ checking = Cardinality(InFlight) + orphans
  /\ verifying <= MaxVerifying /\ checking <= Concurrency

\* However many upgrades are verified at once, no cap on connections is exceeded.
ConnectionsAreBounded ==
  /\ Cardinality(Clients) <= MaxConnections
  /\ \A o \in Org : Cardinality(OfOrg(o)) <= MaxOrgConnections
  /\ \A u \in User : Cardinality(OfUser(u)) <= MaxUserConnections

\* A service that was closed has no connection left, and gets none from the upgrades
\* it was verifying.
ClosedStaysEmpty == ~serving => Clients = {} /\ queue = << >>

SocketsInv == SocketsTypeOK /\ LookupsAreCounted /\ ConnectionsAreBounded /\ ClosedStaysEmpty

\* A tick that is over leaves no connection it saw whose user was already unfit for it
\* when it began: neither a failed or stuck lookup nor a full queue lets one through.
TicksAreDecisive ==
  \A p \in tick.seen \cap Clients :
    UserOf[p] \notin tick.pending => peer[p].gen >= tick.since[UserOf[p]]

\* A connection outlives its user's right to it for a while only.
UnfitAreClosed ==
  \A p \in Peer : (p \in Clients /\ peer[p].gen # gen[UserOf[p]]) ~> (p \notin Clients)
=============================================================================
