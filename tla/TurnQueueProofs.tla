--------------------------- MODULE TurnQueueProofs ---------------------------
(***************************************************************************)
(* The turns of TurnQueue, for any number of calls, processes and          *)
(* connections.                                                            *)
(*                                                                         *)
(* The strengthening ranks the calls of a chain by their arrival.  The     *)
(* chain is not a state of the code: a call knows only the promise before  *)
(* it, and the map only the youngest.  What makes a turn exclusive is that *)
(* a resolved turn stands for every older call of its chain, which holds   *)
(* of a predecessor, of a forgotten chain, and through every expiry.       *)
(***************************************************************************)
EXTENDS TurnQueue, TLAPS, FiniteSetTheorems, SequenceTheorems,
        WellFoundedInduction

Arrived(c)     == phase[c] # "new"
Older(rk, d, c) == Arrived(d) /\ ChainOf(d) = ChainOf(c) /\ rk[d] < rk[c]

\* rk orders the arrivals of each chain; n is above all of them.
Ranked(rk, n) ==
  /\ rk \in [Call -> Nat] /\ n \in Nat
  /\ \A c \in Call : Arrived(c) => rk[c] < n
  /\ \A c, d \in Call : /\ Arrived(c) /\ Arrived(d) /\ ChainOf(c) = ChainOf(d)
                        /\ rk[c] = rk[d]
                        => c = d

\* The predecessor of a call is the next older one, or every older turn is resolved.
Linked(rk, c) ==
  Arrived(c) =>
    IF prev[c] = None THEN \A d \in Call : Older(rk, d, c) => d \in turned
    ELSE /\ Older(rk, prev[c], c)
         /\ \A d \in Call : Older(rk, d, c) => rk[d] <= rk[prev[c]]

\* The youngest call of a chain, unless its turns are all resolved.
Youngest(rk, k) ==
  IF last[k] = None THEN \A d \in Call : Arrived(d) /\ ChainOf(d) = k => d \in turned
  ELSE /\ Arrived(last[k]) /\ ChainOf(last[k]) = k
       /\ \A d \in Call : Arrived(d) /\ ChainOf(d) = k => rk[d] <= rk[last[k]]

ResolvedInOrder(rk) ==
  \A c \in turned : \A d \in Call : Older(rk, d, c) => d \in turned

Queued == \E rk \in [Call -> Nat], n \in Nat :
            /\ Ranked(rk, n)
            /\ \A c \in Call : Linked(rk, c)
            /\ \A k \in Chain : Youngest(rk, k)
            /\ ResolvedInOrder(rk)

\* Whoever connects has had its turn and has not given it up; a T1 keeps it to its end,
\* and no call ends with it.
TurnKept(c) ==
  /\ phase[c] \in {"connect", "lock"} \/ (c \in T1 /\ phase[c] = "held")
       => c \notin mine /\ TurnBefore(c)
  /\ phase[c] \in {"new", "turn"} => c \notin mine
  /\ phase[c] \in Over => c \in mine

PoolsFit == \A p \in Process : /\ IsFiniteSet(Connected(p))
                               /\ Cardinality(Connected(p)) <= PoolSize

TurnTypes ==
  /\ phase \in [Call -> {"new", "turn", "connect", "lock", "held"} \cup Over]
  /\ prev \in [Call -> Call \cup {None}]
  /\ last \in [Chain -> Call \cup {None}]
  /\ mine \subseteq Call /\ turned \subseteq mine

LockQueue ==
  /\ waiting \in Seq(Call) /\ IsInjective(waiting)
  /\ ToSet(waiting) = {c \in Call : phase[c] = "lock"}
  /\ holding = {c \in Call : phase[c] = "held"}

TurnsIInv == TurnTypes /\ LockQueue /\ PoolsFit /\ (\A c \in Call : TurnKept(c)) /\ Queued

-----------------------------------------------------------------------------
(* The lock's queue.                                                       *)

LEMMA ToSetIs ==
  ASSUME NEW S, NEW s \in Seq(S)
  PROVE  ToSet(s) = {s[i] : i \in 1..Len(s)}
BY LenProperties DEF ToSet

LEMMA TailLeaves ==
  ASSUME NEW S, NEW s \in Seq(S), s # <<>>, IsInjective(s)
  PROVE  /\ Tail(s) \in Seq(S) /\ IsInjective(Tail(s))
         /\ ToSet(Tail(s)) = ToSet(s) \ {Head(s)}
<1>1. /\ Len(s) \in Nat /\ DOMAIN s = 1..Len(s)
      /\ Head(s) = s[1] /\ Len(s) # 0
  BY LenProperties, EmptySeq
<1>2. /\ Tail(s) \in Seq(S) /\ Len(Tail(s)) = Len(s) - 1
      /\ \A i \in 1..Len(Tail(s)) : Tail(s)[i] = s[i + 1]
  BY HeadTailProperties
<1>3. DOMAIN Tail(s) = 1..(Len(s) - 1)
  BY <1>2, LenProperties
<1>4. IsInjective(Tail(s))
  BY <1>1, <1>2, <1>3 DEF IsInjective
<1>5. ToSet(Tail(s)) = {s[i + 1] : i \in 1..(Len(s) - 1)}
  BY <1>2, <1>3 DEF ToSet
<1>6. ToSet(s) = {s[i] : i \in 1..Len(s)}
  BY <1>1 DEF ToSet
<1>7. ASSUME NEW x \in ToSet(s) \ {Head(s)} PROVE x \in ToSet(Tail(s))
  <2>1. PICK i \in 1..Len(s) : x = s[i] BY <1>6
  <2>2. i # 1 BY <1>1, <1>7, <2>1
  <2>3. i - 1 \in 1..(Len(s) - 1) /\ (i - 1) + 1 = i BY <1>1, <2>2
  <2> QED BY <1>5, <2>1, <2>3
<1>8. ASSUME NEW x \in ToSet(Tail(s)) PROVE x \in ToSet(s) \ {Head(s)}
  <2>1. PICK i \in 1..(Len(s) - 1) : x = s[i + 1] BY <1>5
  <2>2. i + 1 \in 1..Len(s) /\ i + 1 # 1 BY <1>1
  <2>3. x # s[1] BY <1>1, <2>1, <2>2 DEF IsInjective
  <2> QED BY <1>1, <1>6, <2>1, <2>2, <2>3
<1> QED BY <1>2, <1>4, <1>7, <1>8

LEMMA RemovalLeaves ==
  ASSUME NEW S, NEW s \in Seq(S), IsInjective(s), NEW i \in 1..Len(s)
  PROVE  /\ RemoveAt(s, i) \in Seq(S) /\ IsInjective(RemoveAt(s, i))
         /\ ToSet(RemoveAt(s, i)) = ToSet(s) \ {s[i]}
<1> DEFINE r == RemoveAt(s, i)
           left == SubSeq(s, 1, i - 1)
           right == SubSeq(s, i + 1, Len(s))
           n == Len(s)
<1>1. n \in Nat /\ DOMAIN s = 1..n /\ \A j \in 1..n : s[j] \in S
  BY LenProperties
<1>2. /\ left \in Seq(S) /\ Len(left) = i - 1
      /\ \A j \in 1..(i - 1) : left[j] = s[j]
  <2>1. \A j \in 1..(i - 1) : s[j] \in S BY <1>1
  <2> QED BY <1>1, <2>1, SubSeqProperties
<1>3. /\ right \in Seq(S) /\ Len(right) = n - i
      /\ \A j \in 1..(n - i) : right[j] = s[i + j]
  <2>1. \A j \in (i + 1)..n : s[j] \in S BY <1>1
  <2>2. /\ right \in Seq(S) /\ Len(right) = IF i + 1 <= n THEN n - (i + 1) + 1 ELSE 0
        /\ \A j \in 1..(n - (i + 1) + 1) : right[j] = s[i + 1 + j - 1]
    BY <1>1, <2>1, SubSeqProperties
  <2>3. \A j \in 1..(n - i) : i + 1 + j - 1 = i + j BY <1>1
  <2> QED BY <1>1, <2>2, <2>3
<1>4. r = left \o right BY DEF RemoveAt
<1> HIDE DEF r, left, right, n
<1>5. /\ r \in Seq(S) /\ Len(r) = n - 1
      /\ \A j \in 1..(n - 1) : r[j] = IF j <= i - 1 THEN left[j] ELSE right[j - (i - 1)]
  <2>1. /\ left \o right \in Seq(S) /\ Len(left \o right) = Len(left) + Len(right)
        /\ \A j \in 1..(Len(left) + Len(right)) :
             (left \o right)[j] = IF j <= Len(left) THEN left[j] ELSE right[j - Len(left)]
    BY <1>2, <1>3, ConcatProperties
  <2>2. i \in Nat /\ Len(left) = i - 1 /\ Len(left) + Len(right) = n - 1
    BY <1>1, <1>2, <1>3
  <2> QED BY <1>4, <2>1, <2>2
<1>6. ASSUME NEW j \in 1..(n - 1) PROVE r[j] = IF j < i THEN s[j] ELSE s[j + 1]
  <2>0. i \in 1..n BY DEF n
  <2>1. CASE j < i BY <1>1, <1>2, <1>5, <2>0, <2>1
  <2>2. CASE ~(j < i)
    <3>1. j - (i - 1) \in 1..(n - i) /\ i + (j - (i - 1)) = j + 1 BY <1>1, <2>0, <2>2
    <3>2. r[j] = right[j - (i - 1)] BY <1>1, <1>5, <2>0, <2>2
    <3> QED BY <1>3, <2>2, <3>1, <3>2
  <2> QED BY <2>1, <2>2
<1>7. DOMAIN r = 1..(n - 1) BY <1>5, LenProperties
<1>i. i \in 1..n BY DEF n
<1>8. IsInjective(r)
  <2>1. ASSUME NEW a \in 1..(n - 1), NEW b \in 1..(n - 1), r[a] = r[b] PROVE a = b
    <3> DEFINE at(j) == IF j < i THEN j ELSE j + 1
    <3>1. at(a) \in 1..n /\ at(b) \in 1..n BY <1>1, <1>i
    <3>2. s[at(a)] = s[at(b)] BY <1>6, <2>1
    <3>3. at(a) = at(b) BY <1>1, <3>1, <3>2 DEF IsInjective
    <3> QED BY <1>1, <1>i, <3>3
  <2> QED BY <1>7, <2>1 DEF IsInjective
<1>9. ASSUME NEW x \in ToSet(s) \ {s[i]} PROVE x \in ToSet(r)
  <2>1. PICK j \in 1..n : x = s[j] BY <1>1, <1>9 DEF ToSet
  <2>2. j # i BY <1>9, <2>1
  <2>3. CASE j < i
    <3>1. j \in 1..(n - 1) BY <1>1, <1>i, <2>3
    <3>2. r[j] = x BY <1>6, <2>1, <2>3, <3>1
    <3> QED BY <1>7, <3>1, <3>2 DEF ToSet
  <2>4. CASE j > i
    <3>1. j - 1 \in 1..(n - 1) /\ ~(j - 1 < i) /\ (j - 1) + 1 = j BY <1>1, <1>i, <2>4
    <3>2. r[j - 1] = x BY <1>6, <2>1, <3>1
    <3> QED BY <1>7, <3>1, <3>2 DEF ToSet
  <2> QED BY <1>1, <1>i, <2>2, <2>3, <2>4
<1>10. ASSUME NEW x \in ToSet(r) PROVE x \in ToSet(s) \ {s[i]}
  <2>1. PICK j \in 1..(n - 1) : x = r[j] BY <1>7, <1>10 DEF ToSet
  <2>2. PICK m \in 1..n : m # i /\ x = s[m]
    <3>1. CASE j < i BY <1>1, <1>6, <1>i, <2>1, <3>1
    <3>2. CASE ~(j < i)
      <4>1. j + 1 \in 1..n /\ j + 1 # i BY <1>1, <1>i, <3>2
      <4> QED BY <1>6, <2>1, <3>2, <4>1
    <3> QED BY <3>1, <3>2
  <2> QED BY <1>1, <1>i, <2>2 DEF IsInjective, ToSet
<1> QED BY <1>5, <1>8, <1>9, <1>10 DEF r

LEMMA RequestJoins ==
  ASSUME NEW S, NEW s \in Seq(S), IsInjective(s), NEW c \in S, c \notin ToSet(s)
  PROVE  /\ Append(s, c) \in Seq(S) /\ IsInjective(Append(s, c))
         /\ ToSet(Append(s, c)) = ToSet(s) \cup {c}
<1> DEFINE r == Append(s, c)
<1>1. Len(s) \in Nat /\ DOMAIN s = 1..Len(s) BY LenProperties
<1>2. /\ r \in Seq(S) /\ Len(r) = Len(s) + 1
      /\ \A i \in 1..Len(s) : r[i] = s[i]
      /\ r[Len(s) + 1] = c
  BY AppendProperties
<1> HIDE DEF r
<1>3. DOMAIN r = 1..(Len(s) + 1) BY <1>2, LenProperties
<1>4. \A i \in 1..Len(s) : s[i] # c BY <1>1 DEF ToSet
<1>5. IsInjective(r) BY <1>1, <1>2, <1>3, <1>4 DEF IsInjective
<1>6. \A i \in 1..(Len(s) + 1) : i \in 1..Len(s) \/ i = Len(s) + 1 BY <1>1
<1>7. ToSet(r) = ToSet(s) \cup {c}
  BY <1>1, <1>2, <1>3, <1>6 DEF ToSet
<1> QED BY <1>2, <1>5, <1>7 DEF r
-----------------------------------------------------------------------------
(* Steps that leave the chains alone.                                      *)

Stage == {"new", "turn", "connect", "lock", "held"} \cup Over

LEMMA StageMoves ==
  ASSUME phase \in [Call -> Stage], NEW c \in Call, NEW from, NEW to \in Stage,
         Moves(c, from, to)
  PROVE  /\ phase' \in [Call -> Stage]
         /\ phase[c] = from /\ phase'[c] = to
         /\ \A d \in Call : d # c => phase'[d] = phase[d]
BY DEF Moves

LEMMA ChainsStay ==
  ASSUME Queued, UNCHANGED <<prev, last, turned>>,
         \A c \in Call : Arrived(c)' <=> Arrived(c),
         TurnTypes
  PROVE  Queued'
<1>1. PICK rk \in [Call -> Nat], n \in Nat :
        /\ Ranked(rk, n) /\ \A c \in Call : Linked(rk, c)
        /\ \A k \in Chain : Youngest(rk, k)
        /\ ResolvedInOrder(rk)
  BY DEF Queued
<1>2. \A c, d \in Call : Older(rk, d, c)' <=> Older(rk, d, c) BY DEF Older
<1>3. Ranked(rk, n)' BY <1>1 DEF Ranked
<1>4. ASSUME NEW c \in Call PROVE Linked(rk, c)'
  <2>1. prev[c] # None => prev[c] \in Call BY DEF TurnTypes
  <2> QED BY <1>1, <1>2, <2>1 DEF Linked
<1>5. ASSUME NEW k \in Chain PROVE Youngest(rk, k)'
  <2>1. last[k] # None => last[k] \in Call BY DEF TurnTypes
  <2> QED BY <1>1, <2>1 DEF Youngest
<1>6. ResolvedInOrder(rk)'
  <2>1. turned \subseteq Call BY DEF TurnTypes
  <2> QED BY <1>1, <1>2, <2>1 DEF ResolvedInOrder
<1> QED BY <1>3, <1>4, <1>5, <1>6 DEF Queued

\* A call that moves on keeps its turn or gives it up.
LEMMA CallMoves ==
  ASSUME TurnsIInv, NEW c \in Call, NEW from \in Stage \ {"new"},
         NEW to \in Stage \ {"new", "turn"}, Moves(c, from, to),
         UNCHANGED <<prev, last, turned>>,
         mine' = mine \/ Release(c),
         to \in {"connect", "lock"} \/ (c \in T1 /\ to = "held")
           => c \notin mine' /\ TurnBefore(c),
         to \in Over => c \in mine'
  PROVE  TurnTypes' /\ (\A d \in Call : TurnKept(d)') /\ Queued'
<1>1. /\ phase' \in [Call -> Stage]
      /\ phase[c] = from /\ phase'[c] = to
      /\ \A d \in Call : d # c => phase'[d] = phase[d]
  BY StageMoves DEF TurnsIInv, TurnTypes, Stage
<1>2. mine \subseteq mine' /\ mine' \subseteq mine \cup {c} BY DEF Release
<1>3. TurnTypes' BY <1>1, <1>2 DEF TurnsIInv, TurnTypes, Stage
<1>4. ASSUME NEW d \in Call PROVE TurnKept(d)'
  <2>1. TurnKept(d) /\ (TurnBefore(d)' <=> TurnBefore(d))
    BY DEF TurnsIInv, TurnBefore
  <2>2. CASE d = c BY <1>1, <2>1, <2>2 DEF TurnKept, Over
  <2>3. CASE d # c BY <1>1, <1>2, <2>1, <2>3 DEF TurnKept
  <2> QED BY <2>2, <2>3
<1>5. \A d \in Call : Arrived(d)' <=> Arrived(d) BY <1>1 DEF Arrived
<1>6. Queued' BY <1>5, ChainsStay DEF TurnsIInv
<1> QED BY <1>3, <1>4, <1>6

\* A call that gives its connection back or never takes one leaves the pools alone.
LEMMA PoolsShrink ==
  ASSUME PoolsFit, \A p \in Process : Connected(p)' \subseteq Connected(p)
  PROVE  PoolsFit'
<1> SUFFICES ASSUME NEW p \in Process
             PROVE  IsFiniteSet(Connected(p)') /\ Cardinality(Connected(p)') <= PoolSize
  BY DEF PoolsFit
<1>1. IsFiniteSet(Connected(p)) /\ Cardinality(Connected(p)) <= PoolSize BY DEF PoolsFit
<1>2. /\ IsFiniteSet(Connected(p)')
      /\ Cardinality(Connected(p)') <= Cardinality(Connected(p))
  BY <1>1, FS_Subset
<1>3. Cardinality(Connected(p)') \in Nat /\ Cardinality(Connected(p)) \in Nat
  BY <1>1, <1>2, FS_CardinalityType
<1> QED BY <1>1, <1>2, <1>3, TurnAssumption

LEMMA PoolsStay ==
  ASSUME PoolsFit, UNCHANGED phase
  PROVE  PoolsFit'
BY PoolsShrink DEF Connected

\* A move between two stages outside the lock leaves its queue alone.
LEMMA QueueStays ==
  ASSUME LockQueue, UNCHANGED <<waiting, holding>>,
         \A c \in Call : /\ phase'[c] = "lock" <=> phase[c] = "lock"
                         /\ phase'[c] = "held" <=> phase[c] = "held"
  PROVE  LockQueue'
BY DEF LockQueue

LEMMA MyTurnKeeps ==
  ASSUME TurnsIInv, NEW c \in Call, MyTurn(c) PROVE TurnsIInv'
<1>1. /\ phase[c] = "turn" /\ phase'[c] = "connect"
      /\ \A d \in Call : d # c => phase'[d] = phase[d]
  BY StageMoves DEF MyTurn, TurnsIInv, TurnTypes, Stage
<1>2. TurnTypes' /\ (\A d \in Call : TurnKept(d)') /\ Queued'
  <2>1. c \notin mine BY <1>1 DEF TurnsIInv, TurnKept
  <2> QED BY <2>1, CallMoves DEF MyTurn, turnVars, Stage, Over
<1>3. LockQueue' BY <1>1, QueueStays DEF TurnsIInv, MyTurn
<1>4. PoolsFit' BY <1>1, PoolsShrink DEF TurnsIInv, Connected
<1> QED BY <1>2, <1>3, <1>4 DEF TurnsIInv

LEMMA ExpireKeeps ==
  ASSUME TurnsIInv, NEW c \in Call, Expire(c) PROVE TurnsIInv'
<1>1. /\ phase[c] = "turn" /\ phase'[c] = "expired"
      /\ \A d \in Call : d # c => phase'[d] = phase[d]
  BY StageMoves DEF Expire, TurnsIInv, TurnTypes, Stage, Over
<1>2. TurnTypes' /\ (\A d \in Call : TurnKept(d)') /\ Queued'
  BY CallMoves DEF Expire, Release, Stage, Over
<1>3. LockQueue' BY <1>1, QueueStays DEF TurnsIInv, Expire
<1>4. PoolsFit' BY <1>1, PoolsShrink DEF TurnsIInv, Connected
<1> QED BY <1>2, <1>3, <1>4 DEF TurnsIInv

LEMMA ConnectFailsKeeps ==
  ASSUME TurnsIInv, NEW c \in Call, ConnectFails(c) PROVE TurnsIInv'
<1>1. /\ phase[c] = "connect" /\ phase'[c] = "failed"
      /\ \A d \in Call : d # c => phase'[d] = phase[d]
  BY StageMoves DEF ConnectFails, TurnsIInv, TurnTypes, Stage, Over
<1>2. TurnTypes' /\ (\A d \in Call : TurnKept(d)') /\ Queued'
  BY CallMoves DEF ConnectFails, Release, Stage, Over
<1>3. LockQueue' BY <1>1, QueueStays DEF TurnsIInv, ConnectFails
<1>4. PoolsFit' BY <1>1, PoolsShrink DEF TurnsIInv, Connected
<1> QED BY <1>2, <1>3, <1>4 DEF TurnsIInv

LEMMA ConnectKeeps ==
  ASSUME TurnsIInv, NEW c \in Call, Connect(c) PROVE TurnsIInv'
<1>1. /\ phase[c] = "connect" /\ phase'[c] = "lock"
      /\ \A d \in Call : d # c => phase'[d] = phase[d]
  BY StageMoves DEF Connect, TurnsIInv, TurnTypes, Stage
<1>2. TurnTypes' /\ (\A d \in Call : TurnKept(d)') /\ Queued'
  <2>1. c \notin mine /\ TurnBefore(c) BY <1>1 DEF TurnsIInv, TurnKept
  <2> QED BY <2>1, CallMoves DEF Connect, turnVars, Stage, Over
<1>3. LockQueue'
  <2>1. LockQueue /\ c \notin ToSet(waiting) BY <1>1 DEF TurnsIInv, LockQueue
  <2>2. /\ waiting' \in Seq(Call) /\ IsInjective(waiting')
        /\ ToSet(waiting') = ToSet(waiting) \cup {c}
    BY <2>1, RequestJoins DEF Connect, LockQueue
  <2>3. ToSet(waiting') = {d \in Call : phase'[d] = "lock"}
    BY <1>1, <2>1, <2>2 DEF LockQueue
  <2>4. holding' = {d \in Call : phase'[d] = "held"}
    BY <1>1, <2>1 DEF Connect, LockQueue
  <2> QED BY <2>2, <2>3, <2>4 DEF LockQueue
<1>4. ASSUME NEW p \in Process
      PROVE  IsFiniteSet(Connected(p)') /\ Cardinality(Connected(p)') <= PoolSize
  <2>1. IsFiniteSet(Connected(p)) /\ Cardinality(Connected(p)) <= PoolSize
    BY DEF TurnsIInv, PoolsFit
  <2>2. CASE p = ProcessOf[c]
    <3>1. Connected(p)' = Connected(p) \cup {c} BY <1>1, <2>2 DEF Connected
    <3>2. c \notin Connected(p) BY <1>1 DEF Connected
    <3>3. Cardinality(Connected(p)) < PoolSize BY <2>2 DEF Connect
    <3>4. /\ IsFiniteSet(Connected(p)')
          /\ Cardinality(Connected(p)') = Cardinality(Connected(p)) + 1
      BY <2>1, <3>1, <3>2, FS_AddElement
    <3>5. Cardinality(Connected(p)) \in Nat BY <2>1, FS_CardinalityType
    <3> QED BY <3>3, <3>4, <3>5, TurnAssumption
  <2>3. CASE p # ProcessOf[c]
    <3>1. Connected(p)' = Connected(p) BY <1>1, <2>3 DEF Connected
    <3> QED BY <2>1, <3>1
  <2> QED BY <2>2, <2>3
<1>5. PoolsFit' BY <1>4 DEF PoolsFit
<1> QED BY <1>2, <1>3, <1>5 DEF TurnsIInv

LEMMA GrantKeeps ==
  ASSUME TurnsIInv, NEW c \in Call, Grant(c) PROVE TurnsIInv'
<1>1. /\ phase[c] = "lock" /\ phase'[c] = "held"
      /\ \A d \in Call : d # c => phase'[d] = phase[d]
  BY StageMoves DEF Grant, TurnsIInv, TurnTypes, Stage
<1>2. TurnTypes' /\ (\A d \in Call : TurnKept(d)') /\ Queued'
  <2>1. c \notin mine /\ TurnBefore(c) BY <1>1 DEF TurnsIInv, TurnKept
  <2>2. c \in T1 => UNCHANGED mine BY TurnAssumption DEF Grant
  <2>3. UNCHANGED mine \/ Release(c) BY DEF Grant
  <2> QED BY <2>1, <2>2, <2>3, CallMoves DEF Grant, Stage, Over
<1>3. LockQueue'
  <2>1. LockQueue BY DEF TurnsIInv
  <2>2. /\ waiting' \in Seq(Call) /\ IsInjective(waiting')
        /\ ToSet(waiting') = ToSet(waiting) \ {c}
    BY <2>1, TailLeaves DEF Grant, LockQueue
  <2>3. ToSet(waiting') = {d \in Call : phase'[d] = "lock"}
    BY <1>1, <2>1, <2>2 DEF LockQueue
  <2>4. holding' = {d \in Call : phase'[d] = "held"}
    BY <1>1, <2>1 DEF Grant, LockQueue
  <2> QED BY <2>2, <2>3, <2>4 DEF LockQueue
<1>4. PoolsFit' BY <1>1, PoolsShrink DEF TurnsIInv, Connected
<1> QED BY <1>2, <1>3, <1>4 DEF TurnsIInv

LEMMA LockTimeoutKeeps ==
  ASSUME TurnsIInv, NEW c \in Call, LockTimeout(c) PROVE TurnsIInv'
<1>1. /\ phase[c] = "lock" /\ phase'[c] = "expired"
      /\ \A d \in Call : d # c => phase'[d] = phase[d]
  BY StageMoves DEF LockTimeout, TurnsIInv, TurnTypes, Stage, Over
<1>2. TurnTypes' /\ (\A d \in Call : TurnKept(d)') /\ Queued'
  BY CallMoves DEF LockTimeout, Release, Stage, Over
<1>3. LockQueue'
  <2>1. LockQueue BY DEF TurnsIInv
  <2>2. /\ waiting' \in Seq(Call) /\ IsInjective(waiting')
        /\ ToSet(waiting') = ToSet(waiting) \ {c}
    BY <2>1, RemovalLeaves DEF LockTimeout, LockQueue
  <2>3. ToSet(waiting') = {d \in Call : phase'[d] = "lock"}
    BY <1>1, <2>1, <2>2 DEF LockQueue
  <2>4. holding' = {d \in Call : phase'[d] = "held"}
    BY <1>1, <2>1 DEF LockTimeout, LockQueue
  <2> QED BY <2>2, <2>3, <2>4 DEF LockQueue
<1>4. PoolsFit' BY <1>1, PoolsShrink DEF TurnsIInv, Connected
<1> QED BY <1>2, <1>3, <1>4 DEF TurnsIInv

LEMMA FinishKeeps ==
  ASSUME TurnsIInv, NEW c \in Call, Finish(c) PROVE TurnsIInv'
<1>1. /\ phase[c] = "held" /\ phase'[c] = "done"
      /\ \A d \in Call : d # c => phase'[d] = phase[d]
  BY StageMoves DEF Finish, TurnsIInv, TurnTypes, Stage, Over
<1>2. TurnTypes' /\ (\A d \in Call : TurnKept(d)') /\ Queued'
  BY CallMoves DEF Finish, Release, Stage, Over
<1>3. LockQueue'
  <2>1. LockQueue BY DEF TurnsIInv
  <2>2. holding' = {d \in Call : phase'[d] = "held"}
    BY <1>1, <2>1 DEF Finish, LockQueue
  <2>3. ToSet(waiting') = {d \in Call : phase'[d] = "lock"}
    BY <1>1, <2>1 DEF Finish, LockQueue
  <2> QED BY <2>1, <2>2, <2>3 DEF Finish, LockQueue
<1>4. PoolsFit' BY <1>1, PoolsShrink DEF TurnsIInv, Connected
<1> QED BY <1>2, <1>3, <1>4 DEF TurnsIInv

-----------------------------------------------------------------------------
(* Steps of the chains.                                                    *)

\* The youngest arrival ranks above all, behind the turn the map remembered.
LEMMA ArriveKeeps ==
  ASSUME TurnsIInv, NEW c \in Call, Arrive(c) PROVE TurnsIInv'
<1>1. /\ phase' \in [Call -> Stage] /\ phase[c] = "new" /\ phase'[c] = "turn"
      /\ \A d \in Call : d # c => phase'[d] = phase[d]
  BY StageMoves DEF Arrive, TurnsIInv, TurnTypes, Stage
<1>2. /\ prev \in [Call -> Call \cup {None}] /\ last \in [Chain -> Call \cup {None}]
      /\ mine \subseteq Call /\ turned \subseteq mine
  BY DEF TurnsIInv, TurnTypes
<1>3. ChainOf(c) \in Chain BY TurnAssumption DEF ChainOf, Chain
<1>4. /\ prev' = [prev EXCEPT ![c] = last[ChainOf(c)]]
      /\ last' = [last EXCEPT ![ChainOf(c)] = c]
      /\ UNCHANGED <<mine, turned, waiting, holding>>
  BY DEF Arrive
<1>5. TurnTypes'
  <2>1. last[ChainOf(c)] \in Call \cup {None} BY <1>2, <1>3
  <2> QED BY <1>1, <1>2, <1>4, <2>1 DEF TurnTypes, Stage
<1>6. ASSUME NEW d \in Call PROVE TurnKept(d)'
  <2>1. TurnKept(d) BY DEF TurnsIInv
  <2>2. d # c => (TurnBefore(d)' <=> TurnBefore(d)) BY <1>2, <1>4 DEF TurnBefore
  <2>3. CASE d = c BY <1>1, <1>4, <2>1, <2>3 DEF TurnKept, Over
  <2>4. CASE d # c BY <1>1, <1>4, <2>1, <2>2, <2>4 DEF TurnKept
  <2> QED BY <2>3, <2>4
<1>7. LockQueue' BY <1>1, <1>4, QueueStays DEF TurnsIInv
<1>8. PoolsFit' BY <1>1, PoolsShrink DEF TurnsIInv, Connected
<1>9. Queued'
  <2>1. PICK rk \in [Call -> Nat], n \in Nat :
          /\ Ranked(rk, n) /\ \A d \in Call : Linked(rk, d)
          /\ \A k \in Chain : Youngest(rk, k)
          /\ ResolvedInOrder(rk)
    BY DEF TurnsIInv, Queued
  <2> DEFINE at == [rk EXCEPT ![c] = n]
  <2>2. at \in [Call -> Nat] /\ at[c] = n /\ \A d \in Call : d # c => at[d] = rk[d]
    OBVIOUS
  <2> HIDE DEF at
  <2>3. \A d \in Call : Arrived(d)' <=> Arrived(d) \/ d = c BY <1>1 DEF Arrived
  <2>4. \A d \in Call : Arrived(d) => d # c /\ rk[d] < n BY <1>1, <2>1 DEF Arrived, Ranked
  <2>5. ASSUME NEW d \in Call
        PROVE  /\ Older(at, d, c)' <=> Arrived(d) /\ ChainOf(d) = ChainOf(c)
               /\ \A e \in Call : e # c /\ Arrived(e) => (Older(at, d, e)' <=> Older(rk, d, e))
    <3>1. ~(n < n) /\ \A e \in Call : rk[e] \in Nat BY <2>1
    <3>2. \A e \in Call : Arrived(e) => rk[e] < n /\ ~(n < rk[e]) BY <2>1, <2>4, <3>1
    <3> QED BY <2>2, <2>3, <2>4, <3>1, <3>2 DEF Older
  <2>6. Ranked(at, n + 1)'
    <3>1. \A d \in Call : Arrived(d)' => at[d] < n + 1 BY <2>2, <2>3, <2>4
    <3>2. ASSUME NEW d \in Call, NEW e \in Call, Arrived(d)', Arrived(e)',
                 ChainOf(d) = ChainOf(e), at[d] = at[e]
          PROVE  d = e
      BY <2>1, <2>2, <2>3, <2>4, <3>2 DEF Ranked
    <3> QED BY <2>2, <3>1, <3>2 DEF Ranked
  <2>7. ASSUME NEW e \in Call, Arrived(e)' PROVE Linked(at, e)'
    <3>1. CASE e # c
      <4>1. Arrived(e) /\ Linked(rk, e) /\ prev'[e] = prev[e] BY <1>4, <2>1, <2>3, <2>7, <3>1
      <4>2. \A d \in Call : Older(at, d, e)' <=> Older(rk, d, e) BY <2>5, <3>1, <4>1
      <4>3. CASE prev[e] = None BY <1>4, <4>1, <4>2, <4>3 DEF Linked
      <4>4. CASE prev[e] # None
        <5>1. prev[e] \in Call /\ Older(rk, prev[e], e) BY <1>2, <4>1, <4>4 DEF Linked
        <5>2. prev[e] # c BY <2>4, <5>1 DEF Older
        <5>3. \A d \in Call : Older(rk, d, e) => at[d] = rk[d] /\ rk[d] <= rk[prev[e]]
          BY <2>2, <2>4, <4>1, <4>4 DEF Linked, Older
        <5>4. at[prev[e]] = rk[prev[e]] BY <2>2, <5>1, <5>2
        <5> QED BY <4>1, <4>2, <4>4, <5>1, <5>3, <5>4 DEF Linked
      <4> QED BY <4>3, <4>4
    <3>2. CASE e = c
      <4>1. prev'[c] = last[ChainOf(c)] /\ Youngest(rk, ChainOf(c)) BY <1>2, <1>3, <1>4, <2>1
      <4>2. CASE last[ChainOf(c)] = None
        BY <1>4, <2>5, <3>2, <4>1, <4>2 DEF Linked, Youngest
      <4>3. CASE last[ChainOf(c)] # None
        <5>1. PICK p \in Call : p = last[ChainOf(c)] BY <1>2, <1>3, <4>3
        <5>2. /\ Arrived(p) /\ ChainOf(p) = ChainOf(c) /\ p # None
              /\ \A d \in Call : Arrived(d) /\ ChainOf(d) = ChainOf(c) => rk[d] <= rk[p]
          BY <4>1, <4>3, <5>1 DEF Youngest
        <5>3. Older(at, p, c)' BY <2>5, <5>2
        <5>4. \A d \in Call : Older(at, d, c)' => at[d] <= at[p]
          BY <2>2, <2>4, <2>5, <5>2
        <5>5. prev'[c] = p BY <4>1, <5>1
        <5> QED BY <3>2, <5>2, <5>3, <5>4, <5>5 DEF Linked
      <4> QED BY <4>2, <4>3
    <3> QED BY <3>1, <3>2
  <2>8. ASSUME NEW k \in Chain PROVE Youngest(at, k)'
    <3>1. CASE k = ChainOf(c)
      <4>1. last'[k] = c /\ c # None BY <1>2, <1>4, <3>1, TurnAssumption
      <4>2. \A d \in Call : Arrived(d)' => at[d] <= at[c] BY <2>2, <2>3, <2>4
      <4> QED BY <2>3, <3>1, <4>1, <4>2 DEF Youngest
    <3>2. CASE k # ChainOf(c)
      <4>1. last'[k] = last[k] /\ Youngest(rk, k) BY <1>2, <1>4, <2>1, <3>2
      <4>2. \A d \in Call : ChainOf(d) = k => (Arrived(d)' <=> Arrived(d)) /\ at[d] = rk[d]
        BY <2>2, <2>3, <3>2
      <4>3. last[k] # None => last[k] \in Call BY <1>2
      <4> QED BY <1>4, <4>1, <4>2, <4>3 DEF Youngest
    <3> QED BY <3>1, <3>2
  <2>9. ResolvedInOrder(at)'
    <3>1. SUFFICES ASSUME NEW e \in turned, NEW d \in Call, Older(at, d, e)' PROVE d \in turned
      BY <1>4 DEF ResolvedInOrder
    <3>2. e \in Call /\ Arrived(e) /\ e # c
      BY <1>1, <1>2 DEF TurnsIInv, TurnKept, Arrived
    <3>3. Older(rk, d, e) BY <2>5, <3>1, <3>2
    <3> QED BY <2>1, <3>3 DEF ResolvedInOrder
  <2>10. \A e \in Call : Linked(at, e)' BY <2>7 DEF Linked
  <2> QED BY <2>2, <2>6, <2>8, <2>9, <2>10 DEF Queued
<1> QED BY <1>5, <1>6, <1>7, <1>8, <1>9 DEF TurnsIInv
\* Once the turn before a call is resolved, so is that of every older call of its chain.
LEMMA OlderAreTurned ==
  ASSUME TurnTypes, NEW rk \in [Call -> Nat], NEW n \in Nat, Ranked(rk, n), ResolvedInOrder(rk),
         NEW a \in Call, NEW b \in Call, Linked(rk, b),
         Older(rk, a, b), Arrived(b), TurnBefore(b)
  PROVE  a \in turned
<1>1. CASE prev[b] = None BY <1>1 DEF Linked
<1>2. CASE prev[b] # None
  <2>1. PICK p \in Call : p = prev[b] /\ p \in turned BY <1>2 DEF TurnBefore, TurnTypes
  <2>2. Older(rk, p, b) /\ rk[a] <= rk[p] BY <1>2, <2>1 DEF Linked
  <2>3. rk[a] \in Nat /\ rk[p] \in Nat OBVIOUS
  <2>4. CASE rk[a] = rk[p] BY <2>1, <2>2, <2>4 DEF Ranked, Older
  <2>5. CASE rk[a] < rk[p]
    <3>1. Older(rk, a, p) BY <2>2, <2>5 DEF Older
    <3> QED BY <2>1, <3>1 DEF ResolvedInOrder
  <2> QED BY <2>2, <2>3, <2>4, <2>5
<1> QED BY <1>1, <1>2

LEMMA ResolveKeeps ==
  ASSUME TurnsIInv, NEW c \in Call, Resolve(c) PROVE TurnsIInv'
<1>1. /\ turned' = turned \cup {c} /\ c \in mine /\ TurnBefore(c)
      /\ UNCHANGED <<phase, prev, last, mine, waiting, holding>>
  BY DEF Resolve
<1>2. TurnTypes' BY <1>1 DEF TurnsIInv, TurnTypes
<1>3. ASSUME NEW d \in Call PROVE TurnKept(d)'
  BY <1>1 DEF TurnsIInv, TurnKept, TurnBefore
<1>4. LockQueue' /\ PoolsFit'
  BY <1>1, PoolsStay, QueueStays DEF TurnsIInv
<1>5. PICK rk \in [Call -> Nat], n \in Nat :
        /\ Ranked(rk, n) /\ \A d \in Call : Linked(rk, d)
        /\ \A k \in Chain : Youngest(rk, k)
        /\ ResolvedInOrder(rk)
  BY DEF TurnsIInv, Queued
<1>6. \A d, e \in Call : Older(rk, d, e)' <=> Older(rk, d, e) BY <1>1 DEF Older, Arrived
<1>7. ASSUME NEW d \in Call, Older(rk, d, c) PROVE d \in turned
  <2>1. Arrived(c) /\ TurnTypes BY <1>1 DEF TurnsIInv, TurnKept, Arrived
  <2> QED BY <1>1, <1>5, <1>7, <2>1, OlderAreTurned
<1>8. ResolvedInOrder(rk)'
  <2>1. turned \subseteq Call BY DEF TurnsIInv, TurnTypes
  <2> QED BY <1>1, <1>5, <1>6, <1>7, <2>1 DEF ResolvedInOrder
<1>9. Ranked(rk, n)' BY <1>1, <1>5 DEF Ranked, Arrived
<1>10. ASSUME NEW d \in Call PROVE Linked(rk, d)'
  <2>1. prev[d] # None => prev[d] \in Call BY DEF TurnsIInv, TurnTypes
  <2>2. Linked(rk, d) BY <1>5
  <2> QED BY <1>1, <1>6, <2>1, <2>2 DEF Linked, Arrived
<1>11. ASSUME NEW k \in Chain PROVE Youngest(rk, k)'
  <2>1. Youngest(rk, k) BY <1>5
  <2> QED BY <1>1, <2>1 DEF Youngest, Arrived
<1>12. Queued' BY <1>8, <1>9, <1>10, <1>11 DEF Queued
<1> QED BY <1>2, <1>3, <1>4, <1>12 DEF TurnsIInv

\* A chain is forgotten when its youngest turn is resolved: then all of it is.
LEMMA ForgetKeeps ==
  ASSUME TurnsIInv, NEW c \in Call, Forget(c) PROVE TurnsIInv'
<1>1. /\ c \in turned /\ last[ChainOf(c)] = c
      /\ last' = [last EXCEPT ![ChainOf(c)] = None]
      /\ UNCHANGED <<phase, prev, mine, turned, waiting, holding>>
  BY DEF Forget, Forgettable
<1>2. TurnTypes' BY <1>1 DEF TurnsIInv, TurnTypes
<1>3. ASSUME NEW d \in Call PROVE TurnKept(d)'
  BY <1>1 DEF TurnsIInv, TurnKept, TurnBefore
<1>4. LockQueue' /\ PoolsFit'
  BY <1>1, PoolsStay, QueueStays DEF TurnsIInv
<1>5. PICK rk \in [Call -> Nat], n \in Nat :
        /\ Ranked(rk, n) /\ \A d \in Call : Linked(rk, d)
        /\ \A k \in Chain : Youngest(rk, k)
        /\ ResolvedInOrder(rk)
  BY DEF TurnsIInv, Queued
<1>6. \A d, e \in Call : Older(rk, d, e)' <=> Older(rk, d, e) BY <1>1 DEF Older, Arrived
<1>7. Ranked(rk, n)' BY <1>1, <1>5 DEF Ranked, Arrived
<1>8. ASSUME NEW d \in Call PROVE Linked(rk, d)'
  <2>1. prev[d] # None => prev[d] \in Call BY DEF TurnsIInv, TurnTypes
  <2>2. Linked(rk, d) BY <1>5
  <2> QED BY <1>1, <1>6, <2>1, <2>2 DEF Linked, Arrived
<1>9. ResolvedInOrder(rk)'
  <2>1. turned \subseteq Call BY DEF TurnsIInv, TurnTypes
  <2> QED BY <1>1, <1>5, <1>6, <2>1 DEF ResolvedInOrder
<1>10. ASSUME NEW k \in Chain PROVE Youngest(rk, k)'
  <2>1. Youngest(rk, k) /\ last \in [Chain -> Call \cup {None}]
    BY <1>5 DEF TurnsIInv, TurnTypes
  <2>2. CASE k # ChainOf(c)
    <3>1. last'[k] = last[k] BY <1>1, <2>1, <2>2
    <3> QED BY <1>1, <2>1, <3>1 DEF Youngest, Arrived
  <2>3. CASE k = ChainOf(c)
    <3>1. last'[k] = None BY <1>1, <2>1, <2>3
    <3>2. c # None BY TurnAssumption
    <3>3. ASSUME NEW d \in Call, Arrived(d), ChainOf(d) = k PROVE d \in turned
      <4>1. Arrived(c) /\ rk[d] <= rk[c] BY <1>1, <2>1, <2>3, <3>2, <3>3 DEF Youngest
      <4>2. CASE rk[d] = rk[c] BY <1>1, <1>5, <2>3, <3>3, <4>1, <4>2 DEF Ranked
      <4>3. CASE rk[d] < rk[c]
        <5>1. Older(rk, d, c) BY <2>3, <3>3, <4>3 DEF Older
        <5> QED BY <1>1, <1>5, <5>1 DEF ResolvedInOrder
      <4>4. rk[d] \in Nat /\ rk[c] \in Nat BY <1>5
      <4> QED BY <4>1, <4>2, <4>3, <4>4
    <3>4. \A d \in Call : (Arrived(d)' <=> Arrived(d)) BY <1>1 DEF Arrived
    <3> QED BY <1>1, <3>1, <3>3, <3>4 DEF Youngest
  <2> QED BY <2>2, <2>3
<1>11. Queued' BY <1>7, <1>8, <1>9, <1>10 DEF Queued
<1> QED BY <1>2, <1>3, <1>4, <1>11 DEF TurnsIInv

-----------------------------------------------------------------------------
(* The invariant and the promise.                                          *)

LEMMA TurnsInit == Init => TurnsIInv
<1> SUFFICES ASSUME Init PROVE TurnsIInv
  OBVIOUS
<1>1. TurnTypes BY DEF Init, TurnTypes
<1>2. LockQueue
  <2>1. waiting = <<>> /\ waiting \in Seq(Call) /\ Len(waiting) = 0 BY EmptySeq DEF Init
  <2>2. DOMAIN waiting = 1..0 BY <2>1, LenProperties
  <2>3. ToSet(waiting) = {} /\ IsInjective(waiting) BY <2>2 DEF ToSet, IsInjective
  <2> QED BY <2>1, <2>3 DEF Init, LockQueue
<1>3. PoolsFit
  <2>1. \A p \in Process : Connected(p) = {} BY DEF Init, Connected
  <2> QED BY <2>1, FS_EmptySet, TurnAssumption DEF PoolsFit
<1>4. \A c \in Call : TurnKept(c) BY DEF Init, TurnKept, Over
<1>5. Queued
  <2> DEFINE rk == [c \in Call |-> 0]
  <2>1. \A c \in Call : ~Arrived(c) BY DEF Init, Arrived
  <2>2. Ranked(rk, 0) BY <2>1 DEF Ranked
  <2>3. /\ \A c \in Call : Linked(rk, c)
        /\ \A k \in Chain : Youngest(rk, k)
        /\ ResolvedInOrder(rk)
    BY <2>1 DEF Init, Linked, Youngest, ResolvedInOrder
  <2>4. rk \in [Call -> Nat] OBVIOUS
  <2> HIDE DEF rk
  <2> QED BY <2>2, <2>3, <2>4 DEF Queued
<1> QED BY <1>1, <1>2, <1>3, <1>4, <1>5 DEF TurnsIInv

LEMMA TurnsNext == TurnsIInv /\ [Next]_vars => TurnsIInv'
<1> SUFFICES ASSUME TurnsIInv, [Next]_vars PROVE TurnsIInv'
  OBVIOUS
<1>1. ASSUME NEW c \in Call, Step(c) PROVE TurnsIInv'
  BY <1>1, ArriveKeeps, MyTurnKeeps, ExpireKeeps, ConnectKeeps, ConnectFailsKeeps,
     GrantKeeps, LockTimeoutKeeps, FinishKeeps, ResolveKeeps, ForgetKeeps DEF Step
<1>2. CASE UNCHANGED vars
  <2>1. Queued' /\ TurnTypes' /\ \A c \in Call : TurnKept(c)'
    BY <1>2, ChainsStay DEF vars, turnVars, Arrived, TurnsIInv, TurnTypes, TurnKept, TurnBefore
  <2>2. LockQueue' /\ PoolsFit' BY <1>2, QueueStays, PoolsStay DEF vars, TurnsIInv
  <2> QED BY <2>1, <2>2 DEF TurnsIInv
<1> QED BY <1>1, <1>2 DEF Next

\* Of two calls of a chain, the older has given its turn up before the younger connects.
LEMMA HeadsAreAlone ==
  ASSUME TurnsIInv, NEW c \in Call, NEW d \in Call, c # d, ChainOf(c) = ChainOf(d),
         c \notin mine, Arrived(c), TurnBefore(c),
         d \notin mine, Arrived(d), TurnBefore(d)
  PROVE  FALSE
<1>1. PICK rk \in [Call -> Nat], n \in Nat :
        /\ Ranked(rk, n) /\ \A e \in Call : Linked(rk, e)
        /\ ResolvedInOrder(rk)
  BY DEF TurnsIInv, Queued
<1>2. TurnTypes /\ turned \subseteq mine BY DEF TurnsIInv, TurnTypes
<1>3. \A a, b \in Call : Older(rk, a, b) /\ Arrived(b) /\ TurnBefore(b) => a \in turned
  BY <1>1, <1>2, OlderAreTurned
<1>4. rk[c] \in Nat /\ rk[d] \in Nat /\ rk[c] # rk[d] BY <1>1 DEF Ranked
<1>5. CASE rk[c] < rk[d]
  <2>1. Older(rk, c, d) BY <1>5 DEF Older
  <2> QED BY <1>2, <1>3, <2>1
<1>6. CASE rk[d] < rk[c]
  <2>1. Older(rk, d, c) BY <1>6 DEF Older
  <2> QED BY <1>2, <1>3, <2>1
<1> QED BY <1>4, <1>5, <1>6

\* Some natural number of a set is the smallest.
LEMMA SmallestOf ==
  ASSUME NEW T, T \subseteq Nat, T # {}
  PROVE  \E x \in T : \A y \in T : x <= y
<1>1. PICK x \in T : \A y \in T : <<y, x>> \notin OpToRel(<, Nat)
  BY WFMin, NatLessThanWellFounded, Zenon
<1>2. ASSUME NEW y \in T PROVE ~(y < x)
  BY <1>1, Zenon DEF OpToRel
<1>3. \A y \in T : x <= y BY <1>2
<1> QED BY <1>3

\* The oldest call of a chain whose turn is not resolved has its turn.
LEMMA OldestHasItsTurn ==
  ASSUME TurnsIInv, NEW c \in Call, Arrived(c), c \notin turned
  PROVE  \E d \in Call : /\ ChainOf(d) = ChainOf(c) /\ Arrived(d)
                         /\ d \notin turned /\ TurnBefore(d)
<1>1. PICK rk \in [Call -> Nat], n \in Nat :
        /\ Ranked(rk, n) /\ \A e \in Call : Linked(rk, e)
        /\ ResolvedInOrder(rk)
  BY DEF TurnsIInv, Queued
<1> DEFINE Open == {e \in Call : ChainOf(e) = ChainOf(c) /\ Arrived(e) /\ e \notin turned}
<1>2. PICK d \in Open : \A e \in Open : rk[d] <= rk[e]
  <2> DEFINE T == {rk[e] : e \in Open}
  <2>1. T \subseteq Nat /\ T # {} OBVIOUS
  <2> HIDE DEF T
  <2>2. PICK x \in T : \A y \in T : x <= y BY <2>1, SmallestOf
  <2> QED BY <2>2 DEF T
<1>3. ASSUME NEW e \in Call, Older(rk, e, d) PROVE e \in turned
  <2>1. e \notin Open
    <3>1. rk[e] \in Nat /\ rk[d] \in Nat /\ rk[e] < rk[d] BY <1>3 DEF Older
    <3> QED BY <1>2, <3>1
  <2> QED BY <1>3, <2>1 DEF Older
<1>4. TurnBefore(d)
  <2>1. prev[d] # None => prev[d] \in Call BY DEF TurnsIInv, TurnTypes
  <2> QED BY <1>1, <1>3, <2>1 DEF Linked, TurnBefore
<1> QED BY <1>4

\* It goes on by itself, or is on its way to the lock.
LEMMA ChainGoesOn ==
  ASSUME TurnsIInv, NEW c \in Call, phase[c] = "turn"
  PROVE  \E d \in Call : /\ ChainOf(d) = ChainOf(c)
                         /\ (CanGoOn(d) \/ phase[d] \in {"connect", "lock"})
<1>1. c \notin turned /\ Arrived(c)
  BY DEF TurnsIInv, TurnTypes, TurnKept, Arrived
<1>2. PICK d \in Call : /\ ChainOf(d) = ChainOf(c) /\ Arrived(d)
                       /\ d \notin turned /\ TurnBefore(d)
  BY <1>1, OldestHasItsTurn
<1>3. phase[d] \in {"turn", "connect", "lock", "held"} \cup Over
  BY <1>2 DEF TurnsIInv, TurnTypes, Arrived
<1>4. phase[d] \in Over => d \in mine BY DEF TurnsIInv, TurnKept
<1> QED BY <1>2, <1>3, <1>4 DEF CanGoOn

\* The head of the lock's queue is granted, or a holder ends.
LEMMA LockGoesOn ==
  ASSUME TurnsIInv, NEW c \in Call, phase[c] \in {"lock", "held"}
  PROVE  \E d \in Call : CanGoOn(d)
<1>1. LockQueue BY DEF TurnsIInv
<1>2. CASE \E d \in Call : phase[d] = "held" BY <1>2 DEF CanGoOn
<1>3. CASE ~\E d \in Call : phase[d] = "held"
  <2>1. holding = {} /\ c \in ToSet(waiting) BY <1>1, <1>3 DEF LockQueue
  <2>2. waiting # <<>> /\ Head(waiting) \in Call
    <3>1. waiting \in Seq(Call) BY <1>1 DEF LockQueue
    <3>2. ToSet(waiting) = {waiting[i] : i \in 1..Len(waiting)} BY <3>1, ToSetIs
    <3>3. Len(waiting) # 0 BY <2>1, <3>1, <3>2, LenProperties
    <3> QED BY <3>1, <3>3, EmptySeq, HeadTailProperties
  <2> QED BY <2>1, <2>2 DEF CanGoOn, Compatible
<1> QED BY <1>2, <1>3

\* A full pool belongs to calls that await or hold the lock.
LEMMA PoolGoesOn ==
  ASSUME TurnsIInv, NEW c \in Call, phase[c] = "connect"
  PROVE  \E d \in Call : CanGoOn(d)
<1> DEFINE pool == Connected(ProcessOf[c])
<1>1. IsFiniteSet(pool) /\ Cardinality(pool) <= PoolSize
  BY TurnAssumption DEF TurnsIInv, PoolsFit
<1>2. CASE pool = {}
  <2>1. Cardinality(pool) < PoolSize BY <1>2, FS_EmptySet, TurnAssumption
  <2> QED BY <2>1 DEF CanGoOn
<1>3. CASE pool # {}
  <2>1. PICK d \in pool : TRUE BY <1>3
  <2>2. d \in Call /\ phase[d] \in {"lock", "held"} BY DEF Connected
  <2> QED BY <2>2, LockGoesOn
<1> QED BY <1>2, <1>3

LEMMA SomeCallGoesOn == TurnsIInv => NobodyIsStuck
<1> SUFFICES ASSUME TurnsIInv, NEW c \in Call, phase[c] \in {"turn", "connect", "lock"}
             PROVE  /\ phase[c] = "turn"
                         => \E d \in Call : /\ ChainOf(d) = ChainOf(c)
                                            /\ (CanGoOn(d) \/ phase[d] \in {"connect", "lock"})
                    /\ \E d \in Call : CanGoOn(d)
  BY DEF NobodyIsStuck
<1>1. CASE phase[c] = "turn"
  <2>1. PICK d \in Call : /\ ChainOf(d) = ChainOf(c)
                         /\ (CanGoOn(d) \/ phase[d] \in {"connect", "lock"})
    BY <1>1, ChainGoesOn
  <2> QED BY <2>1, PoolGoesOn, LockGoesOn
<1>2. CASE phase[c] = "connect" BY <1>2, PoolGoesOn
<1>3. CASE phase[c] = "lock" BY <1>3, LockGoesOn
<1> QED BY <1>1, <1>2, <1>3

LEMMA TurnsKept == TurnsIInv => TurnsInv
<1> SUFFICES ASSUME TurnsIInv PROVE TurnsInv
  OBVIOUS
<1>1. TypeOK BY DEF TurnsIInv, TurnTypes, LockQueue, PoolsFit, TypeOK
<1>2. ASSUME NEW c \in Call, NEW d \in Call, c # d, ChainOf(c) = ChainOf(d),
             phase[c] \in {"connect", "lock"},
             phase[d] \in {"connect", "lock"} \cup IF c \in T1 THEN {"held"} ELSE {}
      PROVE  FALSE
  <2>1. c \in T1 <=> d \in T1 BY <1>2 DEF ChainOf
  <2>2. TurnKept(c) /\ TurnKept(d) BY DEF TurnsIInv
  <2>3. c \notin mine /\ TurnBefore(c) BY <1>2, <2>2 DEF TurnKept
  <2>4. d \notin mine /\ TurnBefore(d) BY <1>2, <2>1, <2>2 DEF TurnKept
  <2>5. Arrived(c) /\ Arrived(d) BY <1>2 DEF Arrived
  <2> QED BY <1>2, <2>3, <2>4, <2>5, HeadsAreAlone
<1> QED BY <1>1, <1>2, SomeCallGoesOn DEF TurnsInv, OnlyHeadsConnect

\* Types, the order of PostgreSQL's queue, the pools' limits and the turns' promise (t1 and
\* writeReferencedCIs), and that turns, pools and the lock never deadlock, for any number
\* of calls and processes.
THEOREM TurnsAreExclusive == Spec => []TurnsInv
<1>1. Spec => []TurnsIInv BY TurnsInit, TurnsNext, PTL DEF Spec
<1> QED BY <1>1, TurnsKept, PTL

\* Alone, the absence of deadlock: the turns of t1 and writeReferencedCIs, the pools' limit
\* and PostgreSQL's queue for the lock leave some call a step that is not a timeout.
THEOREM CallsNeverDeadlock == Spec => []NobodyIsStuck
BY TurnsAreExclusive, PTL DEF TurnsInv
=============================================================================
