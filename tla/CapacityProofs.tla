--------------------------- MODULE CapacityProofs ---------------------------
(***************************************************************************)
(* The two limiters of an API process whose slots outlive their askers:    *)
(* WorkSlots and Sockets, for any number of requests, keys, buckets,       *)
(* sockets, users and organizations.                                       *)
(*                                                                         *)
(* WorkSlots: the strengthening adds that no bucket counts more than its   *)
(* limit, that each map stores finitely many buckets, and that work that   *)
(* runs still holds its slots; a search (Entered) keeps all of it, since   *)
(* it evicts only buckets nobody holds.                                    *)
(*                                                                         *)
(* Sockets: the strengthening says which lookups the two counters stand    *)
(* for, that the queue and the lookups of a tick are exactly its           *)
(* unresolved users, and that nothing a tick may still judge by was read   *)
(* before the tick began.  The last is why a tick decides: neither its own *)
(* lookups nor the upgrade of a socket it saw can be older than itself.    *)
(***************************************************************************)
EXTENDS WorkSlots, Sockets, TLAPS, FiniteSetTheorems, FunctionTheorems, SequenceTheorems

-----------------------------------------------------------------------------
(* WorkSlots: the strengthening.                                           *)

HoldingIn(h, k) == {r \in h : k \in KeysOf(r)}

Counts(b, h, k) ==
  IF b[k] = Absent THEN HoldingIn(h, k) = {}
  ELSE b[k].active = Cardinality(HoldingIn(h, k)) /\ b[k].active <= MaxActive[k]

Stores == {StoreOf[k] : k \in Key}

Small(b, s) == IsFiniteSet(Stored(b, s)) /\ Cardinality(Stored(b, s)) <= MaxKeys

BucketsOk(b, h) ==
  /\ b \in [Key -> Bucket \cup {Absent}]
  /\ \A k \in Key : Counts(b, h, k)
  /\ \A s \in Stores : Small(b, s)

WorkHolds ==
  \A r \in Request : /\ phase[r] = "started" => r \in held
                     /\ phase[r] = "admitted" /\ r \notin closed => r \in held
                     /\ phase[r] \in {"new", "refused"} => r \notin held

SlotsIInv ==
  /\ phase \in [Request -> Phase] /\ closed \subseteq Request /\ held \subseteq Request
  /\ IsFiniteSet(held) /\ WorkHolds /\ BucketsOk(bucket, held)

-----------------------------------------------------------------------------
(* The maps.                                                               *)

LEMMA AbsentIsNoBucket == Absent \notin Bucket
<1> SUFFICES ASSUME Absent \in Bucket PROVE FALSE
  OBVIOUS
<1>1. DOMAIN Absent = {"elapsed", "count", "active"}
  BY DEF Bucket
<1>2. "absent" \in DOMAIN Absent
  BY DEF Absent
<1> QED BY <1>1, <1>2

LEMMA HoldersAreFinite ==
  ASSUME NEW h, IsFiniteSet(h), NEW k
  PROVE  IsFiniteSet(HoldingIn(h, k)) /\ Cardinality(HoldingIn(h, k)) \in Nat
<1>1. HoldingIn(h, k) \in SUBSET h
  BY DEF HoldingIn
<1> QED BY <1>1, FS_Subset, FS_CardinalityType

\* Eviction forgets only buckets nobody holds.
LEMMA EvictionIsSafe ==
  ASSUME NEW b, NEW h, IsFiniteSet(h), BucketsOk(b, h), NEW s
  PROVE  BucketsOk(Evicted(b, s), h)
<1> DEFINE e == Evicted(b, s)
<1>1. e \in [Key -> Bucket \cup {Absent}]
  BY DEF Evicted, BucketsOk
<1>2. ASSUME NEW k \in Key PROVE Counts(e, h, k)
  <2>1. Counts(b, h, k) BY DEF BucketsOk
  <2>2. CASE StoreOf[k] = s /\ Idle(b, k)
    <3>1. e[k] = Absent BY <2>2 DEF Evicted
    <3>2. Cardinality(HoldingIn(h, k)) = 0 BY <2>1, <2>2 DEF Idle, Counts
    <3>3. HoldingIn(h, k) = {} BY <3>2, HoldersAreFinite, FS_EmptySet
    <3> QED BY <3>1, <3>3 DEF Counts
  <2>3. CASE ~(StoreOf[k] = s /\ Idle(b, k))
    BY <2>1, <2>3 DEF Counts, Evicted
  <2> QED BY <2>2, <2>3
<1>3. ASSUME NEW t \in Stores PROVE Small(e, t)
  <2>1. Small(b, t) BY DEF BucketsOk
  <2>2. Stored(e, t) \in SUBSET Stored(b, t) BY DEF Stored, Evicted
  <2>3. /\ IsFiniteSet(Stored(e, t))
        /\ Cardinality(Stored(e, t)) <= Cardinality(Stored(b, t))
    BY <2>1, <2>2, FS_Subset DEF Small
  <2> QED BY <2>1, <2>3, FS_CardinalityType, SlotsAssumption DEF Small
<1> QED BY <1>1, <1>2, <1>3 DEF BucketsOk

\* A bucket that is renewed or inserted keeps every count; one is inserted only in
\* a map that has room.
LEMMA InsertIsSafe ==
  ASSUME NEW b, NEW h, IsFiniteSet(h), BucketsOk(b, h), NEW k \in Key,
         b[k] = Absent => ~Full(b, k),
         NEW v \in Bucket,
         v.active = IF b[k] = Absent THEN 0 ELSE b[k].active
  PROVE  BucketsOk([b EXCEPT ![k] = v], h)
<1> DEFINE n == [b EXCEPT ![k] = v]
<1>0. b \in [Key -> Bucket \cup {Absent}] BY DEF BucketsOk
<1>v. v # Absent BY AbsentIsNoBucket
<1>1. n \in [Key -> Bucket \cup {Absent}] BY <1>0
<1>2. ASSUME NEW j \in Key PROVE Counts(n, h, j)
  <2>1. Counts(b, h, j) BY DEF BucketsOk
  <2>2. CASE j # k BY <1>0, <2>1, <2>2 DEF Counts
  <2>3. CASE j = k /\ b[k] # Absent BY <1>0, <1>v, <2>1, <2>3 DEF Counts
  <2>4. CASE j = k /\ b[k] = Absent
    <3>1. Cardinality(HoldingIn(h, k)) = 0 BY <2>1, <2>4, FS_EmptySet DEF Counts
    <3>2. n[k].active = 0 /\ n[k] # Absent BY <1>0, <1>v, <2>4
    <3> QED BY <2>4, <3>1, <3>2, SlotsAssumption DEF Counts
  <2> QED BY <2>2, <2>3, <2>4
<1>3. ASSUME NEW t \in Stores PROVE Small(n, t)
  <2>1. Small(b, t) BY DEF BucketsOk
  <2>2. CASE b[k] # Absent \/ StoreOf[k] # t
    <3>1. Stored(n, t) = Stored(b, t) BY <1>0, <1>v, <2>2 DEF Stored
    <3> QED BY <2>1, <3>1 DEF Small
  <2>3. CASE b[k] = Absent /\ StoreOf[k] = t
    <3>1. Stored(n, t) = Stored(b, t) \cup {k} BY <1>0, <1>v, <2>3 DEF Stored
    <3>2. ~(Cardinality(Stored(b, t)) >= MaxKeys) BY <2>3 DEF Full
    <3>3. k \notin Stored(b, t) BY <2>3 DEF Stored
    <3>4. IsFiniteSet(Stored(b, t)) BY <2>1 DEF Small
    <3>5. /\ IsFiniteSet(Stored(n, t))
          /\ Cardinality(Stored(n, t)) = Cardinality(Stored(b, t)) + 1
      BY <3>1, <3>3, <3>4, FS_AddElement
    <3>6. Cardinality(Stored(b, t)) \in Nat BY <3>4, FS_CardinalityType
    <3> QED BY <3>2, <3>5, <3>6, SlotsAssumption DEF Small
  <2> QED BY <2>2, <2>3
<1> QED BY <1>1, <1>2, <1>3 DEF BucketsOk

\* The room a search makes, and the bucket it leaves in it.
Room(b, k) == IF b[k] = Absent /\ Full(b, k) THEN Evicted(b, StoreOf[k]) ELSE b

Renewed(v) == IF v = Absent THEN Fresh
              ELSE IF v.elapsed THEN [v EXCEPT !.elapsed = FALSE, !.count = 0] ELSE v

LEMMA EnteredIs ==
  ASSUME NEW b, NEW k
  PROVE  Entered(b, k) = IF Room(b, k)[k] = Absent /\ Full(Room(b, k), k) THEN Room(b, k)
                         ELSE [Room(b, k) EXCEPT ![k] = Renewed(@)]
BY DEF Entered, Room, Renewed

LEMMA RenewedIsABucket ==
  ASSUME NEW v \in Bucket \cup {Absent}
  PROVE  /\ Renewed(v) \in Bucket
         /\ Renewed(v).active = IF v = Absent THEN 0 ELSE v.active
         /\ Renewed(v).elapsed = FALSE
<1>1. CASE v = Absent BY <1>1 DEF Renewed, Fresh, Bucket
<1>2. CASE v # Absent
  <2>1. v \in Bucket BY <1>2
  <2> QED BY <1>2, <2>1 DEF Renewed, Bucket
<1> QED BY <1>1, <1>2

LEMMA SearchIsSafe ==
  ASSUME NEW b, NEW h, IsFiniteSet(h), BucketsOk(b, h), NEW k \in Key
  PROVE  /\ BucketsOk(Entered(b, k), h)
         /\ Entered(b, k)[k] # Absent => Entered(b, k)[k].elapsed = FALSE
         /\ \A j \in Key : j # k /\ ~Idle(b, j) => Entered(b, k)[j] = b[j]
<1> DEFINE room == Room(b, k)
<1>1. BucketsOk(room, h) BY EvictionIsSafe DEF Room
<1>2. room \in [Key -> Bucket \cup {Absent}] BY <1>1 DEF BucketsOk
<1>3. \A j \in Key : ~Idle(b, j) => room[j] = b[j] BY DEF Room, Evicted
<1>4. CASE room[k] = Absent /\ Full(room, k)
  <2>1. Entered(b, k) = room BY <1>4, EnteredIs
  <2> QED BY <1>1, <1>3, <1>4, <2>1
<1>5. CASE ~(room[k] = Absent /\ Full(room, k))
  <2>1. Entered(b, k) = [room EXCEPT ![k] = Renewed(room[k])] BY <1>5, EnteredIs
  <2>2. /\ Renewed(room[k]) \in Bucket
        /\ Renewed(room[k]).active = IF room[k] = Absent THEN 0 ELSE room[k].active
        /\ Renewed(room[k]).elapsed = FALSE
    BY <1>2, RenewedIsABucket
  <2>3. room[k] = Absent => ~Full(room, k) BY <1>5
  <2> HIDE DEF room
  <2>4. BucketsOk([room EXCEPT ![k] = Renewed(room[k])], h)
    BY <1>1, <2>2, <2>3, InsertIsSafe
  <2> QED BY <1>2, <1>3, <2>1, <2>2, <2>4
<1> QED BY <1>4, <1>5

-----------------------------------------------------------------------------
(* Reservation and release.                                                *)

LEMMA KeysOfRequest ==
  ASSUME NEW r \in Request
  PROVE  OrgKey[r] \in Key /\ UserKey[r] \in Key /\ OrgKey[r] # UserKey[r]
BY SlotsAssumption

\* The two searches of a reservation; when both find room, both buckets are there
\* below their limits.
LEMMA ReservationFinds ==
  ASSUME NEW r \in Request, SlotsIInv
  PROVE  /\ BucketsOk(AfterUser(r), held)
         /\ Admissible(r) => \A k \in KeysOf(r) : /\ AfterUser(r)[k] # Absent
                                                  /\ AfterUser(r)[k].active < MaxActive[k]
<1> DEFINE b1 == AfterOrg(r)
           b2 == Entered(b1, UserKey[r])
<1>1. BucketsOk(bucket, held) /\ IsFiniteSet(held) BY DEF SlotsIInv
<1>2. /\ BucketsOk(b1, held)
      /\ b1[OrgKey[r]] # Absent => b1[OrgKey[r]].elapsed = FALSE
  BY <1>1, SearchIsSafe, KeysOfRequest DEF AfterOrg
<1> HIDE DEF b1
<1>3. /\ BucketsOk(b2, held)
      /\ \A j \in Key : j # UserKey[r] /\ ~Idle(b1, j) => b2[j] = b1[j]
  BY <1>1, <1>2, SearchIsSafe, KeysOfRequest
<1> HIDE DEF b2
<1>4. AfterUser(r) = IF OrgRoom(r) THEN b2 ELSE b1 BY DEF AfterUser, b1, b2
<1>5. ASSUME Admissible(r), NEW k \in KeysOf(r)
      PROVE  AfterUser(r)[k] # Absent /\ AfterUser(r)[k].active < MaxActive[k]
  <2>1. OrgRoom(r) /\ AfterUser(r) = b2 BY <1>4, <1>5 DEF Admissible
  <2>2. CASE k = UserKey[r] BY <1>5, <2>2 DEF Admissible, HasRoom
  <2>3. CASE k = OrgKey[r]
    <3>1. b1[k] # Absent /\ b1[k].active < MaxActive[k]
      BY <2>1, <2>3 DEF OrgRoom, HasRoom, b1
    <3>2. ~Idle(b1, k) BY <1>2, <2>3, <3>1 DEF Idle
    <3>3. b2[k] = b1[k] BY <1>3, <2>3, <3>2, KeysOfRequest
    <3> QED BY <2>1, <3>1, <3>3
  <2> QED BY <2>2, <2>3 DEF KeysOf
<1> QED BY <1>2, <1>3, <1>4, <1>5
\* An admitted request takes one slot of both its buckets.
LEMMA AdmissionCounts ==
  ASSUME NEW r \in Request, SlotsIInv, Admit(r)
  PROVE  BucketsOk(bucket', held') /\ IsFiniteSet(held')
<1> DEFINE b == AfterUser(r)
<1>1. /\ BucketsOk(b, held) /\ IsFiniteSet(held) /\ r \notin held
      /\ \A k \in KeysOf(r) : b[k] # Absent /\ b[k].active < MaxActive[k]
  BY ReservationFinds DEF Admit, SlotsIInv, WorkHolds
<1>2. /\ held' = held \cup {r}
      /\ bucket' = [k \in Key |-> IF k \in KeysOf(r)
                      THEN [b[k] EXCEPT !.count = IF r \in Analysis THEN @ + 1 ELSE @,
                                        !.active = @ + 1]
                      ELSE b[k]]
  BY DEF Admit
<1> HIDE DEF b
<1>3. IsFiniteSet(held') BY <1>1, <1>2, FS_AddElement
<1>4. b \in [Key -> Bucket \cup {Absent}] BY <1>1 DEF BucketsOk
<1>5. ASSUME NEW k \in Key, k \in KeysOf(r)
      PROVE  bucket'[k] \in Bucket /\ bucket'[k].active = b[k].active + 1
  <2>1. b[k] \in Bucket BY <1>1, <1>4, <1>5
  <2> DEFINE count == IF r \in Analysis THEN b[k].count + 1 ELSE b[k].count
  <2>2. bucket'[k] = [[b[k] EXCEPT !.count = count] EXCEPT !.active = b[k].active + 1]
    BY <1>2, <1>5, <2>1 DEF Bucket
  <2>3. b[k].count \in Nat /\ b[k].active \in Nat BY <2>1 DEF Bucket
  <2>4. count \in Nat BY <2>3
  <2> HIDE DEF count
  <2>5. b[k] = [elapsed |-> b[k].elapsed, count |-> b[k].count, active |-> b[k].active]
    BY <2>1 DEF Bucket
  <2>6. bucket'[k] = [elapsed |-> b[k].elapsed, count |-> count, active |-> b[k].active + 1]
    BY <2>2, <2>5
  <2>7. b[k].elapsed \in BOOLEAN /\ b[k].active + 1 \in Nat BY <2>1, <2>3 DEF Bucket
  <2> QED BY <2>4, <2>6, <2>7 DEF Bucket
<1>6. \A k \in Key : k \notin KeysOf(r) => bucket'[k] = b[k] BY <1>2
<1>7. bucket' \in [Key -> Bucket \cup {Absent}]
  <2>1. \A k \in Key : bucket'[k] \in Bucket \cup {Absent} BY <1>4, <1>5, <1>6
  <2> QED BY <1>2, <2>1
<1>8. ASSUME NEW k \in Key PROVE Counts(bucket', held', k)
  <2>1. Counts(b, held, k) BY <1>1 DEF BucketsOk
  <2>2. CASE k \in KeysOf(r)
    <3>1. HoldingIn(held', k) = HoldingIn(held, k) \cup {r} BY <1>2, <2>2 DEF HoldingIn
    <3>2. r \notin HoldingIn(held, k) BY <1>1 DEF HoldingIn
    <3>3. IsFiniteSet(HoldingIn(held, k)) /\ Cardinality(HoldingIn(held, k)) \in Nat
      BY <1>1, HoldersAreFinite
    <3>4. Cardinality(HoldingIn(held', k)) = Cardinality(HoldingIn(held, k)) + 1
      BY <3>1, <3>2, <3>3, FS_AddElement
    <3>5. bucket'[k] # Absent BY <1>5, <2>2, AbsentIsNoBucket
    <3>6. b[k].active = Cardinality(HoldingIn(held, k)) /\ b[k].active < MaxActive[k]
      BY <1>1, <2>1, <2>2 DEF Counts
    <3>7. MaxActive[k] \in Nat BY SlotsAssumption
    <3>8. bucket'[k].active = b[k].active + 1 BY <1>5, <2>2
    <3> QED BY <3>3, <3>4, <3>5, <3>6, <3>7, <3>8 DEF Counts
  <2>3. CASE k \notin KeysOf(r)
    <3>1. HoldingIn(held', k) = HoldingIn(held, k) BY <1>2, <2>3 DEF HoldingIn
    <3> QED BY <1>6, <2>1, <2>3, <3>1 DEF Counts
  <2> QED BY <2>2, <2>3
<1>9. ASSUME NEW s \in Stores PROVE Small(bucket', s)
  <2>1. \A k \in Key : bucket'[k] # Absent <=> b[k] # Absent
    BY <1>1, <1>5, <1>6, AbsentIsNoBucket
  <2>2. Stored(bucket', s) = Stored(b, s) BY <2>1 DEF Stored
  <2> QED BY <1>1, <2>2 DEF BucketsOk, Small
<1> QED BY <1>3, <1>7, <1>8, <1>9 DEF BucketsOk

\* A release gives back exactly what its request holds.
LEMMA ReleaseCounts ==
  ASSUME NEW r \in Request, BucketsOk(bucket, held), IsFiniteSet(held), Release(r)
  PROVE  BucketsOk(bucket', held') /\ IsFiniteSet(held')
<1>1. IsFiniteSet(held') BY FS_RemoveElement DEF Release
<1>2. bucket \in [Key -> Bucket \cup {Absent}] BY DEF BucketsOk
<1> DEFINE Touched(k) == r \in held /\ k \in KeysOf(r) /\ bucket[k] # Absent
<1>3. ASSUME NEW k \in Key, Touched(k)
      PROVE  /\ Cardinality(HoldingIn(held', k)) = Cardinality(HoldingIn(held, k)) - 1
             /\ bucket'[k] \in Bucket
             /\ bucket'[k].active = bucket[k].active - 1
  <2>1. Counts(bucket, held, k) BY DEF BucketsOk
  <2>2. bucket[k] \in Bucket BY <1>2, <1>3
  <2>3. bucket'[k] = [bucket[k] EXCEPT !.active = @ - 1] BY <1>3 DEF Release
  <2>4. HoldingIn(held', k) = HoldingIn(held, k) \ {r} BY DEF Release, HoldingIn
  <2>5. r \in HoldingIn(held, k) BY <1>3 DEF HoldingIn
  <2>6. IsFiniteSet(HoldingIn(held, k)) /\ Cardinality(HoldingIn(held, k)) \in Nat
    BY HoldersAreFinite
  <2>7. Cardinality(HoldingIn(held, k)) # 0 BY <2>5, <2>6, FS_EmptySet
  <2>8. Cardinality(HoldingIn(held', k)) = Cardinality(HoldingIn(held, k)) - 1
    BY <2>4, <2>5, <2>6, FS_RemoveElement
  <2>9. bucket[k].active = Cardinality(HoldingIn(held, k)) BY <1>3, <2>1 DEF Counts
  <2> QED BY <2>2, <2>3, <2>6, <2>7, <2>8, <2>9 DEF Bucket
<1>4. \A k \in Key : ~Touched(k) => bucket'[k] = bucket[k] BY DEF Release
<1>5. bucket' \in [Key -> Bucket \cup {Absent}]
  <2>1. \A k \in Key : bucket'[k] \in Bucket \cup {Absent} BY <1>2, <1>3, <1>4
  <2> QED BY <2>1 DEF Release
<1>6. ASSUME NEW k \in Key PROVE Counts(bucket', held', k)
  <2>1. Counts(bucket, held, k) BY DEF BucketsOk
  <2>2. CASE Touched(k)
    <3>1. bucket'[k] # Absent BY <1>3, <2>2, AbsentIsNoBucket
    <3>2. bucket[k] \in Bucket /\ bucket[k].active <= MaxActive[k]
      BY <1>2, <2>1, <2>2 DEF Counts
    <3>3. bucket[k].active \in Nat /\ MaxActive[k] \in Nat
      BY <3>2, SlotsAssumption DEF Bucket
    <3>4. bucket'[k].active = Cardinality(HoldingIn(held', k))
      BY <1>3, <2>1, <2>2 DEF Counts
    <3> QED BY <1>3, <2>2, <3>1, <3>2, <3>3, <3>4 DEF Counts
  <2>3. CASE ~Touched(k)
    <3>1. bucket[k] = Absent => HoldingIn(held, k) = {} BY <2>1 DEF Counts
    <3>2. HoldingIn(held', k) = HoldingIn(held, k)
      BY <2>3, <3>1 DEF Release, HoldingIn
    <3> QED BY <1>4, <2>1, <2>3, <3>2 DEF Counts
  <2> QED BY <2>2, <2>3
<1>7. ASSUME NEW s \in Stores PROVE Small(bucket', s)
  <2>1. \A k \in Key : bucket'[k] # Absent <=> bucket[k] # Absent
    BY <1>3, <1>4, AbsentIsNoBucket
  <2>2. Stored(bucket', s) = Stored(bucket, s) BY <2>1 DEF Stored
  <2> QED BY <2>2 DEF BucketsOk, Small
<1> QED BY <1>1, <1>5, <1>6, <1>7 DEF BucketsOk

LEMMA MaybeReleases ==
  ASSUME NEW r \in Request, SlotsIInv, NEW yes \in BOOLEAN,
         IF yes THEN Release(r) ELSE UNCHANGED <<bucket, held>>
  PROVE  /\ BucketsOk(bucket', held') /\ IsFiniteSet(held')
         /\ held' \subseteq held /\ \A q \in held : (q = r /\ yes) \/ q \in held'
<1>1. CASE yes
  <2>1. BucketsOk(bucket', held') /\ IsFiniteSet(held')
    BY <1>1, ReleaseCounts DEF SlotsIInv
  <2> QED BY <1>1, <2>1 DEF Release
<1>2. CASE ~yes BY <1>2 DEF SlotsIInv
<1> QED BY <1>1, <1>2

-----------------------------------------------------------------------------
(* The invariant.                                                          *)

LEMMA SlotsInit == Init => SlotsIInv
<1> SUFFICES ASSUME Init PROVE SlotsIInv
  OBVIOUS
<1>1. /\ bucket = [k \in Key |-> Absent] /\ held = {} /\ closed = {}
      /\ phase = [r \in Request |-> "new"]
  BY DEF Init
<1>2. \A k \in Key : Counts(bucket, held, k) BY <1>1 DEF Counts, HoldingIn
<1>3. ASSUME NEW s \in Stores PROVE Small(bucket, s)
  <2>1. Stored(bucket, s) = {} BY <1>1 DEF Stored
  <2> QED BY <2>1, FS_EmptySet, SlotsAssumption DEF Small
<1>4. bucket \in [Key -> Bucket \cup {Absent}] BY <1>1
<1> QED BY <1>1, <1>2, <1>3, <1>4, FS_EmptySet DEF SlotsIInv, BucketsOk, WorkHolds, Phase

LEMMA SlotsNext == SlotsIInv /\ [Next]_vars => SlotsIInv'
<1> SUFFICES ASSUME SlotsIInv, [Next]_vars PROVE SlotsIInv'
  OBVIOUS
<1>0. /\ phase \in [Request -> Phase] /\ closed \subseteq Request /\ held \subseteq Request
      /\ IsFiniteSet(held) /\ WorkHolds /\ BucketsOk(bucket, held)
  BY DEF SlotsIInv
<1>1. ASSUME NEW r \in Request, Admit(r) PROVE SlotsIInv'
  <2>1. BucketsOk(bucket', held') /\ IsFiniteSet(held') BY <1>1, AdmissionCounts
  <2>2. WorkHolds' BY <1>0, <1>1 DEF Admit, WorkHolds, Phase
  <2> QED BY <1>0, <1>1, <2>1, <2>2 DEF SlotsIInv, BucketsOk, Counts, Small, Admit, Phase
<1>2. ASSUME NEW r \in Request, Refuse(r) PROVE SlotsIInv'
  <2>1. BucketsOk(bucket', held') BY <1>2, ReservationFinds DEF Refuse
  <2>2. WorkHolds' BY <1>0, <1>2 DEF Refuse, WorkHolds, Phase
  <2> QED BY <1>0, <1>2, <2>1, <2>2 DEF SlotsIInv, Refuse, Phase
<1>3. ASSUME NEW r \in Request, Start(r) PROVE SlotsIInv'
  <2>1. r \in held BY <1>0, <1>3 DEF Start, WorkHolds
  <2>2. WorkHolds' BY <1>0, <1>3, <2>1 DEF Start, WorkHolds, Phase
  <2> QED BY <1>0, <1>3, <2>2 DEF Start, SlotsIInv, BucketsOk, Counts, Small, Phase
<1>4. ASSUME NEW r \in Request, Complete(r) PROVE SlotsIInv'
  <2>1. /\ BucketsOk(bucket', held') /\ IsFiniteSet(held')
        /\ held' \subseteq held /\ \A q \in held : q = r \/ q \in held'
    BY <1>4, MaybeReleases DEF Complete, ReleasesAtEnd
  <2>2. WorkHolds' BY <1>0, <1>4, <2>1 DEF Complete, WorkHolds, Phase
  <2> QED BY <1>0, <1>4, <2>1, <2>2 DEF Complete, SlotsIInv, Phase
<1>5. ASSUME NEW r \in Request, Close(r) PROVE SlotsIInv'
  <2>1. /\ BucketsOk(bucket', held') /\ IsFiniteSet(held')
        /\ held' \subseteq held
        /\ \A q \in held : (q = r /\ phase[r] # "started") \/ q \in held'
    BY <1>5, MaybeReleases DEF Close, ReleasesAtClose
  <2>2. WorkHolds' BY <1>0, <1>5, <2>1 DEF Close, WorkHolds
  <2> QED BY <1>0, <1>5, <2>1, <2>2 DEF Close, SlotsIInv
<1>6. ASSUME NEW r \in Request, WriteDeadline(r) PROVE SlotsIInv'
  <2>1. BucketsOk(bucket', held') /\ IsFiniteSet(held')
    BY <1>0, <1>6, ReleaseCounts DEF WriteDeadline
  <2>2. WorkHolds' /\ held' \subseteq held
    BY <1>0, <1>6 DEF WriteDeadline, Release, WorkHolds
  <2> QED BY <1>0, <1>6, <2>1, <2>2 DEF WriteDeadline, SlotsIInv
<1>7. ASSUME NEW k \in Key, WindowElapses(k) PROVE SlotsIInv'
  <2> DEFINE n == [bucket[k] EXCEPT !.elapsed = TRUE]
  <2>1. bucket \in [Key -> Bucket \cup {Absent}] /\ bucket[k] # Absent
    BY <1>0, <1>7 DEF BucketsOk, WindowElapses
  <2>2. bucket[k] \in Bucket BY <2>1
  <2>3. n \in Bucket /\ n.active = bucket[k].active BY <2>2 DEF Bucket
  <2>4. bucket' = [bucket EXCEPT ![k] = n] /\ UNCHANGED <<phase, closed, held>>
    BY <1>7 DEF WindowElapses
  <2> HIDE DEF n
  <2>5. BucketsOk(bucket', held') BY <1>0, <2>1, <2>3, <2>4, InsertIsSafe
  <2> QED BY <1>0, <2>4, <2>5 DEF SlotsIInv, WorkHolds
<1>8. CASE UNCHANGED vars BY <1>8 DEF SlotsIInv, vars, WorkHolds, BucketsOk, Counts, Small,
                                      HoldingIn, Stored
<1> QED BY <1>1, <1>2, <1>3, <1>4, <1>5, <1>6, <1>7, <1>8 DEF Next

-----------------------------------------------------------------------------
(* The promises.                                                           *)

LEMMA SlotsKept == SlotsIInv => WorkSlotsInv
<1> SUFFICES ASSUME SlotsIInv PROVE WorkSlotsInv
  OBVIOUS
<1>1. BucketsOk(bucket, held) BY DEF SlotsIInv
<1>2. SlotsAreCounted
  BY <1>1 DEF BucketsOk, Counts, HoldingIn, SlotsAreCounted, Holding
<1>3. \A s \in Stores : Cardinality({k \in Key : StoreOf[k] = s /\ bucket[k] # Absent})
                             <= MaxKeys
  BY <1>1 DEF BucketsOk, Small, Stored
<1> QED BY <1>1, <1>2, <1>3 DEF WorkSlotsInv, TypeOK, SlotsIInv, BucketsOk, Stores

\* The types and the conservation of slots (reserveWorkSlots and every way a request
\* ends), for any number of requests, keys and limits.
THEOREM SlotsAreConserved == Spec => []WorkSlotsInv
<1>1. Spec => []SlotsIInv BY SlotsInit, SlotsNext, PTL DEF Spec
<1> QED BY <1>1, SlotsKept, PTL

LEMMA WorkFits == SlotsIInv => RunningIsBounded
<1> SUFFICES ASSUME SlotsIInv, NEW k \in Key
             PROVE  Cardinality({r \in Request : k \in KeysOf(r) /\ phase[r] = "started"})
                      <= MaxActive[k]
  BY DEF RunningIsBounded
<1> DEFINE running == {r \in Request : k \in KeysOf(r) /\ phase[r] = "started"}
<1>1. running \in SUBSET HoldingIn(held, k) BY DEF SlotsIInv, WorkHolds, HoldingIn
<1>2. IsFiniteSet(HoldingIn(held, k)) /\ Cardinality(HoldingIn(held, k)) \in Nat
  BY HoldersAreFinite DEF SlotsIInv
<1>3. IsFiniteSet(running) /\ Cardinality(running) <= Cardinality(HoldingIn(held, k))
  BY <1>1, <1>2, FS_Subset
<1>4. Cardinality(running) \in Nat BY <1>3, FS_CardinalityType
<1>5. Counts(bucket, held, k) /\ MaxActive[k] \in Nat
  BY SlotsAssumption DEF SlotsIInv, BucketsOk
<1>6. Cardinality(HoldingIn(held, k)) <= MaxActive[k]
  BY <1>2, <1>5, FS_EmptySet DEF Counts
<1> QED BY <1>2, <1>3, <1>4, <1>5, <1>6

\* Running work stays within the limits of its organization and its user, whoever has
\* hung up, for any number of requests.
THEOREM WorkIsBounded == Spec => []RunningIsBounded
<1>1. Spec => []SlotsIInv BY SlotsInit, SlotsNext, PTL DEF Spec
<1> QED BY <1>1, WorkFits, PTL

-----------------------------------------------------------------------------
(* Sockets: the strengthening.                                             *)

Verifying == {p \in Peer : verify[p].at # "none"}

\* A slot is held by a lookup in flight, and only a socket without one may be in.
SlotsOfUpgrades ==
  /\ IsFiniteSet(Verifying) /\ verifying = Cardinality(Verifying) /\ verifying <= MaxVerifying
  /\ \A p \in Clients : verify[p].at = "none"

\* Every user the tick has not resolved is queued, once, or looked up, and no other.
SlotsOfChecks ==
  /\ IsInjective(queue) /\ ToSet(queue) \cap InFlight = {}
  /\ ToSet(queue) \cup InFlight = tick.pending
  /\ IsFiniteSet(InFlight) /\ checking = Cardinality(InFlight) + orphans
  /\ checking <= Concurrency

\* Nothing the tick may judge by was read before it began.
ReadSince ==
  /\ \A u \in User : tick.since[u] <= gen[u]
  /\ \A u \in User : look[u].at = "read" => tick.since[u] <= look[u].gen
  /\ \A p \in tick.seen : verify[p].at = "read" => tick.since[UserOf[p]] <= verify[p].gen

Admitted == IsFiniteSet(Clients) /\ ConnectionsAreBounded

Stopped == ~serving => Clients = {} /\ tick.pending = {}

SocketsIInv ==
  /\ SocketsTypeOK /\ SlotsOfUpgrades /\ SlotsOfChecks
  /\ Admitted /\ Stopped /\ ReadSince /\ TicksAreDecisive

-----------------------------------------------------------------------------
(* The queue.                                                              *)

\* A queue without repetition, cut in two.
LEMMA QueueIsCut ==
  ASSUME NEW S, NEW q \in Seq(S), IsInjective(q), NEW k \in 0..Len(q)
  PROVE  LET head == SubSeq(q, 1, k)
             rest == SubSeq(q, k + 1, Len(q))
         IN  /\ ToSet(head) \subseteq S /\ rest \in Seq(S) /\ IsInjective(rest)
             /\ ToSet(head) \cap ToSet(rest) = {}
             /\ ToSet(head) \cup ToSet(rest) = ToSet(q)
             /\ IsFiniteSet(ToSet(head)) /\ Cardinality(ToSet(head)) = k
<1> DEFINE head == SubSeq(q, 1, k)
           rest == SubSeq(q, k + 1, Len(q))
           n == Len(q)
<1>1. n \in Nat /\ DOMAIN q = 1..n /\ \A j \in 1..n : q[j] \in S
  BY LenProperties
<1>2. /\ head \in Seq(S) /\ Len(head) = k
      /\ \A j \in 1..k : head[j] = q[j]
  <2>1. \A j \in 1..k : q[j] \in S BY <1>1
  <2> QED BY <1>1, <2>1, SubSeqProperties
<1>3. /\ rest \in Seq(S) /\ Len(rest) = n - k
      /\ \A j \in 1..(n - k) : rest[j] = q[k + j]
  <2>1. \A j \in (k + 1)..n : q[j] \in S BY <1>1
  <2>2. /\ rest \in Seq(S) /\ Len(rest) = IF k + 1 <= n THEN n - (k + 1) + 1 ELSE 0
        /\ \A j \in 1..(n - (k + 1) + 1) : rest[j] = q[k + 1 + j - 1]
    BY <1>1, <2>1, SubSeqProperties
  <2>3. k \in 0..n /\ n - (k + 1) + 1 = n - k BY <1>1
  <2> HIDE DEF rest, n
  <2>4. Len(rest) = n - k BY <1>1, <2>2, <2>3
  <2>5. ASSUME NEW j \in 1..(n - k) PROVE rest[j] = q[k + j]
    <3>1. rest[j] = q[k + 1 + j - 1] BY <2>2, <2>3
    <3>2. k + 1 + j - 1 = k + j BY <2>3
    <3> QED BY <3>1, <3>2
  <2> QED BY <2>2, <2>4, <2>5
<1> HIDE DEF head, rest, n
<1>4. DOMAIN head = 1..k /\ DOMAIN rest = 1..(n - k)
  BY <1>2, <1>3, LenProperties
<1>5. ToSet(head) = {q[j] : j \in 1..k}
  BY <1>2, <1>4 DEF ToSet
<1>6. ToSet(rest) = {q[k + j] : j \in 1..(n - k)}
  BY <1>3, <1>4 DEF ToSet
<1>7. ToSet(q) = {q[j] : j \in 1..n}
  BY <1>1 DEF ToSet
<1>8. k \in 0..n BY DEF n
<1>9. IsInjective(rest)
  <2> SUFFICES ASSUME NEW i \in 1..(n - k), NEW j \in 1..(n - k), rest[i] = rest[j]
               PROVE  i = j
    BY <1>4 DEF IsInjective
  <2>1. q[k + i] = q[k + j] BY <1>3
  <2>2. k + i \in 1..n /\ k + j \in 1..n BY <1>1, <1>8
  <2> QED BY <1>1, <1>8, <2>1, <2>2 DEF IsInjective
<1>10. ToSet(head) \cap ToSet(rest) = {}
  <2> SUFFICES ASSUME NEW i \in 1..k, NEW j \in 1..(n - k), q[i] = q[k + j] PROVE FALSE
    BY <1>5, <1>6
  <2>1. i \in 1..n /\ k + j \in 1..n /\ i # k + j BY <1>1, <1>8
  <2> QED BY <1>1, <2>1 DEF IsInjective
<1>11. ToSet(head) \cup ToSet(rest) = ToSet(q)
  <2>1. ASSUME NEW i \in 1..n PROVE q[i] \in ToSet(head) \cup ToSet(rest)
    <3>1. CASE i <= k BY <1>5, <1>8, <3>1
    <3>2. CASE ~(i <= k)
      <4>1. i - k \in 1..(n - k) /\ k + (i - k) = i BY <1>1, <1>8, <3>2
      <4> QED BY <1>6, <4>1
    <3> QED BY <3>1, <3>2
  <2>2. \A i \in 1..k : i \in 1..n BY <1>1, <1>8
  <2>3. \A j \in 1..(n - k) : k + j \in 1..n BY <1>1, <1>8
  <2> QED BY <1>5, <1>6, <1>7, <2>1, <2>2, <2>3
<1>12. IsFiniteSet(ToSet(head)) /\ Cardinality(ToSet(head)) = k
  <2> DEFINE f == [j \in 1..k |-> q[j]]
  <2>1. f \in Bijection(1..k, ToSet(head))
    <3>1. f \in [1..k -> ToSet(head)] BY <1>5
    <3>2. \A i, j \in 1..k : f[i] = f[j] => i = j
      BY <1>1, <1>8 DEF IsInjective
    <3>3. \A x \in ToSet(head) : \E j \in 1..k : f[j] = x BY <1>5
    <3> QED BY <3>1, <3>2, <3>3 DEF Bijection, Injection, Surjection, IsInjective
  <2>2. ExistsBijection(1..k, ToSet(head)) BY <2>1 DEF ExistsBijection
  <2>3. IsFiniteSet(1..k) /\ Cardinality(1..k) = k BY <1>8, FS_Interval
  <2> QED BY <2>2, <2>3, FS_Bijection
<1>13. ToSet(head) \subseteq S BY <1>1, <1>5, <1>8
<1> QED BY <1>3, <1>9, <1>10, <1>11, <1>12, <1>13 DEF head, rest, n

\* An ordering of a finite set lists each element once.
LEMMA OrderingListsAll ==
  ASSUME NEW S, IsFiniteSet(S), NEW q \in SetToSeqs(S)
  PROVE  q \in Seq(S) /\ IsInjective(q) /\ ToSet(q) = S
<1> DEFINE n == Cardinality(S)
<1>1. n \in Nat BY FS_CardinalityType
<1>2. q \in [1..n -> S] /\ IsInjective(q)
  BY DEF SetToSeqs, IsInjective
<1>3. q \in Seq(S) BY <1>1, <1>2, SeqDef
<1>4. q \in Injection(1..n, S) BY <1>2 DEF Injection
<1>5. Cardinality(1..n) = n BY <1>1, FS_Interval
<1>6. q \in Surjection(1..n, S) BY <1>4, <1>5, FS_Injection
<1>7. \A x \in S : \E j \in 1..n : q[j] = x BY <1>6 DEF Surjection
<1>8. ToSet(q) = {q[j] : j \in 1..n} BY <1>2 DEF ToSet
<1> QED BY <1>2, <1>3, <1>7, <1>8

\* The queue gives the first users their lookups and loses none, within the limit.
LEMMA PumpServes ==
  ASSUME NEW q \in Seq(User), IsInjective(q),
         NEW l \in [User -> Lookup], NEW n \in Nat, NEW o \in Nat, Pump(q, l, n),
         IsFiniteSet({u \in User : l[u].at # "none"}),
         {u \in User : l[u].at # "none"} \cap ToSet(q) = {},
         n = Cardinality({u \in User : l[u].at # "none"}) + o, n <= Concurrency
  PROVE  /\ queue' \in Seq(User) /\ IsInjective(queue')
         /\ look' \in [User -> Lookup]
         /\ \A u \in User : look'[u].at = "read" => look'[u] = l[u]
         /\ ToSet(queue') \cap InFlight' = {}
         /\ ToSet(queue') \cup InFlight' = ToSet(q) \cup {u \in User : l[u].at # "none"}
         /\ IsFiniteSet(InFlight') /\ checking' \in Nat
         /\ checking' = Cardinality(InFlight') + o /\ checking' <= Concurrency
<1> DEFINE L == {u \in User : l[u].at # "none"}
           free == IF n < Concurrency THEN Concurrency - n ELSE 0
           k == IF free < Len(q) THEN free ELSE Len(q)
           H == ToSet(SubSeq(q, 1, k))
           R == SubSeq(q, k + 1, Len(q))
<1>1. Concurrency \in Nat /\ Len(q) \in Nat BY SocketsAssumption, LenProperties
<1>2. free \in Nat /\ n + free <= Concurrency /\ k \in 0..Len(q) /\ k <= free BY <1>1
<1>3. /\ queue' = R /\ checking' = n + k
      /\ look' = [u \in User |-> IF u \in H THEN Sent ELSE l[u]]
  BY DEF Pump
<1>4. k \in Nat /\ n + k <= Concurrency BY <1>1, <1>2
<1> HIDE DEF free, k
<1>5. /\ H \subseteq User /\ R \in Seq(User) /\ IsInjective(R)
      /\ H \cap ToSet(R) = {} /\ H \cup ToSet(R) = ToSet(q)
      /\ IsFiniteSet(H) /\ Cardinality(H) = k
  BY <1>2, QueueIsCut
<1> HIDE DEF H, R
<1>6. InFlight' = L \cup H BY <1>3, <1>5 DEF InFlight, Sent
<1>7. L \cap H = {} BY <1>5
<1>8. Cardinality(L) \in Nat BY FS_CardinalityType
<1>9. IsFiniteSet(L \cup H) /\ Cardinality(L \cup H) = Cardinality(L) + k
  <2>1. Cardinality(L \cap H) = 0 BY <1>7, FS_EmptySet
  <2>2. /\ IsFiniteSet(L \cup H)
        /\ Cardinality(L \cup H) = Cardinality(L) + Cardinality(H) - Cardinality(L \cap H)
    BY <1>5, FS_Union
  <2> QED BY <1>4, <1>5, <1>8, <2>1, <2>2
<1>10. checking' = Cardinality(InFlight') + o BY <1>3, <1>4, <1>6, <1>8, <1>9
<1>11. look' \in [User -> Lookup] BY <1>3, SocketsAssumption DEF Lookup, Sent
<1>12. \A u \in User : look'[u].at = "read" => look'[u] = l[u] BY <1>3 DEF Sent
<1>13. ToSet(queue') \cap InFlight' = {} /\ ToSet(queue') \cup InFlight' = ToSet(q) \cup L
  BY <1>3, <1>5, <1>6
<1> QED BY <1>3, <1>4, <1>5, <1>6, <1>9, <1>10, <1>11, <1>12, <1>13

-----------------------------------------------------------------------------
(* Upgrades.                                                               *)

Connection == [at : {"out", "pending", "in"}, gen : 0 .. MaxGen]

\* Closing connections leaves the others as they are and exceeds no cap.
LEMMA DropShrinks ==
  ASSUME SocketsTypeOK, Admitted, NEW ps, Drop(ps)
  PROVE  /\ peer' \in [Peer -> Connection] /\ Clients' = Clients \ ps
         /\ \A p \in Clients' : peer'[p] = peer[p]
         /\ Admitted'
<1>1. peer' = [p \in Peer |-> IF p \in ps THEN Out ELSE peer[p]] BY DEF Drop
<1>2. peer \in [Peer -> Connection] /\ Out \in Connection
  BY SocketsAssumption DEF SocketsTypeOK, Connection, Out
<1>3. peer' \in [Peer -> Connection] BY <1>1, <1>2
<1>4. Clients' = Clients \ ps /\ \A p \in Clients' : peer'[p] = peer[p]
  BY <1>1 DEF Clients, Out
<1>5. /\ IsFiniteSet(Clients) /\ Cardinality(Clients) <= MaxConnections
      /\ \A o \in Org : Cardinality(OfOrg(o)) <= MaxOrgConnections
      /\ \A u \in User : Cardinality(OfUser(u)) <= MaxUserConnections
  BY DEF Admitted, ConnectionsAreBounded
<1>6. Clients' \in SUBSET Clients /\ IsFiniteSet(Clients')
      /\ Cardinality(Clients') <= Cardinality(Clients)
  BY <1>4, <1>5, FS_Subset
<1>7. Cardinality(Clients') <= MaxConnections
  BY <1>5, <1>6, FS_CardinalityType, SocketsAssumption
<1>8. ASSUME NEW o \in Org PROVE Cardinality(OfOrg(o)') <= MaxOrgConnections
  <2>1. OfOrg(o) \in SUBSET Clients /\ OfOrg(o)' \in SUBSET OfOrg(o) BY <1>4 DEF OfOrg
  <2>2. IsFiniteSet(OfOrg(o)) BY <1>5, <2>1, FS_Subset
  <2>3. IsFiniteSet(OfOrg(o)') /\ Cardinality(OfOrg(o)') <= Cardinality(OfOrg(o))
    BY <2>1, <2>2, FS_Subset
  <2> QED BY <1>5, <2>2, <2>3, FS_CardinalityType, SocketsAssumption
<1>9. ASSUME NEW u \in User PROVE Cardinality(OfUser(u)') <= MaxUserConnections
  <2>1. OfUser(u) \in SUBSET Clients /\ OfUser(u)' \in SUBSET OfUser(u) BY <1>4 DEF OfUser
  <2>2. IsFiniteSet(OfUser(u)) BY <1>5, <2>1, FS_Subset
  <2>3. IsFiniteSet(OfUser(u)') /\ Cardinality(OfUser(u)') <= Cardinality(OfUser(u))
    BY <2>1, <2>2, FS_Subset
  <2> QED BY <1>5, <2>2, <2>3, FS_CardinalityType, SocketsAssumption
<1> QED BY <1>3, <1>4, <1>6, <1>7, <1>8, <1>9 DEF Admitted, ConnectionsAreBounded

LEMMA OneMoreFits ==
  ASSUME NEW S, IsFiniteSet(S), NEW x, NEW m \in Nat, ~(Cardinality(S) >= m)
  PROVE  IsFiniteSet(S \cup {x}) /\ Cardinality(S \cup {x}) <= m
<1>1. Cardinality(S) \in Nat BY FS_CardinalityType
<1>2. Cardinality(S) + 1 <= m BY <1>1
<1>3. /\ IsFiniteSet(S \cup {x})
      /\ Cardinality(S \cup {x}) = IF x \in S THEN Cardinality(S) ELSE Cardinality(S) + 1
  BY FS_AddElement
<1> QED BY <1>1, <1>2, <1>3

\* One more connection, where no cap is reached.
LEMMA RegisterFits ==
  ASSUME SocketsTypeOK, Admitted, NEW p \in Peer, ~AtCap(p), Clients' = Clients \cup {p}
  PROVE  Admitted'
<1> DEFINE o == OrgOf[UserOf[p]]
           u == UserOf[p]
<1>1. /\ IsFiniteSet(Clients) /\ Cardinality(Clients) <= MaxConnections
      /\ \A b \in Org : Cardinality(OfOrg(b)) <= MaxOrgConnections
      /\ \A b \in User : Cardinality(OfUser(b)) <= MaxUserConnections
  BY DEF Admitted, ConnectionsAreBounded
<1>2. {MaxConnections, MaxOrgConnections, MaxUserConnections} \subseteq Nat
  BY SocketsAssumption
<1>3. \A b : /\ OfOrg(b) \in SUBSET Clients /\ OfUser(b) \in SUBSET Clients
      BY DEF OfOrg, OfUser
<1>4. \A b : IsFiniteSet(OfOrg(b)) /\ IsFiniteSet(OfUser(b)) BY <1>1, <1>3, FS_Subset
<1>5. /\ ~(Cardinality(Clients) >= MaxConnections)
      /\ ~(Cardinality(OfOrg(o)) >= MaxOrgConnections)
      /\ ~(Cardinality(OfUser(u)) >= MaxUserConnections)
  BY DEF AtCap
<1>6. IsFiniteSet(Clients') /\ Cardinality(Clients') <= MaxConnections
  BY <1>1, <1>2, <1>5, OneMoreFits
<1>7. ASSUME NEW b \in Org PROVE Cardinality(OfOrg(b)') <= MaxOrgConnections
  <2>1. CASE b = o
    <3>1. OfOrg(b)' = OfOrg(b) \cup {p} BY <2>1 DEF OfOrg
    <3> QED BY <1>2, <1>4, <1>5, <2>1, <3>1, OneMoreFits
  <2>2. CASE b # o
    <3>1. OfOrg(b)' = OfOrg(b) BY <2>2 DEF OfOrg
    <3> QED BY <1>1, <3>1
  <2> QED BY <2>1, <2>2
<1>8. ASSUME NEW b \in User PROVE Cardinality(OfUser(b)') <= MaxUserConnections
  <2>1. CASE b = u
    <3>1. OfUser(b)' = OfUser(b) \cup {p} BY <2>1 DEF OfUser
    <3> QED BY <1>2, <1>4, <1>5, <2>1, <3>1, OneMoreFits
  <2>2. CASE b # u
    <3>1. OfUser(b)' = OfUser(b) BY <2>2 DEF OfUser
    <3> QED BY <1>1, <3>1
  <2> QED BY <2>1, <2>2
<1> QED BY <1>6, <1>7, <1>8 DEF Admitted, ConnectionsAreBounded

\* What does not touch the re-check keeps its accounts.
LEMMA ChecksStay ==
  ASSUME SlotsOfChecks, UNCHANGED checkVars
  PROVE  SlotsOfChecks'
BY DEF SlotsOfChecks, checkVars, InFlight

LEMMA UpgradesStay ==
  ASSUME SlotsOfUpgrades, UNCHANGED <<verify, verifying>>, Clients' \subseteq Clients
  PROVE  SlotsOfUpgrades'
BY DEF SlotsOfUpgrades, Verifying

LEMMA UpgradeKeeps ==
  ASSUME SocketsIInv, NEW p \in Peer, Upgrade(p)
  PROVE  SocketsIInv'
<1> USE DEF SocketsIInv
<1>1. /\ peer' = [peer EXCEPT ![p].at = "pending"] /\ peer[p].at = "out"
      /\ verify' = [verify EXCEPT ![p] = Sent] /\ verify[p].at = "none"
      /\ verifying' = verifying + 1 /\ UNCHANGED <<serving, gen, checkVars>>
      /\ serving /\ ~(verifying >= MaxVerifying)
  BY DEF Upgrade, Saturated
<1>2. Clients' = Clients /\ \A q \in Clients : peer'[q] = peer[q]
  BY <1>1 DEF SocketsTypeOK, Clients
<1>3. SocketsTypeOK'
  <2>1. Sent \in Lookup BY SocketsAssumption DEF Lookup, Sent
  <2>2. peer' \in [Peer -> Connection] BY <1>1 DEF SocketsTypeOK, Connection
  <2> QED BY <1>1, <2>1, <2>2 DEF SocketsTypeOK, Connection, checkVars
<1>4. SlotsOfUpgrades'
  <2>1. Verifying' = Verifying \cup {p} /\ p \notin Verifying
    BY <1>1 DEF Verifying, SocketsTypeOK, Sent
  <2>2. /\ IsFiniteSet(Verifying') /\ Cardinality(Verifying') = Cardinality(Verifying) + 1
    BY <2>1, FS_AddElement DEF SlotsOfUpgrades
  <2>3. verifying \in Nat /\ MaxVerifying \in Nat
    BY SocketsAssumption DEF SocketsTypeOK
  <2>4. \A q \in Clients : verify'[q].at = "none"
    BY <1>1 DEF SlotsOfUpgrades, Clients, SocketsTypeOK
  <2> QED BY <1>1, <1>2, <2>2, <2>3, <2>4 DEF SlotsOfUpgrades
<1>5. SlotsOfChecks' BY <1>1, ChecksStay
<1>6. Admitted' BY <1>2 DEF Admitted, ConnectionsAreBounded, OfOrg, OfUser
<1>7. Stopped' BY <1>1, <1>2 DEF Stopped, checkVars
<1>8. ReadSince' BY <1>1 DEF ReadSince, SocketsTypeOK, checkVars, Sent, Tick
<1>9. TicksAreDecisive' BY <1>1, <1>2 DEF TicksAreDecisive, checkVars
<1> QED BY <1>3, <1>4, <1>5, <1>6, <1>7, <1>8, <1>9

LEMMA VerifyReadsKeeps ==
  ASSUME SocketsIInv, NEW p \in Peer, VerifyReads(p)
  PROVE  SocketsIInv'
<1> USE DEF SocketsIInv
<1>1. PICK v \in Reads(UserOf[p]) : verify' = [verify EXCEPT ![p] = v]
  BY DEF VerifyReads
<1>2. verify[p].at = "sent" /\ UNCHANGED <<serving, gen, peer, verifying, checkVars>>
  BY DEF VerifyReads
<1>3. UserOf[p] \in User /\ gen[UserOf[p]] \in 0..MaxGen
  BY SocketsAssumption DEF SocketsTypeOK
<1>4. /\ v \in Lookup /\ v.at \in {"read", "failed"}
      /\ v.at = "read" => v.gen = gen[UserOf[p]]
  BY <1>3, SocketsAssumption DEF Reads, Lookup
<1>5. Clients' = Clients BY <1>2 DEF Clients
<1>6. SocketsTypeOK' BY <1>1, <1>2, <1>4 DEF SocketsTypeOK, checkVars, InFlight
<1>7. SlotsOfUpgrades'
  <2>1. Verifying' = Verifying BY <1>1, <1>2, <1>4 DEF Verifying, SocketsTypeOK
  <2>2. \A q \in Clients : verify'[q].at = "none"
    BY <1>1, <1>2 DEF SlotsOfUpgrades, SocketsTypeOK, Clients
  <2> QED BY <1>2, <1>5, <2>1, <2>2 DEF SlotsOfUpgrades
<1>8. SlotsOfChecks' BY <1>2, ChecksStay
<1>9. Admitted' BY <1>2 DEF Admitted, ConnectionsAreBounded, OfOrg, OfUser, Clients
<1>10. Stopped' BY <1>2, <1>5 DEF Stopped, checkVars
<1>11. ReadSince'
  BY <1>1, <1>2, <1>3, <1>4 DEF ReadSince, SocketsTypeOK, checkVars, Tick
<1>12. TicksAreDecisive' BY <1>2, <1>5 DEF TicksAreDecisive, checkVars
<1> QED BY <1>6, <1>7, <1>8, <1>9, <1>10, <1>11, <1>12

LEMMA VerifySettlesKeeps ==
  ASSUME SocketsIInv, NEW p \in Peer, VerifySettles(p)
  PROVE  SocketsIInv'
<1> USE DEF SocketsIInv
<1> DEFINE enters == /\ peer[p].at = "pending" /\ verify[p].at = "read" /\ serving
                     /\ ~AtCap(p)
<1>1. /\ verify[p].at \in {"read", "failed"}
      /\ verify' = [verify EXCEPT ![p] = NoLookup] /\ verifying' = verifying - 1
      /\ UNCHANGED <<serving, gen, checkVars>>
  BY DEF VerifySettles
<1>2. /\ enters => peer' = [peer EXCEPT ![p] = [at |-> "in", gen |-> verify[p].gen]]
      /\ ~enters => UNCHANGED peer \/ Drop({p})
  BY DEF VerifySettles
<1>3. verify[p] \in Lookup /\ NoLookup \in Lookup
  BY SocketsAssumption DEF SocketsTypeOK, Lookup, NoLookup
<1>4. p \notin Clients BY <1>1 DEF SlotsOfUpgrades
<1>5. /\ peer' \in [Peer -> Connection] /\ Admitted'
      /\ Clients' = IF enters THEN Clients \cup {p} ELSE Clients
      /\ \A q \in Clients : peer'[q] = peer[q]
      /\ enters => peer'[p].gen = verify[p].gen
  <2>1. peer \in [Peer -> Connection] BY DEF SocketsTypeOK, Connection
  <2>2. CASE enters
    <3>1. peer' = [peer EXCEPT ![p] = [at |-> "in", gen |-> verify[p].gen]] BY <1>2, <2>2
    <3>2. peer' \in [Peer -> Connection] BY <1>3, <2>1, <3>1 DEF Connection, Lookup
    <3>3. Clients' = Clients \cup {p} BY <2>1, <3>1 DEF Clients
    <3>4. Admitted' BY <2>2, <3>3, RegisterFits
    <3> QED BY <1>4, <2>1, <2>2, <3>1, <3>2, <3>3, <3>4 DEF Clients
  <2>3. CASE UNCHANGED peer /\ ~enters
    BY <2>1, <2>3 DEF Clients, Admitted, ConnectionsAreBounded, OfOrg, OfUser
  <2>4. CASE Drop({p}) /\ ~enters
    BY <1>4, <2>4, DropShrinks
  <2> QED BY <1>2, <2>2, <2>3, <2>4
<1> HIDE DEF enters
<1>6. SlotsOfUpgrades' /\ verifying' \in Nat
  <2>1. Verifying' = Verifying \ {p} /\ p \in Verifying
    BY <1>1 DEF Verifying, SocketsTypeOK, NoLookup
  <2>2. IsFiniteSet(Verifying') /\ Cardinality(Verifying') = Cardinality(Verifying) - 1
    BY <2>1, FS_RemoveElement DEF SlotsOfUpgrades
  <2>3. Cardinality(Verifying') \in Nat BY <2>2, FS_CardinalityType
  <2>4. verifying' = Cardinality(Verifying') /\ verifying' <= MaxVerifying
    BY <1>1, <2>2, SocketsAssumption DEF SlotsOfUpgrades, SocketsTypeOK
  <2>5. \A q \in Clients' : verify'[q].at = "none"
    BY <1>1, <1>5 DEF SlotsOfUpgrades, SocketsTypeOK, NoLookup, Clients
  <2> QED BY <2>2, <2>3, <2>4, <2>5 DEF SlotsOfUpgrades
<1>7. SocketsTypeOK'
  BY <1>1, <1>3, <1>5, <1>6 DEF SocketsTypeOK, Connection, checkVars, InFlight
<1>8. SlotsOfChecks' BY <1>1, ChecksStay
<1>9. Stopped' BY <1>1, <1>5 DEF Stopped, checkVars, enters
<1>10. ReadSince' BY <1>1 DEF ReadSince, SocketsTypeOK, checkVars, NoLookup, Tick
<1>11. TicksAreDecisive'
  <2> SUFFICES ASSUME NEW q \in tick.seen \cap Clients', UserOf[q] \notin tick.pending
               PROVE  peer'[q].gen >= tick.since[UserOf[q]]
    BY <1>1 DEF TicksAreDecisive, checkVars
  <2>1. CASE q \in Clients BY <1>5, <2>1 DEF TicksAreDecisive
  <2>2. CASE q = p /\ enters
    <3>1. verify[p].at = "read" BY <2>2 DEF enters
    <3>2. tick.since[UserOf[p]] <= verify[p].gen BY <2>2, <3>1 DEF ReadSince
    <3>3. verify[p].gen \in Nat /\ tick.since[UserOf[p]] \in Nat
      BY <1>3, SocketsAssumption DEF Lookup, SocketsTypeOK, Tick
    <3> QED BY <1>5, <2>2, <3>2, <3>3
  <2> QED BY <1>5, <2>1, <2>2
<1> QED BY <1>5, <1>6, <1>7, <1>8, <1>9, <1>10, <1>11

LEMMA AbandonKeeps ==
  ASSUME SocketsIInv, NEW p \in Peer, Abandon(p)
  PROVE  SocketsIInv'
<1> USE DEF SocketsIInv
<1>1. Drop({p}) /\ UNCHANGED <<serving, gen, verify, verifying, checkVars>>
  BY DEF Abandon
<1>2. /\ peer' \in [Peer -> Connection] /\ Clients' = Clients \ {p} /\ Admitted'
      /\ \A q \in Clients' : peer'[q] = peer[q]
  BY <1>1, DropShrinks
<1>3. SocketsTypeOK' BY <1>1, <1>2 DEF SocketsTypeOK, Connection, checkVars
<1>4. SlotsOfUpgrades' BY <1>1, <1>2, UpgradesStay
<1>5. SlotsOfChecks' BY <1>1, ChecksStay
<1>6. Stopped' BY <1>1, <1>2 DEF Stopped, checkVars
<1>7. ReadSince' BY <1>1 DEF ReadSince, checkVars
<1>8. TicksAreDecisive' BY <1>1, <1>2 DEF TicksAreDecisive, checkVars
<1> QED BY <1>2, <1>3, <1>4, <1>5, <1>6, <1>7, <1>8

LEMMA LeaveKeeps ==
  ASSUME SocketsIInv, NEW p \in Peer, Leave(p)
  PROVE  SocketsIInv'
<1> USE DEF SocketsIInv
<1>1. /\ Drop({p}) /\ tick' = [tick EXCEPT !.seen = @ \ {p}]
      /\ UNCHANGED <<serving, gen, verify, verifying, queue, look, orphans, checking>>
  BY DEF Leave
<1>2. /\ peer' \in [Peer -> Connection] /\ Clients' = Clients \ {p} /\ Admitted'
      /\ \A q \in Clients' : peer'[q] = peer[q]
  BY <1>1, DropShrinks
<1>3. tick \in Tick BY DEF SocketsTypeOK
<1>4. /\ tick'.open = tick.open /\ tick'.pending = tick.pending
      /\ tick'.since = tick.since /\ tick'.seen = tick.seen \ {p} /\ tick' \in Tick
  BY <1>1, <1>3 DEF Tick
<1>5. SocketsTypeOK' BY <1>1, <1>2, <1>4 DEF SocketsTypeOK, Connection
<1>6. SlotsOfUpgrades' BY <1>1, <1>2, UpgradesStay
<1>7. SlotsOfChecks' BY <1>1, <1>4 DEF SlotsOfChecks, InFlight
<1>8. Stopped' BY <1>1, <1>2, <1>4 DEF Stopped
<1>9. ReadSince' BY <1>1, <1>4 DEF ReadSince
<1>10. TicksAreDecisive' BY <1>2, <1>4 DEF TicksAreDecisive
<1> QED BY <1>2, <1>5, <1>6, <1>7, <1>8, <1>9, <1>10

-----------------------------------------------------------------------------
(* The re-check.                                                           *)

LEMMA StartTickKeeps ==
  ASSUME SocketsIInv, StartTick
  PROVE  SocketsIInv'
<1> USE DEF SocketsIInv
<1> DEFINE users == {UserOf[p] : p \in Clients}
<1>1. PICK q \in SetToSeqs(users) : Pump(q, look, checking)
  BY DEF StartTick
<1>2. /\ serving /\ ~tick.open /\ Clients # {}
      /\ tick' = [open |-> TRUE, pending |-> users, seen |-> Clients, since |-> gen]
      /\ UNCHANGED <<serving, gen, upgradeVars, orphans>>
  BY DEF StartTick
<1>3. tick.pending = {} /\ ToSet(queue) = {} /\ InFlight = {}
  BY <1>2 DEF SocketsTypeOK, SlotsOfChecks
<1>4. users \subseteq User /\ users # {} /\ Clients \subseteq Peer
  BY <1>2, SocketsAssumption DEF Clients
<1>5. IsFiniteSet(users)
  <2>1. IsFiniteSet(Clients) BY DEF Admitted
  <2> DEFINE f == [p \in Clients |-> UserOf[p]]
  <2>2. f \in Surjection(Clients, users) BY DEF Surjection
  <2> QED BY <2>1, <2>2, FS_Surjection
<1>6. q \in Seq(users) /\ IsInjective(q) /\ ToSet(q) = users
  BY <1>5, OrderingListsAll
<1>7. q \in Seq(User)
  <2>1. /\ Len(q) \in Nat /\ DOMAIN q = 1..Len(q) /\ \A i \in 1..Len(q) : q[i] \in users
        /\ q = [i \in 1..Len(q) |-> q[i]]
    BY <1>6, LenProperties
  <2> QED BY <1>4, <2>1, SeqDef
<1>8. /\ look \in [User -> Lookup] /\ checking \in Nat /\ orphans \in Nat
      /\ checking = Cardinality(InFlight) + orphans /\ checking <= Concurrency
      /\ IsFiniteSet(InFlight)
  BY DEF SocketsTypeOK, SlotsOfChecks
<1>9. {u \in User : look[u].at # "none"} = InFlight BY DEF InFlight
<1> HIDE DEF users
<1>10. /\ queue' \in Seq(User) /\ IsInjective(queue') /\ look' \in [User -> Lookup]
       /\ \A u \in User : look'[u].at = "read" => look'[u] = look[u]
       /\ ToSet(queue') \cap InFlight' = {} /\ ToSet(queue') \cup InFlight' = ToSet(q) \cup InFlight
       /\ IsFiniteSet(InFlight') /\ checking' \in Nat
       /\ checking' = Cardinality(InFlight') + orphans /\ checking' <= Concurrency
  BY <1>1, <1>3, <1>6, <1>7, <1>8, <1>9, PumpServes
<1>11. SlotsOfChecks' BY <1>2, <1>3, <1>6, <1>10 DEF SlotsOfChecks
<1>12. tick' \in Tick /\ tick'.open /\ tick'.pending # {}
  BY <1>2, <1>4 DEF Tick, SocketsTypeOK
<1>13. SocketsTypeOK' BY <1>2, <1>8, <1>10, <1>12 DEF SocketsTypeOK, upgradeVars
<1>14. Clients' = Clients /\ UNCHANGED <<peer, verify, verifying>>
  BY <1>2 DEF Clients, upgradeVars
<1>15. SlotsOfUpgrades' BY <1>14, UpgradesStay
<1>16. Admitted' BY <1>14 DEF Admitted, ConnectionsAreBounded, OfOrg, OfUser
<1>17. Stopped' BY <1>2 DEF Stopped
<1>18. ReadSince'
  <2>1. \A u \in User : gen[u] <= gen[u] BY SocketsAssumption DEF SocketsTypeOK
  <2>2. \A u \in User : look'[u].at # "read" BY <1>3, <1>10 DEF InFlight
  <2>3. \A p \in Clients : verify[p].at # "read" BY DEF SlotsOfUpgrades
  <2> QED BY <1>2, <1>14, <2>1, <2>2, <2>3 DEF ReadSince
<1>19. TicksAreDecisive' BY <1>2, <1>14 DEF TicksAreDecisive, users
<1> QED BY <1>11, <1>13, <1>15, <1>16, <1>17, <1>18, <1>19

LEMMA CheckReadsKeeps ==
  ASSUME SocketsIInv, NEW u \in User, CheckReads(u)
  PROVE  SocketsIInv'
<1> USE DEF SocketsIInv
<1>1. PICK v \in Reads(u) : look' = [look EXCEPT ![u] = v]
  BY DEF CheckReads
<1>2. look[u].at = "sent" /\ UNCHANGED <<serving, gen, upgradeVars, tick, queue, orphans, checking>>
  BY DEF CheckReads
<1>3. gen[u] \in 0..MaxGen BY DEF SocketsTypeOK
<1>4. /\ v \in Lookup /\ v.at \in {"read", "failed"}
      /\ v.at = "read" => v.gen = gen[u]
  BY <1>3, SocketsAssumption DEF Reads, Lookup
<1>5. InFlight' = InFlight BY <1>1, <1>2, <1>4 DEF InFlight, SocketsTypeOK
<1>6. SocketsTypeOK' BY <1>1, <1>2, <1>4 DEF SocketsTypeOK, upgradeVars
<1>7. Clients' = Clients /\ UNCHANGED <<peer, verify, verifying>>
  BY <1>2 DEF Clients, upgradeVars
<1>8. SlotsOfUpgrades' BY <1>7, UpgradesStay
<1>9. SlotsOfChecks' BY <1>2, <1>5 DEF SlotsOfChecks
<1>10. Admitted' BY <1>7 DEF Admitted, ConnectionsAreBounded, OfOrg, OfUser
<1>11. Stopped' BY <1>2, <1>7 DEF Stopped
<1>12. ReadSince' BY <1>1, <1>2, <1>3, <1>4, <1>7 DEF ReadSince, SocketsTypeOK, Tick
<1>13. TicksAreDecisive' BY <1>2, <1>7 DEF TicksAreDecisive
<1> QED BY <1>6, <1>8, <1>9, <1>10, <1>11, <1>12, <1>13

\* What resolving some users leaves of a tick.
LEMMA ResolveLeaves ==
  ASSUME tick \in Tick, NEW us, tick' = Resolve(us)
  PROVE  /\ tick' \in Tick /\ tick'.pending = tick.pending \ us
         /\ tick'.seen = tick.seen /\ tick'.since = tick.since
         /\ tick'.open <=> tick'.pending # {}
BY DEF Resolve, Tick

LEMMA CheckSettlesKeeps ==
  ASSUME SocketsIInv, NEW u \in User, CheckSettles(u)
  PROVE  SocketsIInv'
<1> USE DEF SocketsIInv
<1> DEFINE gone == {p \in Checked({u}) : Unfit(p, look[u])}
           l == [look EXCEPT ![u] = NoLookup]
<1>1. /\ look[u].at \in {"read", "failed"} /\ serving
      /\ Drop(gone) /\ tick' = Resolve({u}) /\ Pump(queue, l, checking - 1)
      /\ UNCHANGED <<serving, gen, verify, verifying, orphans>>
  BY DEF CheckSettles
<1>2. /\ peer' \in [Peer -> Connection] /\ Clients' = Clients \ gone /\ Admitted'
      /\ \A q \in Clients' : peer'[q] = peer[q]
  BY <1>1, DropShrinks
<1>3. /\ tick' \in Tick /\ tick'.pending = tick.pending \ {u}
      /\ tick'.seen = tick.seen /\ tick'.since = tick.since
      /\ tick'.open <=> tick'.pending # {}
  BY <1>1, ResolveLeaves DEF SocketsTypeOK
<1>4. /\ look \in [User -> Lookup] /\ queue \in Seq(User) /\ IsInjective(queue)
      /\ checking \in Nat /\ orphans \in Nat
      /\ checking = Cardinality(InFlight) + orphans /\ checking <= Concurrency
      /\ IsFiniteSet(InFlight) /\ ToSet(queue) \cap InFlight = {}
      /\ ToSet(queue) \cup InFlight = tick.pending
  BY DEF SocketsTypeOK, SlotsOfChecks
<1>5. u \in InFlight BY <1>1 DEF InFlight
<1> DEFINE L == {x \in User : l[x].at # "none"}
<1>6. l \in [User -> Lookup] /\ L = InFlight \ {u} /\ l[u].at = "none"
      /\ \A x \in User \ {u} : l[x] = look[x]
  BY <1>4, SocketsAssumption DEF InFlight, NoLookup, Lookup
<1>7. IsFiniteSet(L) /\ Cardinality(L) = Cardinality(InFlight) - 1
  BY <1>4, <1>5, <1>6, FS_RemoveElement
<1>8. Cardinality(L) \in Nat BY <1>7, FS_CardinalityType
<1>9. /\ checking - 1 \in Nat /\ checking - 1 = Cardinality(L) + orphans
      /\ checking - 1 <= Concurrency
  <2>1. Cardinality(InFlight) \in Nat BY <1>4, FS_CardinalityType
  <2> QED BY <1>4, <1>7, <1>8, <2>1, SocketsAssumption
<1> HIDE DEF l, gone
<1>10. /\ queue' \in Seq(User) /\ IsInjective(queue') /\ look' \in [User -> Lookup]
       /\ \A x \in User : look'[x].at = "read" => look'[x] = l[x]
       /\ ToSet(queue') \cap InFlight' = {} /\ ToSet(queue') \cup InFlight' = ToSet(queue) \cup L
       /\ IsFiniteSet(InFlight') /\ checking' \in Nat
       /\ checking' = Cardinality(InFlight') + orphans /\ checking' <= Concurrency
  <2>1. L \cap ToSet(queue) = {} BY <1>4, <1>6
  <2> QED BY <1>1, <1>4, <1>6, <1>7, <1>9, <2>1, PumpServes
<1>11. SlotsOfChecks'
  <2>1. u \notin ToSet(queue) BY <1>4, <1>5
  <2>2. ToSet(queue) \cup L = tick'.pending BY <1>3, <1>4, <1>6, <2>1
  <2> QED BY <1>1, <1>10, <2>2 DEF SlotsOfChecks
<1>12. SocketsTypeOK' BY <1>1, <1>2, <1>3, <1>4, <1>10 DEF SocketsTypeOK, Connection
<1>13. SlotsOfUpgrades' BY <1>1, <1>2, UpgradesStay
<1>14. Stopped' BY <1>1 DEF Stopped
<1>15. ReadSince'
  <2>1. \A x \in User : look'[x].at = "read" => look'[x] = look[x] BY <1>6, <1>10
  <2> QED BY <1>1, <1>3, <2>1 DEF ReadSince
<1>16. TicksAreDecisive'
  <2> SUFFICES ASSUME NEW p \in tick.seen \cap Clients', UserOf[p] \notin tick.pending \ {u}
               PROVE  peer'[p].gen >= tick.since[UserOf[p]]
    BY <1>3 DEF TicksAreDecisive
  <2>1. p \in Clients /\ peer'[p] = peer[p] BY <1>2
  <2>2. CASE UserOf[p] # u BY <2>1, <2>2 DEF TicksAreDecisive
  <2>3. CASE UserOf[p] = u
    <3>1. p \in Checked({u}) /\ p \notin gone BY <1>2, <2>1, <2>3 DEF Checked
    <3>2. look[u].at = "read" /\ look[u].gen = peer[p].gen BY <1>1, <3>1 DEF Unfit, gone
    <3>3. tick.since[u] <= look[u].gen BY <3>2 DEF ReadSince
    <3>4. look[u].gen \in Nat /\ tick.since[u] \in Nat
      BY <1>4, SocketsAssumption DEF Lookup, SocketsTypeOK, Tick
    <3> QED BY <2>1, <2>3, <3>2, <3>3, <3>4
  <2> QED BY <2>2, <2>3
<1> QED BY <1>2, <1>11, <1>12, <1>13, <1>14, <1>15, <1>16

LEMMA OrphanSettlesKeeps ==
  ASSUME SocketsIInv, OrphanSettles
  PROVE  SocketsIInv'
<1> USE DEF SocketsIInv
<1>1. /\ orphans > 0 /\ orphans' = orphans - 1
      /\ UNCHANGED <<serving, gen, upgradeVars, tick>>
      /\ \/ Pump(queue, look, checking - 1)
         \/ checking' = checking - 1 /\ UNCHANGED <<queue, look>>
  BY DEF OrphanSettles
<1>2. /\ look \in [User -> Lookup] /\ queue \in Seq(User) /\ IsInjective(queue)
      /\ checking \in Nat /\ orphans \in Nat
      /\ checking = Cardinality(InFlight) + orphans /\ checking <= Concurrency
      /\ IsFiniteSet(InFlight) /\ ToSet(queue) \cap InFlight = {}
      /\ ToSet(queue) \cup InFlight = tick.pending
  BY DEF SocketsTypeOK, SlotsOfChecks
<1>3. {u \in User : look[u].at # "none"} = InFlight BY DEF InFlight
<1>4. orphans' \in Nat /\ checking - 1 \in Nat /\ checking - 1 = Cardinality(InFlight) + orphans'
      /\ checking - 1 <= Concurrency
  <2>1. Cardinality(InFlight) \in Nat BY <1>2, FS_CardinalityType
  <2> QED BY <1>1, <1>2, <2>1, SocketsAssumption
<1>5. /\ queue' \in Seq(User) /\ IsInjective(queue') /\ look' \in [User -> Lookup]
      /\ \A u \in User : look'[u].at = "read" => look'[u] = look[u]
      /\ ToSet(queue') \cap InFlight' = {}
      /\ ToSet(queue') \cup InFlight' = ToSet(queue) \cup InFlight
      /\ IsFiniteSet(InFlight') /\ checking' \in Nat
      /\ checking' = Cardinality(InFlight') + orphans' /\ checking' <= Concurrency
  <2>1. CASE Pump(queue, look, checking - 1)
    <3>1. InFlight \cap ToSet(queue) = {} BY <1>2
    <3> QED BY <1>2, <1>3, <1>4, <2>1, <3>1, PumpServes
  <2>2. CASE checking' = checking - 1 /\ UNCHANGED <<queue, look>>
    BY <1>2, <1>4, <2>2 DEF InFlight
  <2> QED BY <1>1, <2>1, <2>2
<1>6. Clients' = Clients /\ UNCHANGED <<peer, verify, verifying>>
  BY <1>1 DEF Clients, upgradeVars
<1>7. SocketsTypeOK' BY <1>1, <1>4, <1>5, <1>6 DEF SocketsTypeOK
<1>8. SlotsOfUpgrades' BY <1>6, UpgradesStay
<1>9. SlotsOfChecks' BY <1>1, <1>2, <1>5 DEF SlotsOfChecks
<1>10. Admitted' BY <1>6 DEF Admitted, ConnectionsAreBounded, OfOrg, OfUser
<1>11. Stopped' BY <1>1, <1>6 DEF Stopped
<1>12. ReadSince' BY <1>1, <1>5, <1>6 DEF ReadSince
<1>13. TicksAreDecisive' BY <1>1, <1>6 DEF TicksAreDecisive
<1> QED BY <1>7, <1>8, <1>9, <1>10, <1>11, <1>12, <1>13

\* A tick that ends early leaves its lookups in flight as orphans.
LEMMA OrphansAreCounted ==
  ASSUME SocketsTypeOK, SlotsOfChecks, tick' = Resolve(tick.pending), queue' = << >>,
         orphans' = orphans + Cardinality(InFlight), look' = [u \in User |-> NoLookup],
         UNCHANGED checking
  PROVE  /\ SlotsOfChecks' /\ orphans' \in Nat
         /\ look' \in [User -> Lookup] /\ queue' \in Seq(User)
<1>1. /\ IsFiniteSet(InFlight) /\ checking = Cardinality(InFlight) + orphans
      /\ checking <= Concurrency /\ orphans \in Nat
  BY DEF SlotsOfChecks, SocketsTypeOK
<1>2. Cardinality(InFlight) \in Nat BY <1>1, FS_CardinalityType
<1>3. InFlight' = {} BY DEF InFlight, NoLookup
<1>4. IsFiniteSet(InFlight') /\ Cardinality(InFlight') = 0 BY <1>3, FS_EmptySet
<1>5. tick'.pending = {} BY ResolveLeaves DEF SocketsTypeOK
<1>6. queue' \in Seq(User) /\ IsInjective(queue') /\ ToSet(queue') = {}
  BY EmptySeq DEF IsInjective, ToSet
<1>7. look' \in [User -> Lookup] BY SocketsAssumption DEF Lookup, NoLookup
<1>8. orphans' \in Nat /\ checking' = Cardinality(InFlight') + orphans'
  BY <1>1, <1>2, <1>4
<1> QED BY <1>1, <1>3, <1>4, <1>5, <1>6, <1>7, <1>8 DEF SlotsOfChecks

LEMMA DeadlineKeeps ==
  ASSUME SocketsIInv, Deadline
  PROVE  SocketsIInv'
<1> USE DEF SocketsIInv
<1>1. /\ serving /\ Drop(Checked(tick.pending)) /\ tick' = Resolve(tick.pending)
      /\ queue' = << >> /\ UNCHANGED checking
      /\ orphans' = orphans + Cardinality(InFlight) /\ look' = [u \in User |-> NoLookup]
      /\ UNCHANGED <<serving, gen, verify, verifying>>
  BY DEF Deadline, Unresolved
<1>2. /\ peer' \in [Peer -> Connection] /\ Clients' = Clients \ Checked(tick.pending)
      /\ Admitted' /\ \A q \in Clients' : peer'[q] = peer[q]
  BY <1>1, DropShrinks
<1>3. /\ tick' \in Tick /\ tick'.seen = tick.seen /\ tick'.since = tick.since
      /\ tick'.open <=> tick'.pending # {}
  BY <1>1, ResolveLeaves DEF SocketsTypeOK
<1>4. /\ SlotsOfChecks' /\ orphans' \in Nat
      /\ look' \in [User -> Lookup] /\ queue' \in Seq(User)
  BY <1>1, OrphansAreCounted
<1>5. SocketsTypeOK' BY <1>1, <1>2, <1>3, <1>4 DEF SocketsTypeOK, Connection
<1>6. SlotsOfUpgrades' BY <1>1, <1>2, UpgradesStay
<1>7. Stopped' BY <1>1 DEF Stopped
<1>8. ReadSince' BY <1>1, <1>3 DEF ReadSince, NoLookup
<1>9. TicksAreDecisive'
  <2> SUFFICES ASSUME NEW p \in tick.seen \cap Clients'
               PROVE  peer'[p].gen >= tick.since[UserOf[p]]
    BY <1>3 DEF TicksAreDecisive
  <2>1. p \in Clients /\ peer'[p] = peer[p] /\ p \notin Checked(tick.pending) BY <1>2
  <2>2. UserOf[p] \notin tick.pending BY <2>1 DEF Checked
  <2> QED BY <2>1, <2>2 DEF TicksAreDecisive
<1> QED BY <1>2, <1>4, <1>5, <1>6, <1>7, <1>8, <1>9

LEMMA RevokeKeeps ==
  ASSUME SocketsIInv, NEW u \in User, Revoke(u)
  PROVE  SocketsIInv'
<1> USE DEF SocketsIInv
<1>1. /\ gen[u] < MaxGen /\ gen' = [gen EXCEPT ![u] = @ + 1]
      /\ UNCHANGED <<serving, upgradeVars, checkVars>>
  BY DEF Revoke
<1>2. gen' \in [User -> 0..MaxGen] /\ \A x \in User : gen[x] <= gen'[x]
  BY <1>1, SocketsAssumption DEF SocketsTypeOK
<1>3. Clients' = Clients /\ UNCHANGED <<peer, verify, verifying>>
  BY <1>1 DEF Clients, upgradeVars
<1>4. SocketsTypeOK' BY <1>1, <1>2, <1>3 DEF SocketsTypeOK, checkVars
<1>5. SlotsOfUpgrades' BY <1>3, UpgradesStay
<1>6. SlotsOfChecks' BY <1>1, ChecksStay
<1>7. Admitted' BY <1>3 DEF Admitted, ConnectionsAreBounded, OfOrg, OfUser
<1>8. Stopped' BY <1>1, <1>3 DEF Stopped, checkVars
<1>9. ReadSince'
  <2>1. \A x \in User : tick.since[x] \in Nat /\ gen[x] \in Nat /\ gen'[x] \in Nat
    BY <1>2, SocketsAssumption DEF SocketsTypeOK, Tick
  <2>2. \A x \in User : tick.since[x] <= gen'[x] BY <1>2, <2>1 DEF ReadSince
  <2> QED BY <1>1, <1>3, <2>2 DEF ReadSince, checkVars
<1>10. TicksAreDecisive' BY <1>1, <1>3 DEF TicksAreDecisive, checkVars
<1> QED BY <1>4, <1>5, <1>6, <1>7, <1>8, <1>9, <1>10

LEMMA ShutdownKeeps ==
  ASSUME SocketsIInv, Shutdown
  PROVE  SocketsIInv'
<1> USE DEF SocketsIInv
<1>1. /\ serving' = FALSE /\ Drop(Peer) /\ tick' = Resolve(tick.pending)
      /\ queue' = << >> /\ UNCHANGED checking
      /\ orphans' = orphans + Cardinality(InFlight) /\ look' = [u \in User |-> NoLookup]
      /\ UNCHANGED <<gen, verify, verifying>>
  BY DEF Shutdown
<1>2. peer' \in [Peer -> Connection] /\ Clients' = Clients \ Peer /\ Admitted'
  BY <1>1, DropShrinks
<1>3. Clients' = {} BY <1>2 DEF Clients
<1>4. /\ tick' \in Tick /\ tick'.pending = {} /\ tick'.seen = tick.seen
      /\ tick'.since = tick.since /\ (tick'.open <=> tick'.pending # {})
  BY <1>1, ResolveLeaves DEF SocketsTypeOK
<1>5. /\ SlotsOfChecks' /\ orphans' \in Nat
      /\ look' \in [User -> Lookup] /\ queue' \in Seq(User)
  BY <1>1, OrphansAreCounted
<1>6. SocketsTypeOK' BY <1>1, <1>2, <1>4, <1>5 DEF SocketsTypeOK, Connection
<1>7. SlotsOfUpgrades' BY <1>1, <1>3, UpgradesStay
<1>8. Stopped' BY <1>3, <1>4 DEF Stopped
<1>9. ReadSince' BY <1>1, <1>4 DEF ReadSince, NoLookup
<1>10. TicksAreDecisive' BY <1>3 DEF TicksAreDecisive
<1> QED BY <1>2, <1>5, <1>6, <1>7, <1>8, <1>9, <1>10

-----------------------------------------------------------------------------
LEMMA SocketsStart == SocketsInit => SocketsIInv
<1> SUFFICES ASSUME SocketsInit PROVE SocketsIInv OBVIOUS
<1> USE DEF SocketsInit
<1>1. SocketsTypeOK
  <2>1. 0 \in 0..MaxGen /\ << >> \in Seq(User) BY SocketsAssumption, EmptySeq
  <2> QED BY <2>1 DEF SocketsTypeOK, Lookup, NoLookup, Out, Tick
<1>2. Clients = {} /\ Verifying = {} /\ InFlight = {}
  BY DEF Clients, Verifying, InFlight, Out, NoLookup
<1>3. SlotsOfUpgrades BY <1>2, FS_EmptySet, SocketsAssumption DEF SlotsOfUpgrades
<1>4. SlotsOfChecks
  <2>1. IsInjective(queue) /\ ToSet(queue) = {} BY EmptySeq DEF IsInjective, ToSet
  <2> QED BY <1>2, <2>1, FS_EmptySet, SocketsAssumption DEF SlotsOfChecks
<1>5. Admitted
  <2>1. \A x : OfOrg(x) = {} /\ OfUser(x) = {} BY <1>2 DEF OfOrg, OfUser
  <2>2. Cardinality({}) = 0 /\ IsFiniteSet({}) BY FS_EmptySet
  <2>3. 0 <= MaxConnections /\ 0 <= MaxOrgConnections /\ 0 <= MaxUserConnections
    BY SocketsAssumption
  <2>4. IsFiniteSet(Clients) /\ Cardinality(Clients) <= MaxConnections BY <1>2, <2>2, <2>3
  <2>5. \A o \in Org : Cardinality(OfOrg(o)) <= MaxOrgConnections BY <2>1, <2>2, <2>3
  <2>6. \A u \in User : Cardinality(OfUser(u)) <= MaxUserConnections BY <2>1, <2>2, <2>3
  <2> QED BY <2>4, <2>5, <2>6 DEF Admitted, ConnectionsAreBounded
<1>6. Stopped BY DEF Stopped
<1>7. ReadSince BY SocketsAssumption DEF ReadSince, NoLookup
<1>8. TicksAreDecisive BY DEF TicksAreDecisive
<1> QED BY <1>1, <1>3, <1>4, <1>5, <1>6, <1>7, <1>8 DEF SocketsIInv

LEMMA SocketsNext == SocketsIInv /\ [SocketsStep]_socketVars => SocketsIInv'
<1> SUFFICES ASSUME SocketsIInv, [SocketsStep]_socketVars PROVE SocketsIInv' OBVIOUS
<1>1. ASSUME NEW p \in Peer, PeerStep(p) PROVE SocketsIInv'
  BY <1>1, UpgradeKeeps, VerifyReadsKeeps, VerifySettlesKeeps, AbandonKeeps, LeaveKeeps
     DEF PeerStep
<1>2. CASE StartTick BY <1>2, StartTickKeeps
<1>3. CASE Deadline BY <1>3, DeadlineKeeps
<1>4. CASE OrphanSettles BY <1>4, OrphanSettlesKeeps
<1>5. CASE Shutdown BY <1>5, ShutdownKeeps
<1>6. ASSUME NEW u \in User, CheckReads(u) \/ CheckSettles(u) \/ Revoke(u) PROVE SocketsIInv'
  BY <1>6, CheckReadsKeeps, CheckSettlesKeeps, RevokeKeeps
<1>7. CASE UNCHANGED socketVars
  BY <1>7 DEF SocketsIInv, socketVars, upgradeVars, checkVars, SocketsTypeOK, SlotsOfUpgrades,
     Verifying, SlotsOfChecks, InFlight, Admitted, ConnectionsAreBounded, OfOrg, OfUser, Clients,
     Stopped, ReadSince, TicksAreDecisive
<1> QED BY <1>1, <1>2, <1>3, <1>4, <1>5, <1>6, <1>7 DEF SocketsStep

LEMMA SocketsKept == SocketsIInv => SocketsInv
<1> SUFFICES ASSUME SocketsIInv PROVE SocketsInv OBVIOUS
<1> USE DEF SocketsIInv
<1>1. LookupsAreCounted
  BY DEF LookupsAreCounted, SlotsOfUpgrades, Verifying, SlotsOfChecks
<1>2. ConnectionsAreBounded BY DEF Admitted
<1>3. ClosedStaysEmpty
  <2>1. ASSUME ~serving PROVE queue = << >>
    <3>1. ToSet(queue) = {} /\ queue \in Seq(User)
      BY <2>1 DEF Stopped, SlotsOfChecks, SocketsTypeOK
    <3>2. Len(queue) \in Nat /\ DOMAIN queue = 1..Len(queue) BY <3>1, LenProperties
    <3>3. DOMAIN queue = {} BY <3>1 DEF ToSet
    <3>4. Len(queue) = 0 BY <3>2, <3>3
    <3> QED BY <3>1, <3>4, EmptySeq
  <2> QED BY <2>1 DEF ClosedStaysEmpty, Stopped
<1> QED BY <1>1, <1>2, <1>3 DEF SocketsInv

\* However many sockets come, leave and time out while lookups hang, the counters are
\* the lookups in flight, no cap is exceeded and a closed service stays empty.
THEOREM SocketsAreCounted == SocketsSpec => []SocketsInv
BY SocketsStart, SocketsNext, SocketsKept, PTL DEF SocketsSpec

\* A tick that is over has closed every connection whose user was unfit when it began.
THEOREM TicksDecide == SocketsSpec => []TicksAreDecisive
<1>1. SocketsIInv => TicksAreDecisive BY DEF SocketsIInv
<1> QED BY <1>1, SocketsStart, SocketsNext, PTL DEF SocketsSpec
=============================================================================
