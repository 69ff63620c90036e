------------------------ MODULE SnapshotCache_proofs ------------------------
(***************************************************************************)
(* Theorems about the snapshot cache, for every number of threads, every   *)
(* time to live and every bound.                                           *)
(***************************************************************************)
EXTENDS SnapshotCache, SequenceTheorems, TLAPS

LEMMA ConstantsAreNaturals ==
    /\ MaxTime \in Nat /\ MaxChanges \in Nat /\ MaxCalls \in Nat
    /\ Domains \in Nat /\ TTLs \subseteq Nat /\ Free \notin Threads
BY ThreadsAssumption, DomainsAssumption, TTLAssumption, BoundsAssumption
   DEF ThreadsAssumption, DomainsAssumption, TTLAssumption, BoundsAssumption

LEMMA AppendedReading ==
    ASSUME NEW seq \in Seq(Versions), NEW v \in Versions
    PROVE  /\ Append(seq, v) \in Seq(Versions)
           /\ Len(Append(seq, v)) = Len(seq) + 1
           /\ \A i \in 1..Len(Append(seq, v)) :
                 Append(seq, v)[i] = IF i <= Len(seq) THEN seq[i] ELSE v
OBVIOUS

LEMMA WholeReading ==
    ASSUME NEW seq \in Seq(Versions), Len(seq) = Domains
    PROVE  seq \in [1..Domains -> Versions]
BY ConstantsAreNaturals

-----------------------------------------------------------------------------
(* Types, and the lock: only the thread that collects has it, and what was *)
(* read is gone when it is free.                                           *)

LockInv ==
    /\ \A t \in Threads : pc[t] = "collect" => lock = t
    /\ lock = Free => reading = <<>>

TypeInv == TypeOK /\ LockInv

LEMMA InitType == Init => TypeInv
<1> USE ConstantsAreNaturals
<1>1. Init => TypeOK
  BY DEF Init, TypeOK
<1>2. Init => LockInv
  BY DEF Init, LockInv
<1>3. QED
  BY <1>1, <1>2 DEF TypeInv

(* What leaves the with block does to types and lock.                      *)
LEMMA CollectionOverType ==
    ASSUME TypeInv, NEW t \in Threads, pc[t] = "collect", CollectionOver(t)
    PROVE  /\ lock' = Free /\ reading' = <<>>
           /\ reading' \in Seq(Versions) /\ Len(reading') <= Domains
           /\ pc' \in [Threads -> {"idle", "get", "force", "collect", "returned"}]
           /\ check' \in [Threads -> 0..MaxTime]
           /\ \A u \in Threads : pc'[u] # "collect"
<1> USE ConstantsAreNaturals
<1>1. \A u \in Threads : pc'[u] = IF u = t THEN "returned" ELSE pc[u]
  BY DEF CollectionOver, TypeInv, TypeOK
<1>2. \A u \in Threads : pc[u] = "collect" => u = t
  BY DEF TypeInv, LockInv
<1>3. QED
  BY <1>1, <1>2 DEF CollectionOver, TypeInv, TypeOK

LEMMA StepType == TypeInv /\ [Next]_vars => TypeInv'
<1> SUFFICES ASSUME TypeInv, [Next]_vars PROVE TypeInv'
  OBVIOUS
<1> USE ConstantsAreNaturals
<1>0. TypeOK /\ LockInv
  BY DEF TypeInv
<1>1. CASE Change
  BY <1>0, <1>1 DEF Change, cacheVars, TypeInv, TypeOK, LockInv
<1>2. CASE Tick
  <2>1. clock' \in 0..MaxTime /\ since' \in [0..MaxTime -> 0..MaxChanges]
    BY <1>0, <1>2 DEF Tick, TypeOK
  <2>2. UNCHANGED <<world, ttl, snapshot, expires, floor, lock, pc, check,
                    reading, answer, calls>>
    BY <1>2 DEF Tick, cacheVars
  <2>3. QED
    BY <1>0, <2>1, <2>2 DEF TypeInv, TypeOK, LockInv
<1>4. ASSUME NEW t \in Threads, NEW forced \in BOOLEAN, Call(t, forced)
      PROVE  TypeInv'
  BY <1>0, <1>4 DEF Call, machineVars, cacheVars, TypeInv, TypeOK, LockInv
<1>5. ASSUME NEW t \in Threads, Hit(t) PROVE TypeInv'
  <2> DEFINE a == [snap |-> snapshot, now |-> clock, ttl |-> ttl, floor |-> floor]
  <2>1. a \in Answer
    BY <1>0, <1>5 DEF Hit, Answer, TypeOK
  <2> HIDE DEF a
  <2>2. answer' = [answer EXCEPT ![t] = a]
    BY <1>5 DEF Hit, a
  <2>3. answer' \in [Threads -> Answer \union {Cold}]
    BY <1>0, <2>1, <2>2 DEF TypeOK
  <2>4. pc' \in [Threads -> {"idle", "get", "force", "collect", "returned"}]
    BY <1>0, <1>5 DEF Hit, TypeOK
  <2>5. TypeOK'
    BY <1>0, <1>5, <2>3, <2>4 DEF Hit, machineVars, cacheVars, TypeOK
  <2>6. LockInv'
    BY <1>0, <1>5 DEF Hit, TypeOK, LockInv
  <2>7. QED
    BY <2>5, <2>6 DEF TypeInv
<1>6. ASSUME NEW t \in Threads, Miss(t) PROVE TypeInv'
  <2>1. pc' \in [Threads -> {"idle", "get", "force", "collect", "returned"}]
        /\ check' \in [Threads -> 0..MaxTime]
    BY <1>0, <1>6 DEF Miss, TypeOK
  <2>2. TypeOK'
    BY <1>0, <1>6, <2>1 DEF Miss, machineVars, cacheVars, TypeOK
  <2>3. LockInv'
    BY <1>0, <1>6 DEF Miss, TypeOK, LockInv
  <2>4. QED
    BY <2>2, <2>3 DEF TypeInv
<1>7. ASSUME NEW t \in Threads, Read(t) PROVE TypeInv'
  <2>0. PICK seen \in {world, Missing} : reading' = Append(reading, seen)
    BY <1>7 DEF Read
  <2>1. reading' \in Seq(Versions) /\ Len(reading') <= Domains
    BY <1>0, <1>7, <2>0, AppendedReading DEF Read, TypeOK, Versions
  <2>2. TypeOK'
    BY <1>0, <1>7, <2>1 DEF Read, machineVars, cacheVars, TypeOK
  <2>3. lock # Free
    BY <1>0, <1>7 DEF Read, LockInv
  <2>4. LockInv'
    BY <1>0, <1>7, <2>3 DEF Read, LockInv
  <2>5. QED
    BY <2>2, <2>4 DEF TypeInv
<1>8. ASSUME NEW t \in Threads, Store(t) PROVE TypeInv'
  <2> DEFINE snap == [facts |-> reading, ttl |-> ttl]
             a == [snap |-> snap, now |-> check[t], ttl |-> ttl, floor |-> floor]
  <2>1. snap \in Snapshot
    BY <1>0, <1>8, WholeReading DEF Store, Snapshot, TypeOK
  <2> HIDE DEF snap
  <2>2. a \in Answer
    BY <1>0, <2>1 DEF Answer, TypeOK
  <2>3. snapshot' = snap /\ answer' = [answer EXCEPT ![t] = a]
    BY <1>8 DEF Store, snap
  <2> HIDE DEF a
  <2>4. answer' \in [Threads -> Answer \union {Cold}]
    BY <1>0, <2>2, <2>3 DEF TypeOK
  <2>5. expires' \in Nat
    BY <1>0, <1>8 DEF Store, Expiry, TypeOK
  <2>6. CollectionOver(t) /\ pc[t] = "collect"
    BY <1>8 DEF Store
  <2>7. TypeOK'
    BY <1>0, <1>8, <2>1, <2>3, <2>4, <2>5, <2>6, CollectionOverType
       DEF Store, machineVars, TypeInv, TypeOK
  <2>8. LockInv'
    BY <2>6, CollectionOverType DEF LockInv
  <2>9. QED
    BY <2>7, <2>8 DEF TypeInv
<1>9. ASSUME NEW t \in Threads, CollectFails(t) PROVE TypeInv'
  <2>1. CollectionOver(t) /\ pc[t] = "collect"
    BY <1>9 DEF CollectFails
  <2>2. answer' \in [Threads -> Answer \union {Cold}]
    BY <1>0, <1>9 DEF CollectFails, TypeOK
  <2>3. TypeOK'
    BY <1>0, <1>9, <2>1, <2>2, CollectionOverType
       DEF CollectFails, machineVars, cacheVars, TypeInv, TypeOK
  <2>4. LockInv'
    BY <2>1, CollectionOverType DEF LockInv
  <2>5. QED
    BY <2>3, <2>4 DEF TypeInv
<1>10. ASSUME NEW t \in Threads, Invalidate(t) PROVE TypeInv'
  BY <1>0, <1>10 DEF Invalidate, machineVars, TypeInv, TypeOK, LockInv
<1>11. ASSUME NEW t \in Threads, NEW value \in TTLs, SetTTL(t, value)
       PROVE  TypeInv'
  BY <1>0, <1>11 DEF SetTTL, machineVars, TypeInv, TypeOK, LockInv
<1>12. ASSUME NEW t \in Threads, Return(t) PROVE TypeInv'
  <2>1. /\ pc' \in [Threads -> {"idle", "get", "force", "collect", "returned"}]
        /\ answer' \in [Threads -> Answer \union {Cold}]
    BY <1>0, <1>12 DEF Return, TypeOK
  <2>3. TypeOK'
    BY <1>0, <1>12, <2>1 DEF Return, machineVars, cacheVars, TypeOK
  <2>4. LockInv'
    BY <1>0, <1>12 DEF Return, TypeOK, LockInv
  <2>5. QED
    BY <2>3, <2>4 DEF TypeInv
<1>14. CASE UNCHANGED vars
  BY <1>0, <1>14 DEF vars, machineVars, cacheVars, TypeInv, TypeOK, LockInv
<1>15. CASE Done
  BY <1>14, <1>15 DEF Done
<1>16. QED
  BY <1>1, <1>2, <1>4, <1>5, <1>6, <1>7, <1>8, <1>9, <1>10, <1>11,
     <1>12, <1>14, <1>15 DEF Next, Get

LEMMA TypesAndLock == Spec => []TypeInv
BY InitType, StepType, PTL DEF Spec

(* The cache keeps the types of its variables: SnapshotCache.              *)
THEOREM CacheTypeCorrect == Spec => []TypeOK
<1>1. TypeInv => TypeOK
  BY DEF TypeInv
<1>2. QED
  BY <1>1, TypesAndLock, PTL

-----------------------------------------------------------------------------
(* The barrier: nothing the cache holds, and nothing a collection in       *)
(* progress has read, is older than the last invalidate.                   *)

BarrierInv ==
    /\ floor <= world
    /\ snapshot # Cold => NotBefore(snapshot.facts, floor)
    /\ NotBefore(reading, floor)
    /\ \A t \in Threads : answer[t] # Cold =>
           NotBefore(answer[t].snap.facts, answer[t].floor)

LEMMA EmptyReading == \A version : NotBefore(<<>>, version)
BY DEF NotBefore

LEMMA FieldsOfAnswer ==
    ASSUME NEW snap, NEW now, NEW life, NEW low
    PROVE  LET a == [snap |-> snap, now |-> now, ttl |-> life, floor |-> low]
           IN  a.snap = snap /\ a.now = now /\ a.ttl = life /\ a.floor = low
OBVIOUS

LEMMA FieldsOfSnapshot ==
    ASSUME NEW facts, NEW life
    PROVE  LET s == [facts |-> facts, ttl |-> life]
           IN  s.facts = facts /\ s.ttl = life
OBVIOUS

(* A read of the machine is at least as new as what it was compared with.  *)
LEMMA ReadIsNotBefore ==
    ASSUME NEW seq \in Seq(Versions), NEW v \in Versions,
           NEW version, v = Missing \/ v >= version, NotBefore(seq, version)
    PROVE  NotBefore(Append(seq, v), version)
<1>1. DOMAIN seq = 1..Len(seq)
      /\ DOMAIN Append(seq, v) = 1..Len(Append(seq, v))
  OBVIOUS
<1>2. \A i \in 1..Len(Append(seq, v)) :
         /\ Append(seq, v)[i] = IF i <= Len(seq) THEN seq[i] ELSE v
         /\ i <= Len(seq) => i \in 1..Len(seq)
  BY AppendedReading
<1>3. QED
  BY <1>1, <1>2 DEF NotBefore

LEMMA InitBarrier == Init => BarrierInv
BY EmptyReading, ConstantsAreNaturals DEF Init, BarrierInv

LEMMA StepBarrier == TypeInv /\ BarrierInv /\ [Next]_vars => BarrierInv'
<1> SUFFICES ASSUME TypeInv, BarrierInv, [Next]_vars PROVE BarrierInv'
  OBVIOUS
<1> USE ConstantsAreNaturals
<1>0. TypeOK /\ LockInv
  BY DEF TypeInv
<1>1. CASE Change
  BY <1>0, <1>1 DEF Change, cacheVars, TypeOK, BarrierInv
<1>2. CASE Tick
  BY <1>2 DEF Tick, cacheVars, BarrierInv
<1>4. ASSUME NEW t \in Threads, NEW forced \in BOOLEAN, Call(t, forced)
      PROVE  BarrierInv'
  BY <1>4 DEF Call, machineVars, cacheVars, BarrierInv
<1>5. ASSUME NEW t \in Threads, Hit(t) PROVE BarrierInv'
  <2> DEFINE a == [snap |-> snapshot, now |-> clock, ttl |-> ttl, floor |-> floor]
  <2>1. a.snap = snapshot /\ a.floor = floor
    BY FieldsOfAnswer
  <2> HIDE DEF a
  <2>2. answer' = [answer EXCEPT ![t] = a] /\ snapshot # Cold
    BY <1>5 DEF Hit, a
  <2>3. UNCHANGED <<world, snapshot, floor, reading>>
    BY <1>5 DEF Hit, machineVars, cacheVars
  <2>4. QED
    BY <1>0, <2>1, <2>2, <2>3 DEF BarrierInv, TypeOK
<1>6. ASSUME NEW t \in Threads, Miss(t) PROVE BarrierInv'
  BY <1>6, EmptyReading DEF Miss, machineVars, cacheVars, BarrierInv
<1>7. ASSUME NEW t \in Threads, Read(t) PROVE BarrierInv'
  <2>0. PICK seen \in {world, Missing} : reading' = Append(reading, seen)
    BY <1>7 DEF Read
  <2>1. /\ seen = Missing \/ seen >= floor
        /\ reading \in Seq(Versions) /\ seen \in Versions
        /\ NotBefore(reading, floor)
    BY <1>0, <2>0 DEF BarrierInv, TypeOK, Versions
  <2>2. NotBefore(reading', floor)
    BY <2>0, <2>1, ReadIsNotBefore
  <2>3. QED
    BY <1>7, <2>2 DEF Read, machineVars, cacheVars, BarrierInv
<1>8. ASSUME NEW t \in Threads, Store(t) PROVE BarrierInv'
  <2> DEFINE snap == [facts |-> reading, ttl |-> ttl]
             a == [snap |-> snap, now |-> check[t], ttl |-> ttl, floor |-> floor]
  <2>1. snap.facts = reading
    BY FieldsOfSnapshot
  <2> HIDE DEF snap
  <2>2. a.snap = snap /\ a.floor = floor
    BY FieldsOfAnswer
  <2>3. snapshot' = snap /\ answer' = [answer EXCEPT ![t] = a]
    BY <1>8 DEF Store, snap
  <2> HIDE DEF a
  <2>4. UNCHANGED <<world, floor>> /\ reading' = <<>>
    BY <1>8 DEF Store, CollectionOver, machineVars
  <2>5. QED
    BY <1>0, <2>1, <2>2, <2>3, <2>4, EmptyReading DEF BarrierInv, TypeOK
<1>9. ASSUME NEW t \in Threads, CollectFails(t) PROVE BarrierInv'
  <2>1. /\ UNCHANGED <<world, snapshot, floor>> /\ reading' = <<>>
        /\ answer' = [answer EXCEPT ![t] = Cold]
    BY <1>9 DEF CollectFails, CollectionOver, machineVars, cacheVars
  <2>2. QED
    BY <1>0, <2>1, EmptyReading DEF BarrierInv, TypeOK
<1>10. ASSUME NEW t \in Threads, Invalidate(t) PROVE BarrierInv'
  <2>1. reading' = <<>> /\ snapshot' = Cold /\ floor' = world
        /\ UNCHANGED <<world, answer>>
    BY <1>0, <1>10 DEF Invalidate, machineVars, LockInv
  <2>2. QED
    BY <1>0, <2>1, EmptyReading DEF BarrierInv, TypeOK
<1>11. ASSUME NEW t \in Threads, NEW value \in TTLs, SetTTL(t, value)
       PROVE  BarrierInv'
  BY <1>11 DEF SetTTL, machineVars, BarrierInv
<1>12. ASSUME NEW t \in Threads, Return(t) PROVE BarrierInv'
  <2>1. /\ UNCHANGED <<world, snapshot, floor, reading>>
        /\ answer' = [answer EXCEPT ![t] = Cold]
    BY <1>12 DEF Return, machineVars, cacheVars
  <2>2. QED
    BY <1>0, <2>1 DEF BarrierInv, TypeOK
<1>14. CASE UNCHANGED vars
  BY <1>14 DEF vars, machineVars, cacheVars, BarrierInv
<1>15. CASE Done
  BY <1>14, <1>15 DEF Done
<1>16. QED
  BY <1>1, <1>2, <1>4, <1>5, <1>6, <1>7, <1>8, <1>9, <1>10, <1>11,
     <1>12, <1>14, <1>15 DEF Next, Get

(* A get that looks at the cache after an invalidate shows everything that *)
(* had happened before it, however many threads share the cache and        *)
(* however slow the collections are: get and invalidate.                   *)
THEOREM NothingOlderThanInvalidate == Spec => []InvalidateIsABarrier
<1>1. BarrierInv => InvalidateIsABarrier
  BY DEF BarrierInv, InvalidateIsABarrier
<1>2. Spec => []BarrierInv
  BY InitBarrier, StepBarrier, TypesAndLock, PTL DEF Spec
<1>3. QED
  BY <1>1, <1>2, PTL

-----------------------------------------------------------------------------
(* Freshness: the expiry of an entry tells when its collection began, and  *)
(* all that was read since then is at least as new as the machine was at   *)
(* that time.                                                              *)

HistoryInv ==
    \A i \in 0..clock : /\ since[i] <= world
                        /\ \A j \in i..clock : since[i] <= since[j]

EntryInv ==
    snapshot # Cold =>
        \E began \in 0..clock : /\ expires = began + snapshot.ttl
                                /\ NotBefore(snapshot.facts, since[began])

CollectionInv ==
    \A t \in Threads : pc[t] = "collect" =>
        check[t] <= clock /\ NotBefore(reading, since[check[t]])

AnswerInv ==
    \A t \in Threads : answer[t] # Cold =>
        /\ answer[t].now <= clock
        /\ NotBefore(answer[t].snap.facts, Oldest(answer[t]))

FreshInv == HistoryInv /\ EntryInv /\ CollectionInv /\ AnswerInv

LEMMA NewerStillNotBefore ==
    ASSUME NEW seq, NEW m \in 0..MaxChanges, NEW n \in 0..MaxChanges, m <= n,
           \A d \in DOMAIN seq : seq[d] \in Versions, NotBefore(seq, n)
    PROVE  NotBefore(seq, m)
BY ConstantsAreNaturals DEF NotBefore, Versions

(* What was collected from began on is fresh enough for an answer given    *)
(* before the entry expired, or at once.                                   *)
LEMMA OldestIsBounded ==
    ASSUME TypeOK, HistoryInv, NEW a \in Answer, a.now <= clock,
           NEW began \in 0..a.now,
           a.now < began + a.snap.ttl \/ began = a.now
    PROVE  Oldest(a) \in 0..MaxChanges /\ Oldest(a) <= since[began]
<1> USE ConstantsAreNaturals
<1> DEFINE life == Life(a)
<1>0. a.now \in Nat /\ a.ttl \in Nat /\ a.snap.ttl \in Nat
  BY DEF Answer, Snapshot
<1>1. /\ a.now \in Nat /\ life \in Nat
      /\ a.now < began + life \/ began = a.now
  BY <1>0 DEF Life
<1>2. \A i \in 0..clock : i \in 0..MaxTime /\ since[i] \in 0..MaxChanges
  BY DEF TypeOK
<1>3. clock \in Nat
  BY DEF TypeOK
<1>d. Oldest(a) = CASE life = 0          -> since[a.now]
                    [] life > a.now      -> since[0]
                    [] life \in 1..a.now -> since[a.now + 1 - life]
  BY DEF Oldest
<1> HIDE DEF life
<1>4. CASE life = 0
  <2>1. Oldest(a) = since[a.now]
    BY <1>1, <1>4, <1>d
  <2>2. began = a.now
    BY <1>1, <1>4
  <2>3. QED
    BY <1>1, <1>2, <1>3, <2>1, <2>2
<1>5. CASE life > a.now
  <2>1. Oldest(a) = since[0]
    BY <1>1, <1>5, <1>d
  <2>2. QED
    BY <1>1, <1>2, <1>3, <2>1 DEF HistoryInv
<1>6. CASE life \in 1..a.now
  <2> DEFINE first == a.now + 1 - life
  <2>1. Oldest(a) = since[first]
    BY <1>1, <1>6, <1>d
  <2>2. first \in 0..clock /\ first <= began /\ began \in first..clock
    BY <1>1, <1>3, <1>6
  <2> HIDE DEF first
  <2>3. QED
    BY <1>2, <2>1, <2>2 DEF HistoryInv
<1>7. QED
  BY <1>1, <1>4, <1>5, <1>6

LEMMA ElementsOfReading ==
    ASSUME NEW S, NEW seq \in Seq(S)
    PROVE  \A d \in DOMAIN seq : seq[d] \in S
OBVIOUS

LEMMA FactsAreVersions ==
    ASSUME TypeOK
    PROVE  /\ \A d \in DOMAIN reading : reading[d] \in Versions
           /\ snapshot # Cold =>
                 \A d \in DOMAIN snapshot.facts : snapshot.facts[d] \in Versions
<1>1. reading \in Seq(Versions)
  BY DEF TypeOK
<1>2. \A d \in DOMAIN reading : reading[d] \in Versions
  BY <1>1, ElementsOfReading
<1>3. snapshot # Cold => snapshot \in Snapshot
  BY DEF TypeOK
<1>4. snapshot # Cold =>
         \A d \in DOMAIN snapshot.facts : snapshot.facts[d] \in Versions
  BY <1>3 DEF Snapshot
<1>5. QED
  BY <1>2, <1>4

LEMMA InitFresh == Init => FreshInv
<1> SUFFICES ASSUME Init PROVE FreshInv
  OBVIOUS
<1> USE ConstantsAreNaturals
<1>1. HistoryInv
  BY DEF Init, HistoryInv
<1>2. EntryInv
  BY DEF Init, EntryInv
<1>3. CollectionInv
  BY DEF Init, CollectionInv
<1>4. AnswerInv
  BY DEF Init, AnswerInv
<1>5. QED
  BY <1>1, <1>2, <1>3, <1>4 DEF FreshInv

(* A step that leaves machine, time and cache alone, adds no collection    *)
(* and only takes answers away.                                            *)
LEMMA NothingNew ==
    ASSUME FreshInv, TypeOK, UNCHANGED <<clock, since, world, snapshot, expires>>,
           \A t \in Threads : pc'[t] = "collect" =>
              pc[t] = "collect" /\ check'[t] = check[t] /\ reading' = reading,
           \A t \in Threads : answer'[t] = answer[t] \/ answer'[t] = Cold
    PROVE  FreshInv'
<1>1. HistoryInv'
  BY DEF FreshInv, HistoryInv
<1>2. EntryInv'
  BY DEF FreshInv, EntryInv
<1>3. CollectionInv'
  BY DEF FreshInv, CollectionInv
<1>4. AnswerInv'
  <2> SUFFICES ASSUME NEW t \in Threads, answer'[t] # Cold
               PROVE  /\ answer'[t].now <= clock'
                      /\ NotBefore(answer'[t].snap.facts, Oldest(answer[t])')
    BY DEF AnswerInv
  <2>1. answer'[t] = answer[t]
    OBVIOUS
  <2>2. Oldest(answer[t])' = Oldest(answer[t])
    BY <2>1 DEF Oldest
  <2>3. QED
    BY <2>1, <2>2 DEF FreshInv, AnswerInv
<1>5. QED
  BY <1>1, <1>2, <1>3, <1>4 DEF FreshInv

(* A new answer, next to the old ones.                                     *)
LEMMA NewAnswer ==
    ASSUME AnswerInv, TypeOK, UNCHANGED <<clock, since>>,
           NEW t \in Threads, NEW a \in Answer,
           answer' = [answer EXCEPT ![t] = a],
           a.now <= clock, NotBefore(a.snap.facts, Oldest(a))
    PROVE  AnswerInv'
<1> SUFFICES ASSUME NEW u \in Threads, answer'[u] # Cold
             PROVE  /\ answer'[u].now <= clock'
                    /\ NotBefore(answer'[u].snap.facts, Oldest(answer[u])')
  BY DEF AnswerInv
<1>1. answer'[u] = IF u = t THEN a ELSE answer[u]
  BY DEF TypeOK
<1>2. CASE u = t
  <2>1. Oldest(answer[u])' = Oldest(a)
    BY <1>1, <1>2 DEF Oldest
  <2>2. QED
    BY <1>1, <1>2, <2>1
<1>3. CASE u # t
  <2>1. Oldest(answer[u])' = Oldest(answer[u])
    BY <1>1, <1>3 DEF Oldest
  <2>2. QED
    BY <1>1, <1>3, <2>1 DEF AnswerInv
<1>4. QED
  BY <1>2, <1>3

LEMMA TickFresh ==
    ASSUME TypeOK, FreshInv, Tick
    PROVE  FreshInv'
<1> USE ConstantsAreNaturals
<1>0. /\ clock \in Nat /\ clock' = clock + 1 /\ clock + 1 \in 0..MaxTime
      /\ \A i \in 0..MaxTime : since'[i] = IF i = clock + 1 THEN world ELSE since[i]
      /\ UNCHANGED <<world, snapshot, expires, pc, check, reading, answer>>
  BY DEF Tick, TypeOK, cacheVars
<1>1. \A i \in 0..clock : i \in 0..MaxTime /\ since'[i] = since[i]
  BY <1>0
<1>2. HistoryInv'
  <2> SUFFICES ASSUME NEW i \in 0..clock'
               PROVE  /\ since'[i] <= world'
                      /\ \A j \in i..clock' : since'[i] <= since'[j]
    BY DEF HistoryInv
  <2>1. world \in Int
    BY DEF TypeOK
  <2>2. CASE i = clock + 1
    BY <1>0, <2>1, <2>2
  <2>3. CASE i \in 0..clock
    BY <1>0, <1>1, <2>1, <2>3 DEF FreshInv, HistoryInv
  <2>4. QED
    BY <1>0, <2>2, <2>3
<1>3. EntryInv'
  <2> SUFFICES ASSUME snapshot # Cold
               PROVE  \E began \in 0..clock' :
                          /\ expires = began + snapshot.ttl
                          /\ NotBefore(snapshot.facts, since'[began])
    BY <1>0 DEF EntryInv
  <2>1. PICK began \in 0..clock : /\ expires = began + snapshot.ttl
                                  /\ NotBefore(snapshot.facts, since[began])
    BY DEF FreshInv, EntryInv
  <2>2. began \in 0..clock' /\ since'[began] = since[began]
    BY <1>0, <1>1
  <2>3. QED
    BY <2>1, <2>2
<1>4. CollectionInv'
  <2> SUFFICES ASSUME NEW t \in Threads, pc[t] = "collect"
               PROVE  check[t] <= clock' /\ NotBefore(reading, since'[check[t]])
    BY <1>0 DEF CollectionInv
  <2>1. check[t] \in 0..clock /\ NotBefore(reading, since[check[t]])
    BY DEF FreshInv, CollectionInv, TypeOK
  <2>2. QED
    BY <1>0, <1>1, <2>1
<1>5. AnswerInv'
  <2> SUFFICES ASSUME NEW t \in Threads, answer'[t] # Cold
               PROVE  /\ answer'[t].now <= clock'
                      /\ NotBefore(answer'[t].snap.facts, Oldest(answer[t])')
    BY DEF AnswerInv
  <2>1. answer'[t] = answer[t] /\ answer[t] \in Answer
    BY <1>0 DEF TypeOK
  <2>2. answer[t].now \in 0..clock /\ Life(answer[t]) \in Nat
        /\ NotBefore(answer[t].snap.facts, Oldest(answer[t]))
    <3>1. answer[t].now \in Nat /\ Life(answer[t]) \in Nat
      BY <2>1 DEF Answer, Snapshot, Life
    <3>2. answer[t].now <= clock
          /\ NotBefore(answer[t].snap.facts, Oldest(answer[t]))
      BY <2>1 DEF FreshInv, AnswerInv
    <3>3. QED
      BY <1>0, <3>1, <3>2
  <2>3. Oldest(answer[t])' = Oldest(answer[t])
    <3> DEFINE n == answer[t].now
               l == Life(answer[t])
    <3>1. since'[n] = since[n] /\ since'[0] = since[0]
      BY <1>0, <1>1, <2>2
    <3>2. l \in 1..n => since'[n + 1 - l] = since[n + 1 - l]
      BY <1>0, <1>1, <2>2
    <3>3. QED
      BY <2>1, <2>2, <3>1, <3>2 DEF Oldest
  <2>4. QED
    BY <1>0, <2>1, <2>2, <2>3
<1>6. QED
  BY <1>2, <1>3, <1>4, <1>5 DEF FreshInv

LEMMA HitFresh ==
    ASSUME TypeInv, FreshInv, NEW t \in Threads, Hit(t)
    PROVE  FreshInv'
<1> USE ConstantsAreNaturals
<1> DEFINE a == [snap |-> snapshot, now |-> clock, ttl |-> ttl, floor |-> floor]
<1>0. TypeOK /\ snapshot \in Snapshot /\ snapshot # Cold
  BY DEF TypeInv, TypeOK, Hit
<1>1. a \in Answer /\ a.snap = snapshot /\ a.now = clock
  BY <1>0, FieldsOfAnswer DEF Answer, TypeOK
<1> HIDE DEF a
<1>2. answer' = [answer EXCEPT ![t] = a]
  BY DEF Hit, a
<1>3. PICK began \in 0..clock : /\ expires = began + snapshot.ttl
                                /\ NotBefore(snapshot.facts, since[began])
  BY <1>0 DEF FreshInv, EntryInv
<1>4. a.now < began + a.snap.ttl
  BY <1>0, <1>1, <1>3 DEF Hit, Expired, TypeOK, Snapshot
<1>5. Oldest(a) \in 0..MaxChanges /\ Oldest(a) <= since[began]
  <2>1. HistoryInv /\ clock \in Nat
    BY <1>0 DEF FreshInv, TypeOK
  <2>2. a.now <= clock /\ began \in 0..a.now
    BY <1>1, <2>1
  <2>3. QED
    BY <1>0, <1>1, <1>4, <2>1, <2>2, OldestIsBounded
<1>6. since[began] \in 0..MaxChanges
  BY <1>0 DEF TypeOK
<1>7. NotBefore(a.snap.facts, Oldest(a))
  BY <1>0, <1>1, <1>3, <1>5, <1>6, NewerStillNotBefore, FactsAreVersions
<1>8. UNCHANGED <<clock, since, world, snapshot, expires, check, reading>>
  BY DEF Hit, machineVars, cacheVars
<1>9. AnswerInv'
  <2>1. AnswerInv /\ clock \in Nat
    BY <1>0 DEF FreshInv, TypeOK
  <2>2. a.now <= clock
    BY <1>1, <2>1
  <2>3. QED
    BY <1>0, <1>1, <1>2, <1>7, <1>8, <2>1, <2>2, NewAnswer
<1>10. HistoryInv' /\ EntryInv'
  BY <1>8 DEF FreshInv, HistoryInv, EntryInv
<1>11. CollectionInv'
  BY <1>0, <1>8 DEF Hit, FreshInv, CollectionInv, TypeOK
<1>12. QED
  BY <1>9, <1>10, <1>11 DEF FreshInv

LEMMA StoreFresh ==
    ASSUME TypeInv, FreshInv, NEW t \in Threads, Store(t)
    PROVE  FreshInv'
<1> USE ConstantsAreNaturals
<1> DEFINE snap == [facts |-> reading, ttl |-> ttl]
           a == [snap |-> snap, now |-> check[t], ttl |-> ttl, floor |-> floor]
<1>0. TypeOK /\ pc[t] = "collect" /\ check[t] \in 0..clock
      /\ NotBefore(reading, since[check[t]])
  BY DEF TypeInv, TypeOK, Store, FreshInv, CollectionInv
<1>1. snap \in Snapshot
  BY <1>0, WholeReading DEF Store, Snapshot, TypeOK
<1>2. snap.facts = reading /\ snap.ttl = ttl
  BY FieldsOfSnapshot
<1> HIDE DEF snap
<1>3. a \in Answer
  BY <1>0, <1>1 DEF Answer, TypeOK
<1>4. a.snap = snap /\ a.now = check[t]
  BY FieldsOfAnswer
<1>5. snapshot' = snap /\ answer' = [answer EXCEPT ![t] = a]
  BY DEF Store, snap
<1> HIDE DEF a
<1>6. check[t] \in 0..a.now
  BY <1>0, <1>4 DEF TypeOK
<1>7. Oldest(a) \in 0..MaxChanges /\ Oldest(a) <= since[check[t]]
  <2>1. HistoryInv /\ clock \in Nat
    BY <1>0 DEF FreshInv, TypeOK
  <2>2. a.now <= clock /\ check[t] = a.now
    BY <1>0, <1>4, <2>1
  <2>3. QED
    BY <1>0, <1>3, <1>6, <2>1, <2>2, OldestIsBounded
<1>8. since[check[t]] \in 0..MaxChanges
  BY <1>0 DEF TypeOK
<1>9. NotBefore(a.snap.facts, Oldest(a))
  BY <1>0, <1>2, <1>4, <1>7, <1>8, NewerStillNotBefore, FactsAreVersions
<1>10. UNCHANGED <<clock, since, world>> /\ CollectionOver(t)
  BY DEF Store, machineVars
<1>11. AnswerInv'
  <2>1. AnswerInv /\ clock \in Nat
    BY <1>0 DEF FreshInv, TypeOK
  <2>2. a.now <= clock
    BY <1>0, <1>4, <2>1
  <2>3. QED
    BY <1>0, <1>3, <1>5, <1>9, <1>10, <2>1, <2>2, NewAnswer
<1>12. HistoryInv'
  BY <1>10 DEF FreshInv, HistoryInv
<1>13. EntryInv'
  <2>1. expires' = check[t] + snap.ttl
    BY <1>2 DEF Store, Expiry
  <2>2. NotBefore(snap.facts, since[check[t]])
    BY <1>0, <1>2
  <2>3. QED
    BY <1>0, <1>5, <1>10, <2>1, <2>2 DEF EntryInv
<1>14. CollectionInv'
  BY <1>0, <1>10, CollectionOverType DEF CollectionInv
<1>15. QED
  BY <1>11, <1>12, <1>13, <1>14 DEF FreshInv

LEMMA StepFresh == TypeInv /\ FreshInv /\ [Next]_vars => FreshInv'
<1> SUFFICES ASSUME TypeInv, FreshInv, [Next]_vars PROVE FreshInv'
  OBVIOUS
<1> USE ConstantsAreNaturals
<1>0. TypeOK /\ LockInv
  BY DEF TypeInv
<1>1. CASE Change
  <2>1. UNCHANGED <<clock, since, snapshot, expires, pc, check, reading, answer>>
        /\ world' = world + 1
    BY <1>1 DEF Change, cacheVars
  <2>2. HistoryInv'
    BY <1>0, <2>1 DEF FreshInv, HistoryInv, TypeOK
  <2>3. EntryInv' /\ CollectionInv'
    BY <2>1 DEF FreshInv, EntryInv, CollectionInv
  <2>4. AnswerInv'
    BY <2>1 DEF FreshInv, AnswerInv, Oldest
  <2>5. QED
    BY <2>2, <2>3, <2>4 DEF FreshInv
<1>2. CASE Tick
  BY <1>0, <1>2, TickFresh
<1>4. ASSUME NEW t \in Threads, NEW forced \in BOOLEAN, Call(t, forced)
      PROVE  FreshInv'
  <2>1. \A u \in Threads : pc'[u] = "collect" => pc[u] = "collect"
    BY <1>0, <1>4 DEF Call, TypeOK
  <2>2. UNCHANGED <<clock, since, world, snapshot, expires, check, reading, answer>>
    BY <1>4 DEF Call, machineVars, cacheVars
  <2>3. QED
    BY <1>0, <2>1, <2>2, NothingNew
<1>5. ASSUME NEW t \in Threads, Hit(t) PROVE FreshInv'
  BY <1>5, HitFresh
<1>6. ASSUME NEW t \in Threads, Miss(t) PROVE FreshInv'
  <2>1. UNCHANGED <<clock, since, world, snapshot, expires, answer>>
        /\ reading' = <<>>
    BY <1>6 DEF Miss, machineVars, cacheVars
  <2>2. HistoryInv' /\ EntryInv'
    BY <2>1 DEF FreshInv, HistoryInv, EntryInv
  <2>3. AnswerInv'
    BY <2>1 DEF FreshInv, AnswerInv, Oldest
  <2>4. \A u \in Threads : pc'[u] = "collect" => check'[u] <= clock
    BY <1>0, <1>6 DEF Miss, TypeOK, FreshInv, CollectionInv
  <2>5. CollectionInv'
    BY <2>1, <2>4, EmptyReading DEF CollectionInv
  <2>6. QED
    BY <2>2, <2>3, <2>5 DEF FreshInv
<1>7. ASSUME NEW t \in Threads, Read(t) PROVE FreshInv'
  <2>0. PICK seen \in {world, Missing} : reading' = Append(reading, seen)
    BY <1>7 DEF Read
  <2>1. /\ UNCHANGED <<clock, since, world, snapshot, expires, answer, pc, check>>
        /\ reading \in Seq(Versions) /\ seen \in Versions
    BY <1>0, <1>7 DEF Read, machineVars, cacheVars, TypeOK, Versions
  <2>2. HistoryInv' /\ EntryInv'
    BY <2>1 DEF FreshInv, HistoryInv, EntryInv
  <2>3. AnswerInv'
    BY <2>1 DEF FreshInv, AnswerInv, Oldest
  <2>4. ASSUME NEW u \in Threads, pc[u] = "collect"
        PROVE  check[u] <= clock /\ NotBefore(reading', since[check[u]])
    <3>1. check[u] \in 0..clock /\ NotBefore(reading, since[check[u]])
      BY <1>0, <2>4 DEF FreshInv, CollectionInv, TypeOK
    <3>2. seen = Missing \/ seen >= since[check[u]]
      BY <1>0, <3>1 DEF FreshInv, HistoryInv, TypeOK
    <3>3. QED
      BY <2>0, <2>1, <3>1, <3>2, ReadIsNotBefore
  <2>5. CollectionInv'
    BY <2>1, <2>4 DEF CollectionInv
  <2>6. QED
    BY <2>2, <2>3, <2>5 DEF FreshInv
<1>8. ASSUME NEW t \in Threads, Store(t) PROVE FreshInv'
  BY <1>8, StoreFresh
<1>9. ASSUME NEW t \in Threads, CollectFails(t) PROVE FreshInv'
  <2>1. CollectionOver(t) /\ pc[t] = "collect"
        /\ UNCHANGED <<clock, since, world, snapshot, expires>>
    BY <1>9 DEF CollectFails, machineVars, cacheVars
  <2>2. \A u \in Threads : pc'[u] # "collect"
    BY <2>1, CollectionOverType
  <2>3. \A u \in Threads : answer'[u] = answer[u] \/ answer'[u] = Cold
    BY <1>0, <1>9 DEF CollectFails, TypeOK
  <2>4. QED
    BY <1>0, <2>1, <2>2, <2>3, NothingNew
<1>10. ASSUME NEW t \in Threads, Invalidate(t) PROVE FreshInv'
  <2>1. UNCHANGED <<clock, since, world, pc, check, reading, answer>>
        /\ snapshot' = Cold
    BY <1>10 DEF Invalidate, machineVars
  <2>2. QED
    BY <2>1 DEF FreshInv, HistoryInv, EntryInv, CollectionInv, AnswerInv, Oldest
<1>11. ASSUME NEW t \in Threads, NEW value \in TTLs, SetTTL(t, value)
       PROVE  FreshInv'
  BY <1>0, <1>11, NothingNew DEF SetTTL, machineVars
<1>12. ASSUME NEW t \in Threads, Return(t) PROVE FreshInv'
  <2>1. \A u \in Threads :
           /\ pc'[u] = "collect" => pc[u] = "collect"
           /\ answer'[u] = answer[u] \/ answer'[u] = Cold
    BY <1>0, <1>12 DEF Return, TypeOK
  <2>2. UNCHANGED <<clock, since, world, snapshot, expires, check, reading>>
    BY <1>12 DEF Return, machineVars, cacheVars
  <2>3. QED
    BY <1>0, <2>1, <2>2, NothingNew
<1>14. CASE UNCHANGED vars
  BY <1>0, <1>14, NothingNew DEF vars, machineVars, cacheVars
<1>15. CASE Done
  BY <1>14, <1>15 DEF Done
<1>16. QED
  BY <1>1, <1>2, <1>4, <1>5, <1>6, <1>7, <1>8, <1>9, <1>10, <1>11,
     <1>12, <1>14, <1>15 DEF Next, Get

(* What get returns shows, in every domain it could read, all that had     *)
(* happened one ttl before it looked at the cache: the ttl in force then,  *)
(* or the longer one the entry was stored under, for every sequence of     *)
(* changes of the ttl, overlapping gets and failed collections.            *)
THEOREM FreshForItsTTL == Spec => []FreshWithinTTL
<1>1. FreshInv => FreshWithinTTL
  BY DEF FreshInv, AnswerInv, FreshWithinTTL
<1>2. Spec => []FreshInv
  BY InitFresh, StepFresh, TypesAndLock, PTL DEF Spec
<1>3. QED
  BY <1>1, <1>2, PTL
=============================================================================
