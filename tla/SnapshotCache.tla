--------------------------- MODULE SnapshotCache ---------------------------
(***************************************************************************)
(* The cached picture of the machine: SnapshotCache of                     *)
(* core/context/cache.py, and the order in which Collector.collect         *)
(* (core/context/collector.py) reads the machine.                          *)
(*                                                                         *)
(* The machine is a version that every change increments, whoever makes    *)
(* it. A collection reads the domains of the machine one after another, so *)
(* a snapshot is a version per domain; time passes and the machine changes *)
(* while it runs. A domain that cannot be read is left empty and the       *)
(* collection goes on. The lock is held through a collection.              *)
(***************************************************************************)
EXTENDS Integers, Sequences

CONSTANTS
    Threads,     \* the threads that share the cache
    Domains,     \* how many domains a collection reads
    TTLs,        \* the values ttl is set to
    Free, Cold,  \* no holder of the lock, no snapshot
    Missing,     \* what a domain that could not be read shows
    MaxTime,     \* bound: the clock
    MaxChanges,  \* bound: changes of the machine
    MaxCalls     \* bound: calls of the cache

ASSUME ThreadsAssumption == Free \notin Threads
ASSUME DomainsAssumption == Domains \in Nat \ {0}
ASSUME TTLAssumption == TTLs \subseteq Nat /\ TTLs # {}
ASSUME BoundsAssumption ==
    MaxTime \in Nat /\ MaxChanges \in Nat /\ MaxCalls \in Nat

VARIABLES
    clock,     \* time.monotonic()
    world,     \* the version of the machine
    since,     \* since[t]: the version at the beginning of time t
    ttl,       \* _ttl
    snapshot,  \* _snapshot
    expires,   \* _expires_at
    lock,      \* who holds _lock
    pc,        \* where each thread is
    check,     \* the time each thread read before it looked at the cache
    reading,   \* what the collection in progress has read
    floor,     \* the version at the last invalidate
    answer,    \* what get last returned to each thread
    calls      \* calls so far

machineVars == <<clock, world, since>>
cacheVars == <<ttl, snapshot, expires, floor>>
vars == <<machineVars, cacheVars, lock, pc, check, reading, answer, calls>>

Versions == 0..MaxChanges \union {Missing}

(* ttl is the one in force when the snapshot was stored.                   *)
Snapshot == [facts : [1..Domains -> Versions], ttl : TTLs]

(* now, ttl and floor are of the moment at which the cache was looked at.  *)
Answer == [snap : Snapshot, now : Nat, ttl : TTLs, floor : Nat]

TypeOK ==
    /\ clock \in 0..MaxTime
    /\ world \in 0..MaxChanges
    /\ since \in [0..MaxTime -> 0..MaxChanges]
    /\ ttl \in TTLs
    /\ snapshot \in Snapshot \union {Cold}
    /\ expires \in Nat
    /\ lock \in Threads \union {Free}
    /\ pc \in [Threads -> {"idle", "get", "force", "collect", "returned"}]
    /\ check \in [Threads -> 0..MaxTime]
    /\ reading \in Seq(Versions) /\ Len(reading) <= Domains
    /\ floor \in 0..MaxChanges
    /\ answer \in [Threads -> Answer \union {Cold}]
    /\ calls \in 0..MaxCalls

-----------------------------------------------------------------------------
(* The machine, which others change too, and the clock.                    *)

Change ==
    /\ world < MaxChanges
    /\ world' = world + 1
    /\ UNCHANGED <<clock, since, cacheVars, lock, pc, check, reading, answer, calls>>

Tick ==
    /\ clock < MaxTime
    /\ clock' = clock + 1
    /\ since' = [since EXCEPT ![clock + 1] = world]
    /\ UNCHANGED <<world, cacheVars, lock, pc, check, reading, answer, calls>>

-----------------------------------------------------------------------------
(* The operators named ...Slip are variants of the definition that follows *)
(* them, each with a plausible slip; the properties notice every one.      *)

Call(t, forced) ==
    /\ pc[t] = "idle" /\ calls < MaxCalls
    /\ calls' = calls + 1
    /\ pc' = [pc EXCEPT ![t] = IF forced THEN "force" ELSE "get"]
    /\ UNCHANGED <<machineVars, cacheVars, lock, check, reading, answer>>

ExpiredSlip == clock > expires
Expired == clock >= expires

(* get under the lock: the snapshot in the cache, or a new collection.     *)
Hit(t) ==
    /\ pc[t] = "get" /\ lock = Free
    /\ snapshot # Cold /\ ~Expired
    /\ answer' = [answer EXCEPT ![t] =
                     [snap |-> snapshot, now |-> clock, ttl |-> ttl,
                      floor |-> floor]]
    /\ pc' = [pc EXCEPT ![t] = "returned"]
    /\ UNCHANGED <<machineVars, cacheVars, lock, check, reading, calls>>

Miss(t) ==
    /\ pc[t] \in {"get", "force"} /\ lock = Free
    /\ pc[t] = "get" => snapshot = Cold \/ Expired
    /\ lock' = t
    /\ check' = [check EXCEPT ![t] = clock]
    /\ reading' = <<>>
    /\ pc' = [pc EXCEPT ![t] = "collect"]
    /\ UNCHANGED <<machineVars, cacheVars, answer, calls>>

(* collect reads the next domain of the machine, or fails to and notes it. *)
Read(t) ==
    /\ pc[t] = "collect" /\ Len(reading) < Domains
    /\ \E seen \in {world, Missing} : reading' = Append(reading, seen)
    /\ UNCHANGED <<machineVars, cacheVars, lock, pc, check, answer, calls>>

(* The with block is left: the lock is released, the locals are gone.      *)
CollectionOver(t) ==
    /\ lock' = Free
    /\ pc' = [pc EXCEPT ![t] = "returned"]
    /\ check' = [check EXCEPT ![t] = 0]
    /\ reading' = <<>>

(* The expiry counts from the time before the collection.                  *)
ExpirySlip(t) == clock + ttl
Expiry(t) == check[t] + ttl

Store(t) ==
    /\ pc[t] = "collect" /\ Len(reading) = Domains
    /\ snapshot' = [facts |-> reading, ttl |-> ttl]
    /\ expires' = Expiry(t)
    /\ answer' = [answer EXCEPT ![t] =
                     [snap |-> snapshot', now |-> check[t], ttl |-> ttl,
                      floor |-> floor]]
    /\ CollectionOver(t)
    /\ UNCHANGED <<machineVars, ttl, floor, calls>>

(* collect raises. The cache keeps what it had; the caller gets nothing.   *)
CollectFailsSlip(t) ==
    /\ pc[t] = "collect"
    /\ answer' = [answer EXCEPT ![t] = Cold]
    /\ pc' = [pc EXCEPT ![t] = "returned"]
    /\ UNCHANGED <<machineVars, cacheVars, lock, check, reading, calls>>
CollectFails(t) ==
    /\ pc[t] = "collect"
    /\ answer' = [answer EXCEPT ![t] = Cold]
    /\ CollectionOver(t)
    /\ UNCHANGED <<machineVars, cacheVars, calls>>

InvalidateSlip(t) ==
    /\ pc[t] \in {"idle", "returned"} /\ calls < MaxCalls
    /\ snapshot' = Cold /\ expires' = 0 /\ floor' = world
    /\ calls' = calls + 1
    /\ UNCHANGED <<machineVars, ttl, lock, pc, check, reading, answer>>
Invalidate(t) ==
    /\ pc[t] \in {"idle", "returned"} /\ lock = Free /\ calls < MaxCalls
    /\ snapshot' = Cold /\ expires' = 0 /\ floor' = world
    /\ calls' = calls + 1
    /\ UNCHANGED <<machineVars, ttl, lock, pc, check, reading, answer>>

(* The setter of ttl leaves the expiry of the entry alone.                 *)
SetTTL(t, value) ==
    /\ pc[t] = "idle" /\ lock = Free /\ calls < MaxCalls
    /\ ttl' = value
    /\ calls' = calls + 1
    /\ UNCHANGED <<machineVars, snapshot, expires, floor, lock, pc, check,
                   reading, answer>>

(* The caller has used what it got: its turn is over.                      *)
Return(t) ==
    /\ pc[t] = "returned"
    /\ pc' = [pc EXCEPT ![t] = "idle"]
    /\ answer' = [answer EXCEPT ![t] = Cold]
    /\ UNCHANGED <<machineVars, cacheVars, lock, check, reading, calls>>

Done == (\A t \in Threads : pc[t] = "idle") /\ UNCHANGED vars

Init ==
    /\ clock = 0 /\ world = 0
    /\ since = [t \in 0..MaxTime |-> 0]
    /\ ttl \in TTLs
    /\ snapshot = Cold /\ expires = 0 /\ floor = 0
    /\ lock = Free
    /\ pc = [t \in Threads |-> "idle"]
    /\ check = [t \in Threads |-> 0]
    /\ reading = <<>>
    /\ answer = [t \in Threads |-> Cold]
    /\ calls = 0

Get(t) == Hit(t) \/ Miss(t) \/ Read(t) \/ Store(t) \/ CollectFails(t)

Next ==
    \/ Change \/ Tick
    \/ \E t \in Threads :
          \/ \E forced \in BOOLEAN : Call(t, forced)
          \/ Get(t)
          \/ Invalidate(t)
          \/ \E value \in TTLs : SetTTL(t, value)
          \/ Return(t)
    \/ Done

Spec == Init /\ [][Next]_vars

(* A collection that has begun ends, and a thread that waits for the lock  *)
(* gets it when nobody holds it.                                           *)
FairSpec == Spec /\ \A t \in Threads : WF_vars(Get(t))

-----------------------------------------------------------------------------
(* Properties.                                                             *)

(* How old an answer may be: the ttl in force when the cache was looked    *)
(* at, or, for an entry stored before ttl was made shorter, the ttl it was *)
(* stored under: the setter does not touch the entry.                      *)
Life(a) == IF a.ttl < a.snap.ttl THEN a.snap.ttl ELSE a.ttl

(* The last version an answer may miss.                                    *)
Oldest(a) == CASE Life(a) = 0          -> since[a.now]
               [] Life(a) > a.now      -> since[0]
               [] Life(a) \in 1..a.now -> since[a.now + 1 - Life(a)]

(* Every domain that could be read shows at least what version says.       *)
NotBefore(facts, version) ==
    \A d \in DOMAIN facts : facts[d] = Missing \/ facts[d] >= version

(* What get returns shows, in every domain it has, all that had happened   *)
(* to the machine one ttl before it looked at the cache (cache.py: "fresh  *)
(* data within one TTL window"), however long the collection took,         *)
(* whichever collections failed in between and whatever ttl was before,    *)
(* except that an entry stored under a longer ttl is served until that one *)
(* has passed, also when ttl is 0.                                         *)
FreshWithinTTL ==
    \A t \in Threads :
        answer[t] # Cold => NotBefore(answer[t].snap.facts, Oldest(answer[t]))

(* A get that looks at the cache after an invalidate shows everything that *)
(* had happened before that invalidate: the turn after a change never      *)
(* reasons about the machine as it was before, even when a collection was  *)
(* under way.                                                              *)
InvalidateIsABarrier ==
    \A t \in Threads :
        answer[t] # Cold => NotBefore(answer[t].snap.facts, answer[t].floor)

(* Every get comes back, also after a collection that raised.              *)
GetReturns ==
    \A t \in Threads : pc[t] \in {"get", "force"} ~> pc[t] = "returned"
=============================================================================
