----------------------------- MODULE TenantCache ----------------------------
(***************************************************************************)
(* The tenant cache (libs/shared/cache.py): its locks, and one entry of it *)
(* in Redis, a counter. Keys carry the tenant and the namespace, so one    *)
(* lock and one entry stand for each.                                      *)
(*                                                                         *)
(* A lock has a time to live, and nobody tells an owner that its time is   *)
(* over: it works on, and releases a lock that may be another's by then.   *)
(*                                                                         *)
(* The counter is incremented, read, replaced and invalidated by several   *)
(* workers. An increment is two commands, INCRBY and EXPIRE, and an        *)
(* invalidation is a scan and a deletion; other workers come between them, *)
(* and a worker may stop there for good. The cache in memory does each     *)
(* operation in one step.                                                  *)
(***************************************************************************)
EXTENDS Integers

CONSTANTS
    Owners,            \* owners of the lock
    LockTTL,           \* lock_ttl_seconds
    MaxSeconds         \* bound: seconds that pass

ASSUME LockTTLAssumption == LockTTL \in Nat \ {0}

Never == -1

VARIABLES
    seconds,     \* the clock of the cache
    lock,        \* _locks[key]: the owner and when it expires
    working      \* owners inside what they locked, with the second they entered

lockVars == <<seconds, lock, working>>

NoLock == [owner |-> "nobody", expires_at |-> Never]

LockInit ==
    /\ seconds = 0
    /\ lock = NoLock
    /\ working = [o \in Owners |-> Never]

\* _purge_expired, with which every operation begins: what has come to its end
\* is gone on the very second.
LockNow == IF lock.expires_at <= seconds THEN NoLock ELSE lock

\* acquire_lock, answering True. It answers False, changing nothing, while there
\* is a lock, the caller's own included.
AcquireLock(o) ==
    /\ working[o] = Never
    /\ LockNow = NoLock
    /\ lock' = [owner |-> o, expires_at |-> seconds + LockTTL]
    /\ working' = [working EXCEPT ![o] = seconds]
    /\ UNCHANGED seconds

\* Fault: the lock is deleted whoever owns it.
ReleaseLock_Anyones(o) ==
    /\ working[o] # Never
    /\ lock' = NoLock
    /\ working' = [working EXCEPT ![o] = Never]
    /\ UNCHANGED seconds

\* release_lock answers False and leaves the lock alone when it is another's.
ReleaseLock(o) ==
    /\ working[o] # Never
    /\ lock' = IF LockNow.owner = o THEN NoLock ELSE LockNow
    /\ working' = [working EXCEPT ![o] = Never]
    /\ UNCHANGED seconds

\* The owner dies at work: only the time to live frees the lock.
OwnerDies(o) ==
    /\ working[o] # Never
    /\ working' = [working EXCEPT ![o] = Never]
    /\ UNCHANGED <<seconds, lock>>

SecondPasses ==
    /\ seconds < MaxSeconds
    /\ seconds' = seconds + 1
    /\ UNCHANGED <<lock, working>>

LockNext ==
    \/ \E o \in Owners : AcquireLock(o) \/ ReleaseLock(o) \/ OwnerDies(o)
    \/ SecondPasses

LockSpec == LockInit /\ [][LockNext]_lockVars

----------------------------------------------------------------------------
LockTypeOK ==
    /\ seconds \in Nat
    /\ lock \in {NoLock} \cup [owner : Owners, expires_at : Nat]
    /\ working \in [Owners -> Nat \cup {Never}]

InTime(o) == working[o] # Never /\ seconds < working[o] + LockTTL

\* Two owners work at once only when all but one have outlived the lock: the
\* owner that is in time holds it, and neither the late owner's release nor the
\* purge takes it away (acquire_lock, release_lock, _purge_expired).
LockHeldInTime ==
    /\ LockTypeOK
    /\ \A o \in Owners : InTime(o) => /\ lock.owner = o
                                      /\ \A p \in Owners \ {o} : ~InTime(p)

----------------------------------------------------------------------------
\* The entry.

CONSTANTS
    Workers,         \* tasks that use the cache
    EntryTTL,        \* default_ttl_seconds
    MaxCacheTime,    \* bound: seconds that pass
    MaxCount         \* bound: value of the counter

ASSUME EntryTTLAssumption == EntryTTL \in Nat \ {0}

NoEntry == -1
NoExpiry == -1

VARIABLES
    cacheTime,       \* the clock of the store
    cacheBackend,    \* which implementation of the contract is wired
    value,           \* value of the entry, NoEntry while there is none
    expiresAt,       \* when it expires
    between,         \* worker -> the command it has done of two
    ended            \* increments done to the end since the entry exists

cacheVars == <<cacheTime, cacheBackend, value, expiresAt, between, ended>>

CacheInit ==
    /\ cacheTime = 0
    /\ cacheBackend \in {"memory", "redis"}
    /\ value = NoEntry
    /\ expiresAt = NoExpiry
    /\ between = [w \in Workers |-> "idle"]
    /\ ended = 0

PositiveTTL == cacheTime + EntryTTL

Idle(w) == between[w] = "idle"

Moves(w, to) == between' = [between EXCEPT ![w] = to]

Gone ==
    /\ value' = NoEntry
    /\ expiresAt' = NoExpiry
    /\ ended' = 0

NextValue == IF value = NoEntry THEN 1 ELSE value + 1

\* In memory the entry is replaced by one with a new end of its time.
IncrementMemory(w) ==
    /\ cacheBackend = "memory"
    /\ Idle(w)
    /\ NextValue <= MaxCount
    /\ value' = NextValue
    /\ expiresAt' = PositiveTTL
    /\ ended' = ended + 1
    /\ UNCHANGED <<cacheTime, cacheBackend, between>>

\* INCRBY makes the key, without an end, or leaves its end as it is.
IncrBy(w) ==
    /\ cacheBackend = "redis"
    /\ Idle(w)
    /\ NextValue <= MaxCount
    /\ value' = NextValue
    /\ Moves(w, "incremented")
    /\ UNCHANGED <<cacheTime, cacheBackend, expiresAt, ended>>

\* EXPIRE gives the key of that moment its time to live; it does nothing when
\* there is none.
Expire(w) ==
    /\ between[w] = "incremented"
    /\ Moves(w, "idle")
    /\ expiresAt' = IF value = NoEntry THEN NoExpiry ELSE PositiveTTL
    /\ ended' = IF value = NoEntry THEN 0 ELSE ended + 1
    /\ UNCHANGED <<cacheTime, cacheBackend, value>>

\* SET with EX: value and end in one command.
SetJson(w, v) ==
    /\ Idle(w)
    /\ value' = v
    /\ expiresAt' = PositiveTTL
    /\ ended' = 0
    /\ UNCHANGED <<cacheTime, cacheBackend, between>>

DeleteEntry(w) ==
    /\ Idle(w)
    /\ Gone
    /\ UNCHANGED <<cacheTime, cacheBackend, between>>

\* The keys of the namespace are listed, and then those are deleted: an entry
\* that was not there at the scan stays.
ScanNamespace(w) ==
    /\ cacheBackend = "redis"
    /\ Idle(w)
    /\ value # NoEntry
    /\ Moves(w, "scanned")
    /\ UNCHANGED <<cacheTime, cacheBackend, value, expiresAt, ended>>

DeleteScanned(w) ==
    /\ between[w] = "scanned"
    /\ Gone
    /\ Moves(w, "idle")
    /\ UNCHANGED <<cacheTime, cacheBackend>>

\* A stop, or the time to live of the call is found not to be positive, which
\* the increment looks at after INCRBY.
WorkerStops(w) ==
    /\ between[w] \in {"incremented", "scanned"}
    /\ Moves(w, "stopped")
    /\ UNCHANGED <<cacheTime, cacheBackend, value, expiresAt, ended>>

\* The entry is gone on the very second its time is over.
CacheTimePasses ==
    /\ cacheTime < MaxCacheTime
    /\ cacheTime' = cacheTime + 1
    /\ IF expiresAt # NoExpiry /\ expiresAt <= cacheTime' THEN Gone ELSE UNCHANGED <<value, expiresAt, ended>>
    /\ UNCHANGED <<cacheBackend, between>>

CacheNext ==
    \/ \E w \in Workers :
          \/ IncrementMemory(w) \/ IncrBy(w) \/ Expire(w)
          \/ DeleteEntry(w) \/ ScanNamespace(w) \/ DeleteScanned(w) \/ WorkerStops(w)
          \/ \E v \in 0 .. MaxCount : SetJson(w, v)
    \/ CacheTimePasses

CacheSpec == CacheInit /\ [][CacheNext]_cacheVars

---------------------------------------------------------------------------

\* A counter lives on without an end only as long as none of the increments it
\* has seen was done to its end: those that have are followed by an end within
\* the time to live, whoever stopped between the two commands before.
CounterRunsOut ==
    value # NoEntry =>
        IF expiresAt = NoExpiry
        THEN /\ ended = 0
             /\ cacheBackend = "redis"
             /\ \E w \in Workers : between[w] \in {"incremented", "stopped"}
        ELSE cacheTime < expiresAt /\ expiresAt <= PositiveTTL

\* What the cache promises for a time ends in time and not before: a lock is held
\* by its owner for its time to live, and a counter runs out (TenantCache).
CacheKeepsTime == LockHeldInTime /\ CounterRunsOut
=============================================================================
