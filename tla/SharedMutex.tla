----------------------------- MODULE SharedMutex -----------------------------
(***************************************************************************)
(* The Agent's two reader-writer locks, SharedMutex (around the reliable   *)
(* output streams of a session) and SharedMutexPriority (around the serial *)
(* ports of the multi-serial transport), with the threads that use them.   *)
(* Both are a mutex, a condition variable and a few counters; the second   *)
(* counts the writers that want the lock, and its readers wait for them.   *)
(*                                                                         *)
(* Every step is one critical section of mtx_, with two exceptions: the    *)
(* increment of exclusive_counter_ is outside of it, so increment and      *)
(* decrement are a load and a store each.  A thread that waits on the      *)
(* condition variable is asleep until a notification picks it (or for no   *)
(* reason), and then tests its condition again.                            *)
(***************************************************************************)
EXTENDS Naturals, FiniteSets

CONSTANTS Readers,    \* threads that lock shared: recv_message, send_message, ...
          Upgraders,  \* threads in Session::get_reliable_output_stream
          Writers,    \* threads that lock exclusively: insert_, remove_serial
          NoThread    \* no thread

ASSUME RolesAssumption ==
    /\ Readers \cap Upgraders = {} /\ Readers \cap Writers = {}
    /\ Upgraders \cap Writers = {}
    /\ NoThread \notin Readers \cup Upgraders \cup Writers
    /\ IsFiniteSet(Readers \cup Upgraders \cup Writers)

Threads == Readers \cup Upgraders \cup Writers

\* size_t, scaled down: what matters is that zero minus one is not zero.
CounterMod == 4

VARIABLES priority, \* TRUE: SharedMutexPriority, FALSE: SharedMutex
          mtx,      \* the thread inside mtx_ between two steps
          shared,   \* shared_counter_
          wanting,  \* exclusive_counter_
          locked,   \* exclusively_locked_
          owner,    \* exclusive_thread_id_, kept after unlock
          at,       \* where each thread is
          loaded,   \* the counter a thread has loaded and not yet stored
          asleep,   \* threads waiting on cv_
          turn      \* devs_mtx: the writer that holds it

lock_vars == <<priority, mtx, shared, wanting, locked, owner, at, loaded, asleep, turn>>

\* An upgrader locks shared, and when its stream is missing unlocks, locks
\* exclusively and shared again, and then gives up the exclusive lock first.
Places == {"idle", "wantShared", "shared", "load", "store", "wantExclusive",
           "exclusive", "wantBoth", "both", "unstore"}

\* The type of the state.
LockTypeOK ==
    /\ priority \in BOOLEAN
    /\ mtx \in Threads \cup {NoThread}
    /\ shared \in 0 .. Cardinality(Threads)
    /\ wanting \in 0 .. CounterMod - 1
    /\ locked \in BOOLEAN
    /\ owner \in Threads \cup {NoThread}
    /\ at \in [Threads -> Places]
    /\ loaded \in [Threads -> 0 .. CounterMod - 1]
    /\ asleep \subseteq Threads
    /\ turn \in Threads \cup {NoThread}

LockInit ==
    /\ priority \in BOOLEAN
    /\ mtx = NoThread
    /\ shared = 0 /\ wanting = 0
    /\ locked = FALSE /\ owner = NoThread
    /\ at = [t \in Threads |-> "idle"]
    /\ loaded = [t \in Threads |-> 0]
    /\ asleep = {}
    /\ turn = NoThread

Go(t, place) == at' = [at EXCEPT ![t] = place]

\* t is awake and can enter mtx_.
Ready(t) == mtx = NoThread /\ t \notin asleep

-----------------------------------------------------------------------------
(* What the threads do with the locks *)

\* Upgraders use the one lock, writers the other, readers both.
UsesThisLock(t) == (t \in Writers => priority) /\ (t \in Upgraders => ~priority)

\* A thread comes to use the data.  Writers hold devs_mtx around
\* insert_serial and remove_serial.
Request(t) ==
    /\ at[t] = "idle" /\ UsesThisLock(t)
    /\ IF t \in Writers THEN turn = NoThread /\ turn' = t ELSE turn' = turn
    /\ Go(t, IF t \in Writers THEN "load" ELSE "wantShared")
    /\ UNCHANGED <<mtx, shared, wanting, locked, owner, loaded, asleep>>

-----------------------------------------------------------------------------
(* SharedLock *)

MayShare(t) == \/ ~locked /\ (priority => wanting = 0)
               \/ t = owner

\* lock(): wait for the condition, then count this reader.
LockShared(t) ==
    /\ Ready(t)
    /\ at[t] \in {"wantShared", "wantBoth"}
    /\ IF MayShare(t)
       THEN /\ shared' = shared + 1
            /\ Go(t, IF at[t] = "wantBoth" THEN "both" ELSE "shared")
            /\ UNCHANGED asleep
       ELSE /\ asleep' = asleep \cup {t}
            /\ UNCHANGED <<shared, at>>
    /\ UNCHANGED <<mtx, wanting, locked, owner, loaded, turn>>

\* notify_one: any one of the threads that wait.
NotifyOne == \/ asleep = {} /\ asleep' = {}
             \/ \E s \in asleep : asleep' = asleep \ {s}

\* Mutant: the last reader leaves without a word.
UnlockShared_silent(t) ==
    /\ Ready(t)
    /\ at[t] = "shared"
    /\ shared' = shared - 1
    /\ asleep' = asleep
    /\ \/ Go(t, "idle")
       \/ t \in Upgraders /\ Go(t, "wantExclusive")
    /\ UNCHANGED <<mtx, wanting, locked, owner, loaded, turn>>

\* unlock(): the last reader wakes one thread.  An upgrader that did not find
\* its stream goes for the exclusive lock.
UnlockShared(t) ==
    /\ Ready(t)
    /\ at[t] = "shared"
    /\ shared' = shared - 1
    /\ IF shared' = 0 THEN NotifyOne ELSE asleep' = asleep
    /\ \/ Go(t, "idle")
       \/ t \in Upgraders /\ Go(t, "wantExclusive")
    /\ UNCHANGED <<mtx, wanting, locked, owner, loaded, turn>>

-----------------------------------------------------------------------------
(* ExclusiveLock *)

\* ++exclusive_counter_, before mtx_ is taken.
LoadWanting(t) ==
    /\ at[t] = "load"
    /\ loaded' = [loaded EXCEPT ![t] = wanting]
    /\ Go(t, "store")
    /\ UNCHANGED <<mtx, shared, wanting, locked, owner, asleep, turn>>

StoreWanting(t) ==
    /\ at[t] = "store"
    /\ wanting' = (loaded[t] + 1) % CounterMod
    /\ loaded' = [loaded EXCEPT ![t] = 0]
    /\ Go(t, "wantExclusive")
    /\ UNCHANGED <<mtx, shared, locked, owner, asleep, turn>>

LockExclusive(t) ==
    /\ Ready(t)
    /\ at[t] = "wantExclusive"
    /\ IF shared = 0 /\ ~locked
       THEN /\ locked' = TRUE
            /\ owner' = t
            /\ Go(t, IF t \in Upgraders THEN "wantBoth" ELSE "exclusive")
            /\ UNCHANGED asleep
       ELSE /\ asleep' = asleep \cup {t}
            /\ UNCHANGED <<locked, owner, at>>
    /\ UNCHANGED <<mtx, shared, wanting, loaded, turn>>

\* unlock() of the priority lock first takes the writer off the count.
LoadUnwanting(t) ==
    /\ Ready(t)
    /\ at[t] = "exclusive"
    /\ mtx' = t
    /\ loaded' = [loaded EXCEPT ![t] = wanting]
    /\ Go(t, "unstore")
    /\ UNCHANGED <<shared, wanting, locked, owner, asleep, turn>>

StoreUnwanting(t) ==
    /\ at[t] = "unstore"
    /\ wanting' = (loaded[t] + CounterMod - 1) % CounterMod
    /\ loaded' = [loaded EXCEPT ![t] = 0]
    /\ mtx' = NoThread
    /\ locked' = FALSE
    /\ asleep' = {}
    /\ turn' = NoThread
    /\ Go(t, "idle")
    /\ UNCHANGED <<shared, owner>>

\* unlock(): everyone is woken.  The exclusive lock of an upgrader goes out of
\* scope while its shared lock is kept.
UnlockExclusive(t) ==
    /\ Ready(t)
    /\ at[t] = "both"
    /\ locked' = FALSE
    /\ asleep' = {}
    /\ Go(t, "shared")
    /\ UNCHANGED <<mtx, shared, wanting, owner, loaded, turn>>

\* A waiting thread may wake up for no reason.
LockWakesSpuriously(t) ==
    /\ t \in asleep
    /\ asleep' = asleep \ {t}
    /\ UNCHANGED <<mtx, shared, wanting, locked, owner, at, loaded, turn>>

Step(t) ==
    \/ LockShared(t) \/ UnlockShared(t)
    \/ LoadWanting(t) \/ StoreWanting(t) \/ LockExclusive(t)
    \/ LoadUnwanting(t) \/ StoreUnwanting(t) \/ UnlockExclusive(t)

LockNext ==
    /\ \E t \in Threads : Request(t) \/ Step(t) \/ LockWakesSpuriously(t)
    /\ UNCHANGED priority

LockSpec == LockInit /\ [][LockNext]_lock_vars

-----------------------------------------------------------------------------
Sharing == {t \in Threads : at[t] \in {"shared", "both"}}
Excluding == {t \in Threads : at[t] \in {"exclusive", "wantBoth", "both", "unstore"}}

(* Whoever has the lock exclusively has it alone, although it may lock it  *)
(* shared once more, and although exclusive_thread_id_ keeps the name of   *)
(* the last owner.                                                         *)
MutualExclusion ==
    \A t \in Excluding : Excluding = {t} /\ Sharing \subseteq {t}

(* As long as devs_mtx lets one writer at a time ask for the lock, the     *)
(* count of writers is right although it is not protected by mtx_: once    *)
(* they have all gone it is zero and readers are let in.                   *)
WantingIsExact ==
    priority =>
        wanting = Cardinality({t \in Writers :
                      at[t] \in {"wantExclusive", "exclusive", "unstore"}})

(* If threads sleep and nobody has the lock, somebody who wants it is      *)
(* awake, and will wake the others when it leaves: SharedMutex loses no    *)
(* wake-up.  SharedMutexPriority loses the last reader's, and may leave    *)
(* all asleep for ever, but only where a writer and a reader sleep both:   *)
(* notify_one woke a reader, which went back to sleep because of the       *)
(* writer.                                                                 *)
SleepersWillBeWoken ==
    asleep # {} /\ Sharing = {} /\ Excluding = {} =>
        \/ \E t \in Threads \ asleep : at[t] # "idle"
        \/ /\ priority
           /\ \E w \in asleep : at[w] = "wantExclusive"
           /\ \E r \in asleep : at[r] = "wantShared"

(* Both locks exclude and count their writers, and a wake-up is lost by    *)
(* SharedMutexPriority alone, between a reader and a writer.               *)
LockInv == LockTypeOK /\ MutualExclusion /\ WantingIsExact /\ SleepersWillBeWoken
=============================================================================
