---------------------------- MODULE SerialProofs ----------------------------
(***************************************************************************)
(* The locks of the Agent, for any finite number of threads, the ports of  *)
(* the multi-serial transport, for any finite number of devices, and the   *)
(* frames on the line, for any messages: what is written by a port that    *)
(* takes all it is given is the frame, and a reader that starts in step    *)
(* with the line stays in step with it.                                    *)
(***************************************************************************)
EXTENDS MultiTermios, SharedMutex, FrameReader, FrameWriter, FiniteSetTheorems,
        SequenceTheorems, TLAPS

-----------------------------------------------------------------------------
(* SharedMutex, SharedMutexPriority                                        *)

\* Where the threads of each role come.
RolesKept ==
    /\ \A t \in Readers : at[t] \in {"idle", "wantShared", "shared"}
    /\ \A t \in Upgraders :
          at[t] \in {"idle", "wantShared", "shared", "wantExclusive", "wantBoth", "both"}
    /\ \A t \in Writers :
          at[t] \in {"idle", "load", "store", "wantExclusive", "exclusive", "unstore"}

\* Writers that are on the count, once they have stored it.
Counted == {t \in Writers : at[t] \in {"wantExclusive", "exclusive", "unstore"}}

\* devs_mtx admits one writer; the count is then zero or one, and so is what
\* that writer has loaded.
WritersInTurn ==
    /\ \A t \in Writers : at[t] # "idle" => turn = t
    /\ wanting = (IF Counted = {} THEN 0 ELSE 1)
    /\ \A t \in Writers : /\ at[t] = "store" => loaded[t] = 0
                          /\ at[t] = "unstore" => loaded[t] = 1

\* The counters and flags say who has the lock.
CountersTrue ==
    /\ shared = Cardinality(Sharing)
    /\ locked <=> Excluding # {}
    /\ \A t \in Excluding : owner = t

\* Those asleep want the lock.
SleepersWant == \A t \in asleep : at[t] \in {"wantShared", "wantExclusive"}

LockIInv ==
    /\ LockTypeOK /\ RolesKept /\ WritersInTurn /\ CountersTrue /\ MutualExclusion
    /\ SleepersWant /\ SleepersWillBeWoken

\* Threads, and every set of them, are finite.
LEMMA ThreadSets ==
    ASSUME NEW S \in SUBSET Threads
    PROVE  IsFiniteSet(S) /\ Cardinality(S) \in 0 .. Cardinality(Threads)
  <1>1. IsFiniteSet(Threads)
    BY RolesAssumption DEF Threads
  <1>2. IsFiniteSet(S) /\ Cardinality(S) <= Cardinality(Threads)
    BY <1>1, FS_Subset
  <1> QED BY <1>1, <1>2, FS_CardinalityType

\* No writer holds both roles' places, and NoThread is nobody.
LEMMA Roles ==
    /\ Readers \subseteq Threads /\ Upgraders \subseteq Threads /\ Writers \subseteq Threads
    /\ NoThread \notin Threads
    /\ \A t \in Threads : /\ t \in Readers => t \notin Upgraders \cup Writers
                          /\ t \in Upgraders => t \notin Readers \cup Writers
                          /\ t \in Writers => t \notin Readers \cup Upgraders
                          /\ t \in Readers \/ t \in Upgraders \/ t \in Writers
  BY RolesAssumption DEF Threads

\* A lock that was just made satisfies the invariant.
LEMMA LockInitInv == LockInit => LockIInv
  <1> SUFFICES ASSUME LockInit PROVE LockIInv
    OBVIOUS
  <1>1. Cardinality({}) = 0 /\ 0 \in 0 .. Cardinality(Threads)
    BY FS_EmptySet, ThreadSets, {} \in SUBSET Threads
  <1>2. Sharing = {} /\ Excluding = {} /\ Counted = {}
    BY Roles DEF LockInit, Sharing, Excluding, Counted
  <1>3. LockTypeOK
    <2>1. at \in [Threads -> Places] /\ loaded \in [Threads -> 0 .. CounterMod - 1]
      BY DEF LockInit, CounterMod, Places
    <2>2. shared \in 0 .. Cardinality(Threads) /\ wanting \in 0 .. CounterMod - 1
      BY <1>1 DEF LockInit, CounterMod
    <2> QED BY <2>1, <2>2 DEF LockInit, LockTypeOK
  <1>4. RolesKept /\ WritersInTurn
    BY <1>2, Roles DEF LockInit, RolesKept, WritersInTurn
  <1> QED BY <1>1, <1>2, <1>3, <1>4 DEF LockInit, LockIInv, CountersTrue,
             MutualExclusion, SleepersWant, SleepersWillBeWoken

\* One thread moves: what the sets of holders become.
LEMMA HoldersMove ==
    ASSUME LockTypeOK, NEW t \in Threads, NEW place, Go(t, place)
    PROVE  /\ \A x \in Threads : at'[x] = IF x = t THEN place ELSE at[x]
           /\ Sharing' = IF place \in {"shared", "both"} THEN Sharing \cup {t} ELSE Sharing \ {t}
           /\ Excluding' = IF place \in {"exclusive", "wantBoth", "both", "unstore"}
                           THEN Excluding \cup {t} ELSE Excluding \ {t}
  <1>1. \A x \in Threads : at'[x] = IF x = t THEN place ELSE at[x]
    BY DEF LockTypeOK, Go
  <1>2. Sharing' = {x \in Threads : at'[x] \in {"shared", "both"}}
    BY DEF Sharing
  <1>3. Excluding' = {x \in Threads : at'[x] \in {"exclusive", "wantBoth", "both", "unstore"}}
    BY DEF Excluding
  <1>4. Sharing' = IF place \in {"shared", "both"} THEN Sharing \cup {t} ELSE Sharing \ {t}
    BY <1>1, <1>2 DEF Sharing
  <1>5. Excluding' = IF place \in {"exclusive", "wantBoth", "both", "unstore"}
                    THEN Excluding \cup {t} ELSE Excluding \ {t}
    BY <1>1, <1>3 DEF Excluding
  <1> QED BY <1>1, <1>4, <1>5

\* The count of sharing threads when one of them comes or goes.
LEMMA SharingCount ==
    /\ Sharing \subseteq Threads /\ IsFiniteSet(Sharing) /\ Cardinality(Sharing) \in Nat
    /\ Cardinality(Sharing) = 0 <=> Sharing = {}
    /\ \A t \in Threads :
          /\ Cardinality(Sharing \cup {t})
                = IF t \in Sharing THEN Cardinality(Sharing) ELSE Cardinality(Sharing) + 1
          /\ Cardinality(Sharing \ {t})
                = IF t \in Sharing THEN Cardinality(Sharing) - 1 ELSE Cardinality(Sharing)
          /\ Cardinality(Sharing \cup {t}) <= Cardinality(Threads)
          /\ Cardinality(Sharing \ {t}) <= Cardinality(Threads)
  <1>1. Sharing \in SUBSET Threads
    BY DEF Sharing
  <1>2. IsFiniteSet(Sharing) /\ Cardinality(Sharing) \in Nat
    BY <1>1, ThreadSets, FS_CardinalityType
  <1>3. Cardinality(Sharing) = 0 <=> Sharing = {}
    BY <1>2, FS_EmptySet
  <1>4. ASSUME NEW t \in Threads
        PROVE  /\ Cardinality(Sharing \cup {t})
                     = IF t \in Sharing THEN Cardinality(Sharing) ELSE Cardinality(Sharing) + 1
               /\ Cardinality(Sharing \ {t})
                     = IF t \in Sharing THEN Cardinality(Sharing) - 1 ELSE Cardinality(Sharing)
    BY <1>2, FS_AddElement, FS_RemoveElement
  <1>5. ASSUME NEW t \in Threads
        PROVE  /\ Cardinality(Sharing \cup {t}) <= Cardinality(Threads)
               /\ Cardinality(Sharing \ {t}) <= Cardinality(Threads)
    <2>1. Sharing \cup {t} \in SUBSET Threads /\ Sharing \ {t} \in SUBSET Threads
      BY <1>1
    <2>2. IsFiniteSet(Threads)
      BY RolesAssumption DEF Threads
    <2> QED BY <2>1, <2>2, FS_Subset
  <1> QED BY <1>1, <1>2, <1>3, <1>4, <1>5

(* Steps that leave both sets of holders, the counter, the flag and the owner alone. *)
HoldersStay ==
    /\ Sharing' = Sharing /\ Excluding' = Excluding
    /\ shared' = shared /\ locked' = locked /\ owner' = owner

\* They keep what is known of the holders.
LEMMA StayingKeeps ==
    ASSUME CountersTrue, MutualExclusion, HoldersStay
    PROVE  CountersTrue' /\ MutualExclusion'
  BY DEF CountersTrue, MutualExclusion, HoldersStay

\* A thread comes to use the data.
LEMMA RequestKeeps ==
    ASSUME LockIInv, NEW t \in Threads, Request(t), UNCHANGED priority
    PROVE  LockIInv'
  <1> USE DEF LockIInv, Request, UsesThisLock
  <1>1. LockTypeOK'
    BY SharingCount DEF LockTypeOK, Go, CounterMod, Places
  <1>2. RolesKept'
    BY Roles DEF LockTypeOK, RolesKept, Go
  <1>3. WritersInTurn'
    BY Roles DEF LockTypeOK, RolesKept, WritersInTurn, Counted, Go, CounterMod
  <1>4. HoldersStay
    BY HoldersMove DEF HoldersStay, Sharing, Excluding
  <1>5. CountersTrue' /\ MutualExclusion'
    BY <1>4, StayingKeeps
  <1>6. SleepersWant'
    BY HoldersMove DEF SleepersWant, LockTypeOK
  <1>7. SleepersWillBeWoken'
    BY HoldersMove, SharingCount DEF SleepersWant, SleepersWillBeWoken, CountersTrue, LockTypeOK
  <1> QED BY <1>1, <1>2, <1>3, <1>5, <1>6, <1>7

\* A writer loads the count of writers.
LEMMA LoadWantingKeeps ==
    ASSUME LockIInv, NEW t \in Threads, LoadWanting(t), UNCHANGED priority
    PROVE  LockIInv'
  <1> USE DEF LockIInv, LoadWanting
  <1>1. LockTypeOK'
    BY SharingCount DEF LockTypeOK, Go, CounterMod, Places
  <1>2. RolesKept'
    BY Roles DEF LockTypeOK, RolesKept, Go
  <1>3. WritersInTurn'
    BY Roles DEF LockTypeOK, RolesKept, WritersInTurn, Counted, Go, CounterMod
  <1>4. HoldersStay
    BY HoldersMove DEF HoldersStay, Sharing, Excluding
  <1>5. CountersTrue' /\ MutualExclusion'
    BY <1>4, StayingKeeps
  <1>6. SleepersWant'
    BY HoldersMove DEF SleepersWant, LockTypeOK
  <1>7. SleepersWillBeWoken'
    BY HoldersMove, SharingCount DEF SleepersWant, SleepersWillBeWoken, CountersTrue, LockTypeOK
  <1> QED BY <1>1, <1>2, <1>3, <1>5, <1>6, <1>7

\* A writer stores the count of writers.
LEMMA StoreWantingKeeps ==
    ASSUME LockIInv, NEW t \in Threads, StoreWanting(t), UNCHANGED priority
    PROVE  LockIInv'
  <1> USE DEF LockIInv, StoreWanting
  <1>1. LockTypeOK'
    BY SharingCount DEF LockTypeOK, Go, CounterMod, Places
  <1>2. RolesKept'
    BY Roles DEF LockTypeOK, RolesKept, Go
  <1>3. WritersInTurn'
    BY Roles DEF LockTypeOK, RolesKept, WritersInTurn, Counted, Go, CounterMod
  <1>4. HoldersStay
    BY HoldersMove DEF HoldersStay, Sharing, Excluding
  <1>5. CountersTrue' /\ MutualExclusion'
    BY <1>4, StayingKeeps
  <1>6. SleepersWant'
    BY HoldersMove DEF SleepersWant, LockTypeOK
  <1>7. SleepersWillBeWoken'
    BY HoldersMove, SharingCount DEF SleepersWant, SleepersWillBeWoken, CountersTrue, LockTypeOK
  <1> QED BY <1>1, <1>2, <1>3, <1>5, <1>6, <1>7

\* A writer that leaves loads the count.
LEMMA LoadUnwantingKeeps ==
    ASSUME LockIInv, NEW t \in Threads, LoadUnwanting(t), UNCHANGED priority
    PROVE  LockIInv'
  <1> USE DEF LockIInv, LoadUnwanting, Ready
  <1>1. LockTypeOK'
    BY SharingCount DEF LockTypeOK, Go, CounterMod, Places
  <1>2. RolesKept'
    BY Roles DEF LockTypeOK, RolesKept, Go
  <1>3. WritersInTurn'
    BY Roles DEF LockTypeOK, RolesKept, WritersInTurn, Counted, Go, CounterMod
  <1>4. HoldersStay
    BY HoldersMove DEF HoldersStay, Sharing, Excluding
  <1>5. CountersTrue' /\ MutualExclusion'
    BY <1>4, StayingKeeps
  <1>6. SleepersWant'
    BY HoldersMove DEF SleepersWant, LockTypeOK
  <1>7. SleepersWillBeWoken'
    BY HoldersMove, SharingCount DEF SleepersWant, SleepersWillBeWoken, CountersTrue, LockTypeOK
  <1> QED BY <1>1, <1>2, <1>3, <1>5, <1>6, <1>7

\* A thread wakes up for no reason.
LEMMA LockWakesSpuriouslyKeeps ==
    ASSUME LockIInv, NEW t \in Threads, LockWakesSpuriously(t), UNCHANGED priority
    PROVE  LockIInv'
  <1> USE DEF LockIInv, LockWakesSpuriously
  <1>1. LockTypeOK'
    BY SharingCount DEF LockTypeOK, Go, CounterMod, Places
  <1>2. RolesKept'
    BY Roles DEF LockTypeOK, RolesKept, Go
  <1>3. WritersInTurn'
    BY Roles DEF LockTypeOK, RolesKept, WritersInTurn, Counted, Go, CounterMod
  <1>4. HoldersStay
    BY DEF HoldersStay, Sharing, Excluding
  <1>5. CountersTrue' /\ MutualExclusion'
    BY <1>4, StayingKeeps
  <1>6. SleepersWant'
    BY HoldersMove DEF SleepersWant, LockTypeOK
  <1>7. SleepersWillBeWoken'
    BY HoldersMove, SharingCount DEF SleepersWant, SleepersWillBeWoken, CountersTrue, LockTypeOK
  <1> QED BY <1>1, <1>2, <1>3, <1>5, <1>6, <1>7

\* An upgrader keeps only its shared lock.
LEMMA UnlockExclusiveKeeps ==
    ASSUME LockIInv, NEW t \in Threads, UnlockExclusive(t), UNCHANGED priority
    PROVE  LockIInv'
  <1> USE DEF LockIInv, UnlockExclusive, Ready
  <1>1. LockTypeOK'
    BY SharingCount DEF LockTypeOK, Go, CounterMod, Places
  <1>2. RolesKept'
    BY Roles DEF LockTypeOK, RolesKept, Go
  <1>3. WritersInTurn'
    BY Roles DEF LockTypeOK, RolesKept, WritersInTurn, Counted, Go, CounterMod
  <1>4. Sharing' = Sharing /\ Excluding' = {} /\ t \in Sharing
    BY HoldersMove DEF Sharing, Excluding, MutualExclusion
  <1>5. CountersTrue' /\ MutualExclusion'
    BY <1>4 DEF CountersTrue, MutualExclusion
  <1>6. SleepersWant'
    BY HoldersMove DEF SleepersWant, LockTypeOK
  <1>7. SleepersWillBeWoken'
    BY HoldersMove, SharingCount DEF SleepersWant, SleepersWillBeWoken, CountersTrue, LockTypeOK
  <1> QED BY <1>1, <1>2, <1>3, <1>4, <1>5, <1>6, <1>7

\* A writer leaves and wakes everyone.
LEMMA StoreUnwantingKeeps ==
    ASSUME LockIInv, NEW t \in Threads, StoreUnwanting(t), UNCHANGED priority
    PROVE  LockIInv'
  <1> USE DEF LockIInv, StoreUnwanting
  <1>1. LockTypeOK'
    <2>1. loaded[t] = 1
      BY Roles DEF LockTypeOK, RolesKept, WritersInTurn
    <2>2. wanting' = 0
      BY <2>1 DEF CounterMod
    <2>3. loaded' \in [Threads -> 0 .. CounterMod - 1] /\ wanting' \in 0 .. CounterMod - 1
      BY <2>2 DEF LockTypeOK, CounterMod
    <2>4. at' \in [Threads -> Places]
      BY DEF LockTypeOK, Go, Places
    <2> QED BY <2>3, <2>4 DEF LockTypeOK
  <1>2. RolesKept'
    BY Roles DEF LockTypeOK, RolesKept, Go
  <1>3. WritersInTurn'
    BY Roles DEF LockTypeOK, RolesKept, WritersInTurn, Counted, Go, CounterMod
  <1>4. Sharing' = Sharing /\ Excluding' = {}
    BY HoldersMove DEF Sharing, Excluding, MutualExclusion
  <1>5. CountersTrue' /\ MutualExclusion'
    BY <1>4 DEF CountersTrue, MutualExclusion
  <1>6. SleepersWant'
    BY HoldersMove DEF SleepersWant, LockTypeOK
  <1>7. SleepersWillBeWoken'
    BY HoldersMove, SharingCount DEF SleepersWant, SleepersWillBeWoken, CountersTrue, LockTypeOK
  <1> QED BY <1>1, <1>2, <1>3, <1>4, <1>5, <1>6, <1>7

\* A thread locks shared: it is counted, and if the lock was held it is its holder.
LEMMA LockSharedKeeps ==
    ASSUME LockIInv, NEW t \in Threads, LockShared(t), UNCHANGED priority
    PROVE  LockIInv'
  <1> USE DEF LockIInv, LockShared, Ready
  <1>1. CASE MayShare(t)
    <2>1. /\ Sharing' = Sharing \cup {t} /\ Excluding' = Excluding
          /\ t \notin Sharing /\ shared' = shared + 1 /\ asleep' = asleep
          /\ at'[t] \in {"shared", "both"}
      BY <1>1, HoldersMove DEF Sharing, Excluding
    <2>2. shared' = Cardinality(Sharing)' /\ shared' \in 0 .. Cardinality(Threads)
      BY <2>1, SharingCount, ThreadSets, Threads \in SUBSET Threads DEF CountersTrue
    <2>3. LockTypeOK'
      BY <1>1, <2>2 DEF LockTypeOK, Go, Places
    <2>4. RolesKept'
      BY <1>1, Roles DEF LockTypeOK, RolesKept, Go
    <2>5. WritersInTurn'
      BY <1>1, Roles DEF LockTypeOK, RolesKept, WritersInTurn, Counted, Go
    <2>6. CountersTrue'
      BY <2>1, <2>2 DEF CountersTrue
    <2>7. Excluding # {} => Excluding = {t}
      BY <1>1 DEF MayShare, CountersTrue, MutualExclusion
    <2>8. MutualExclusion'
      BY <2>1, <2>7 DEF MutualExclusion
    <2>9. SleepersWant'
      BY <1>1, <2>1, HoldersMove DEF SleepersWant, LockTypeOK
    <2>10. SleepersWillBeWoken'
      BY <2>1 DEF SleepersWillBeWoken
    <2> QED BY <2>3, <2>4, <2>5, <2>6, <2>8, <2>9, <2>10
  <1>2. CASE ~MayShare(t)
    <2>1. at' = at /\ shared' = shared /\ asleep' = asleep \cup {t}
      BY <1>2
    <2>2. HoldersStay
      BY <2>1 DEF HoldersStay, Sharing, Excluding
    <2>3. CountersTrue' /\ MutualExclusion'
      BY <2>2, StayingKeeps
    <2>4. at[t] = "wantShared"
      BY <1>2 DEF MayShare, CountersTrue, Excluding
    <2>5. LockTypeOK' /\ RolesKept' /\ WritersInTurn' /\ SleepersWant'
      BY <2>1, <2>4 DEF LockTypeOK, RolesKept, WritersInTurn, Counted, SleepersWant
    <2>6. SleepersWillBeWoken'
      <3>1. CASE locked
        BY <3>1, <2>2 DEF HoldersStay, CountersTrue, SleepersWillBeWoken
      <3>2. CASE ~locked
        <4>1. priority /\ wanting # 0 /\ Excluding = {}
          BY <1>2, <3>2 DEF MayShare, CountersTrue
        <4>2. PICK w \in Writers : at[w] \in {"wantExclusive", "exclusive", "unstore"}
          BY <4>1 DEF WritersInTurn, Counted
        <4>3. w \in Threads /\ at[w] = "wantExclusive" /\ w # t
          BY <4>1, <4>2, <2>4, Roles DEF Excluding
        <4> QED BY <2>1, <2>4, <4>1, <4>3 DEF SleepersWillBeWoken
      <3> QED BY <3>1, <3>2
    <2> QED BY <2>3, <2>5, <2>6
  <1> QED BY <1>1, <1>2

\* A thread leaves; the last one wakes another, which is then awake and wants the lock.
LEMMA UnlockSharedKeeps ==
    ASSUME LockIInv, NEW t \in Threads, UnlockShared(t), UNCHANGED priority
    PROVE  LockIInv'
  <1> USE DEF LockIInv, UnlockShared, Ready
  <1>1. PICK place \in {"idle", "wantExclusive"} :
            Go(t, place) /\ (place = "wantExclusive" => t \in Upgraders)
    OBVIOUS
  <1>2. /\ Sharing' = Sharing \ {t} /\ Excluding' = Excluding
        /\ t \in Sharing /\ shared' = shared - 1
    BY <1>1, HoldersMove DEF Sharing, Excluding
  <1>3. shared' = Cardinality(Sharing)' /\ shared' \in 0 .. Cardinality(Threads)
    <2>1. Sharing \ {t} \in SUBSET Threads
      BY DEF Sharing
    <2> QED BY <1>2, <2>1, SharingCount, ThreadSets DEF CountersTrue
  <1>4. asleep' \subseteq asleep
    BY DEF NotifyOne
  <1>5. LockTypeOK'
    BY <1>1, <1>3, <1>4 DEF LockTypeOK, Go, Places
  <1>6. RolesKept'
    BY <1>1, Roles DEF LockTypeOK, RolesKept, Go
  <1>7. WritersInTurn'
    BY <1>1, Roles DEF LockTypeOK, RolesKept, WritersInTurn, Counted, Go
  <1>8. CountersTrue' /\ MutualExclusion'
    BY <1>2, <1>3 DEF CountersTrue, MutualExclusion
  <1>9. SleepersWant'
    BY <1>1, <1>4, HoldersMove DEF SleepersWant, LockTypeOK
  <1>10. SleepersWillBeWoken'
    <2>1. CASE shared' = 0
      BY <1>1, <2>1, HoldersMove DEF NotifyOne, SleepersWant, SleepersWillBeWoken, LockTypeOK
    <2>2. CASE shared' # 0
      <3>1. Sharing' # {}
        BY <2>2, <1>3, FS_EmptySet
      <3> QED BY <3>1 DEF SleepersWillBeWoken
    <2> QED BY <2>1, <2>2
  <1> QED BY <1>5, <1>6, <1>7, <1>8, <1>9, <1>10

\* A thread locks exclusively when nobody has the lock, or goes to sleep.
LEMMA LockExclusiveKeeps ==
    ASSUME LockIInv, NEW t \in Threads, LockExclusive(t), UNCHANGED priority
    PROVE  LockIInv'
  <1> USE DEF LockIInv, LockExclusive, Ready
  <1>1. CASE shared = 0 /\ ~locked
    <2>1. Sharing = {} /\ Excluding = {}
      BY <1>1, SharingCount DEF CountersTrue
    <2>2. /\ Sharing' = {} /\ Excluding' = {t} /\ shared' = 0
          /\ locked' = TRUE /\ owner' = t /\ asleep' = asleep
      BY <1>1, <2>1, HoldersMove
    <2>3. LockTypeOK'
      BY <1>1 DEF LockTypeOK, Go, Places
    <2>4. RolesKept'
      BY <1>1, Roles DEF LockTypeOK, RolesKept, Go
    <2>5. WritersInTurn'
      BY <1>1, Roles DEF LockTypeOK, RolesKept, WritersInTurn, Counted, Go
    <2>6. CountersTrue'
      BY <2>2, FS_EmptySet DEF CountersTrue
    <2>7. MutualExclusion'
      BY <2>2 DEF MutualExclusion
    <2>8. SleepersWant'
      BY <1>1, <2>2, HoldersMove DEF SleepersWant, LockTypeOK
    <2>9. SleepersWillBeWoken'
      BY <2>2 DEF SleepersWillBeWoken
    <2> QED BY <2>3, <2>4, <2>5, <2>6, <2>7, <2>8, <2>9
  <1>2. CASE ~(shared = 0 /\ ~locked)
    <2>1. at' = at /\ locked' = locked /\ owner' = owner /\ asleep' = asleep \cup {t}
      BY <1>2
    <2>2. HoldersStay
      BY <2>1 DEF HoldersStay, Sharing, Excluding
    <2>3. CountersTrue' /\ MutualExclusion'
      BY <2>2, StayingKeeps
    <2>4. LockTypeOK' /\ RolesKept' /\ WritersInTurn' /\ SleepersWant'
      BY <2>1 DEF LockTypeOK, RolesKept, WritersInTurn, Counted, SleepersWant
    <2>5. Sharing # {} \/ Excluding # {}
      BY <1>2, SharingCount DEF CountersTrue
    <2>6. SleepersWillBeWoken'
      BY <2>5, <2>2 DEF HoldersStay, SleepersWillBeWoken
    <2> QED BY <2>3, <2>4, <2>6
  <1> QED BY <1>1, <1>2

\* For any finite number of threads both reader-writer locks exclude, and count
\* their writers exactly although the count is not protected by mtx_.
\* SharedMutex loses no wake-up; SharedMutexPriority loses one only where a
\* reader was woken in the place of a writer, and both sleep (SharedMutex.hpp,
\* SharedMutexPriority.hpp).
THEOREM LocksAreSafe == LockSpec => []LockInv
  <1>1. LockIInv /\ [LockNext]_lock_vars => LockIInv'
    <2> SUFFICES ASSUME LockIInv, [LockNext]_lock_vars PROVE LockIInv'
      OBVIOUS
    <2>1. CASE UNCHANGED lock_vars
      BY <2>1 DEF LockIInv, lock_vars, LockTypeOK, RolesKept, WritersInTurn, Counted,
         CountersTrue, MutualExclusion, SleepersWant, SleepersWillBeWoken, Sharing, Excluding
    <2>2. CASE LockNext
      BY <2>2, RequestKeeps, LockSharedKeeps, UnlockSharedKeeps, LoadWantingKeeps,
         StoreWantingKeeps, LockExclusiveKeeps, LoadUnwantingKeeps, StoreUnwantingKeeps,
         UnlockExclusiveKeeps, LockWakesSpuriouslyKeeps DEF LockNext, Step
    <2> QED BY <2>1, <2>2
  <1>2. LockIInv => LockInv
    <2> SUFFICES ASSUME LockIInv PROVE WantingIsExact
      BY DEF LockIInv, LockInv
    <2>1. Counted = {} \/ \E t \in Writers : Counted = {t}
      BY DEF LockIInv, WritersInTurn, Counted
    <2>2. Cardinality(Counted) = IF Counted = {} THEN 0 ELSE 1
      BY <2>1, FS_EmptySet, FS_Singleton
    <2> QED BY <2>2 DEF LockIInv, WritersInTurn, Counted, WantingIsExact
  <1> QED BY LockInitInv, <1>1, <1>2, PTL DEF LockSpec

-----------------------------------------------------------------------------
(* MultiTermiosAgent                                                       *)

ThreadPlaces ==
    {"off", "begin", "lock", "scan", "open", "insert", "add", "toWait", "waiting", "check",
     "done"}
Writing == {"none", "thread", "ctl"}
CtlPlaces == {"spawn", "toWait", "waiting", "running", "failed", "handle", "lock", "close",
              "handled", "fini", "join", "closeAll", "stopped"}
IOPlaces == {"idle", "io", "push", "report", "asleep", "off"}
IOStates == [at : IOPlaces, left : SUBSET Devices, port : Devices \cup {"none"},
             rc : BOOLEAN, rv : BOOLEAN]

\* The threads' local variables.
PortsShape ==
    /\ init_multiport \in [at : ThreadPlaces, left : SUBSET Devices,
                           port : Devices \cup {"none"}, woken : BOOLEAN]
    /\ ctl \in [at : CtlPlaces, for : {"start", "error", "stop"}, left : SUBSET Devices,
                rv : BOOLEAN]
    /\ io \in [IOThreads -> IOStates]
    /\ error_fd \subseteq Devices /\ broken \subseteq Devices
    /\ framing_mtx \in [wanted_by : Writing, asleep : SUBSET (IOThreads \cup {"thread", "ctl"})]
    /\ sleepers \subseteq {"thread", "caller"}

\* devs_mtx is held where the lists of devices are changed.
DevsMtxHeld ==
    /\ devsMtx \in {"none", "thread", "ctl"}
    /\ devsMtx = "thread" <=> init_multiport.at \in {"scan", "open", "insert", "add", "toWait"}
    /\ devsMtx = "ctl" <=> ctl.at = "close"

\* Each device is in exactly one list.
Accounted ==
    /\ devs \cup initialized \cup givenUp = Devices
    /\ devs \cap initialized = {} /\ devs \cap givenUp = {} /\ initialized \cap givenUp = {}
    /\ \A d \in framing \ initialized : init_multiport.at = "add" /\ d = init_multiport.port

\* What the thread walks over is still to be opened, and what fini walks over
\* is open, with no thread about.
WalksAreCurrent ==
    /\ init_multiport.at \in {"scan", "open", "insert", "add"} => init_multiport.left \subseteq devs
    /\ init_multiport.at \in {"open", "insert", "add"} =>
          init_multiport.port \in devs \ init_multiport.left
    /\ ctl.at \in {"spawn", "closeAll"} => init_multiport.at = "off"
    /\ ctl.at = "closeAll" => ctl.left \subseteq initialized

PushesAPort == \A t \in IOThreads : io[t].at = "push" => io[t].port \in Devices

PortsIInv ==
    /\ PortsShape /\ DevsMtxHeld /\ Accounted /\ WalksAreCurrent /\ PushesAPort
    /\ PortInUseStaysOpen

\* One list for each device is what the counts say.
LEMMA AccountedCounts == Accounted => NoPortIsLost
  <1> SUFFICES ASSUME Accounted
               PROVE  Cardinality(devs) + Cardinality(initialized) + Cardinality(givenUp)
                          = Cardinality(Devices)
    BY DEF Accounted, NoPortIsLost
  <1>1. IsFiniteSet(Devices)
    BY TermiosAssumption
  <1>2. /\ devs \in SUBSET Devices /\ initialized \in SUBSET Devices
        /\ givenUp \in SUBSET Devices
    BY DEF Accounted
  <1>3. IsFiniteSet(devs) /\ IsFiniteSet(initialized) /\ IsFiniteSet(givenUp)
    BY <1>1, <1>2, FS_Subset
  <1>4. /\ IsFiniteSet(devs \cup initialized)
        /\ Cardinality(devs \cup initialized)
             = Cardinality(devs) + Cardinality(initialized) - Cardinality({})
    BY <1>3, FS_Union, devs \cap initialized = {} DEF Accounted
  <1>5. Cardinality(devs \cup initialized \cup givenUp)
          = Cardinality(devs \cup initialized) + Cardinality(givenUp) - Cardinality({})
    BY <1>3, <1>4, FS_Union, (devs \cup initialized) \cap givenUp = {} DEF Accounted
  <1>6. /\ Cardinality(devs) \in Nat /\ Cardinality(initialized) \in Nat
        /\ Cardinality(givenUp) \in Nat
    BY <1>3, FS_CardinalityType
  <1>7. Cardinality(Devices) = Cardinality(devs \cup initialized \cup givenUp)
    BY DEF Accounted
  <1> QED BY <1>4, <1>5, <1>6, <1>7, FS_EmptySet

\* The agent before start(), or after a start() that opened every port.
LEMMA PortsInitInv == PortsInit => PortsIInv
  <1> SUFFICES ASSUME PortsInit PROVE PortsIInv
    OBVIOUS
  <1>1. PortsShape
    BY TermiosAssumption
       DEF PortsInit, PortsShape, Idle, IOStates, IOPlaces, ThreadPlaces, CtlPlaces, Writing
  <1>2. DevsMtxHeld
    BY TermiosAssumption DEF PortsInit, DevsMtxHeld
  <1>3. Accounted /\ WalksAreCurrent
    BY TermiosAssumption DEF PortsInit, Accounted, WalksAreCurrent
  <1>4. PushesAPort /\ PortInUseStaysOpen
    BY DEF PortsInit, PushesAPort, PortInUseStaysOpen, SharingPorts, Idle
  <1> QED BY <1>1, <1>2, <1>3, <1>4 DEF PortsIInv

\* What a thread that uses the ports may come to keep the invariant.
LEMMA IOStateKeeps ==
    ASSUME PortsIInv, NEW t \in IOThreads, NEW r \in IOStates,
           r.at = "push" => r.port \in Devices,
           r.at \in {"io", "push"} => r.left \cup ({r.port} \ {"none"}) \subseteq framing,
           io' = [io EXCEPT ![t] = r],
           framing_mtx' \in [wanted_by : Writing, asleep : SUBSET (IOThreads \cup {"thread", "ctl"})],
           UNCHANGED <<ports, world, error_fd, exitSignal, init_multiport, devsMtx, sleepers, ctl>>
    PROVE  PortsIInv'
  <1>1. \A u \in IOThreads : io'[u] = IF u = t THEN r ELSE io[u]
    BY DEF PortsIInv, PortsShape
  <1>2. PortsShape' /\ DevsMtxHeld' /\ Accounted' /\ WalksAreCurrent'
    BY DEF PortsIInv, PortsShape, DevsMtxHeld, Accounted, WalksAreCurrent, ports, world
  <1>3. PushesAPort' /\ PortInUseStaysOpen'
    BY <1>1 DEF PortsIInv, PushesAPort, PortInUseStaysOpen, SharingPorts, ports
  <1> QED BY <1>2, <1>3 DEF PortsIInv

\* Closing a port that is in the list, with nobody at the ports.
LEMMA RestartKeeps ==
    ASSUME PortsIInv, NEW d \in ctl.left \cap initialized, NEW ok \in BOOLEAN,
           restart_serial(d, ok), ctl.at \in {"close", "closeAll"},
           error_fd' \subseteq error_fd,
           UNCHANGED <<world, givenUp, exitSignal, init_multiport, devsMtx, sleepers, reported, io>>
    PROVE  PortsIInv'
  <1> USE DEF PortsIInv, restart_serial, LockedExclusively, world
  <1>1. PortsShape'
    BY DEF PortsShape, Freed, Writing
  <1>2. init_multiport.at \notin {"scan", "open", "insert", "add"}
    BY DEF DevsMtxHeld, WalksAreCurrent
  <1>3. DevsMtxHeld' /\ WalksAreCurrent' /\ Accounted'
    <2>1. ctl'.at = ctl.at /\ ctl'.left = ctl.left \ {d}
      BY DEF PortsShape
    <2>2. DevsMtxHeld' /\ WalksAreCurrent'
      BY <1>2, <2>1 DEF DevsMtxHeld, WalksAreCurrent
    <2>3. Accounted'
      BY <1>2 DEF Accounted
    <2> QED BY <2>2, <2>3
  <1>4. PushesAPort' /\ PortInUseStaysOpen'
    BY DEF PushesAPort, PortInUseStaysOpen, SharingPorts
  <1> QED BY <1>1, <1>3, <1>4

\* Every step of the threads, of control and of the world.
LEMMA PortsStep == PortsIInv /\ PortsNext => PortsIInv'
  <1> SUFFICES ASSUME PortsIInv, PortsNext PROVE PortsIInv'
    OBVIOUS
  <1>1. ASSUME NEW t \in IOThreads, BeginIO(t) PROVE PortsIInv'
    <2>1. PICK s \in SUBSET framing, failed \in BOOLEAN :
             io' = [io EXCEPT ![t] = [Idle EXCEPT !.at = "io", !.left = s, !.rc = failed]]
      BY <1>1, Zenon DEF BeginIO
    <2> DEFINE r == [Idle EXCEPT !.at = "io", !.left = s, !.rc = failed]
    <2>2. r \in IOStates
      <3>1. framing \subseteq Devices
        BY DEF PortsIInv, Accounted, WalksAreCurrent
      <3> QED BY <3>1 DEF IOStates, IOPlaces, Idle
    <2>3. r.at = "io" /\ r.left = s /\ r.port = "none"
      BY DEF Idle
    <2> HIDE DEF r
    <2> QED BY <1>1, <2>1, <2>2, <2>3, IOStateKeeps DEF BeginIO, r, PortsIInv, PortsShape
  <1>2. ASSUME NEW t \in IOThreads, NEW d \in Devices, UsePort(t, d) PROVE PortsIInv'
    <2> DEFINE bad == io[t].rc \/ d \in broken
               r == [io[t] EXCEPT !.left = @ \ {d}, !.rc = bad, !.rv = @ \/ d \notin broken,
                                  !.at = IF bad THEN "push" ELSE @,
                                  !.port = IF bad THEN d ELSE "none"]
    <2>1. io' = [io EXCEPT ![t] = r]
      BY <1>2 DEF UsePort
    <2>2. io[t] \in IOStates /\ io[t].at = "io" /\ d \in io[t].left
      BY <1>2 DEF UsePort, PortsIInv, PortsShape
    <2>3. /\ r \in IOStates /\ r.port \in {d, "none"} /\ r.left = io[t].left \ {d}
          /\ r.at = "push" => r.port = d
      BY <2>2 DEF IOStates, IOPlaces
    <2>4. io[t].left \subseteq framing
      BY <2>2 DEF PortsIInv, PortInUseStaysOpen, SharingPorts
    <2> HIDE DEF r
    <2>5. UNCHANGED <<ports, world, error_fd, exitSignal, init_multiport, devsMtx, sleepers, ctl>>
      BY <1>2 DEF UsePort
    <2>6. framing_mtx' \in [wanted_by : Writing, asleep : SUBSET (IOThreads \cup {"thread", "ctl"})]
      BY <1>2 DEF UsePort, PortsIInv, PortsShape
    <2>7. r.left \cup ({r.port} \ {"none"}) \subseteq framing
      BY <2>2, <2>3, <2>4
    <2> QED BY <2>1, <2>3, <2>5, <2>6, <2>7, IOStateKeeps
  <1>3. ASSUME NEW t \in IOThreads, EndIO(t) PROVE PortsIInv'
    <2>1. PICK r \in {Idle, [Idle EXCEPT !.at = "report"]} : io' = [io EXCEPT ![t] = r]
      BY <1>3 DEF EndIO
    <2>2. r \in IOStates /\ r.at \in {"idle", "report"}
      <3>1. CASE r = Idle
        BY <3>1 DEF Idle, IOStates, IOPlaces
      <3>2. CASE r = [Idle EXCEPT !.at = "report"]
        BY <3>2 DEF Idle, IOStates, IOPlaces
      <3> QED BY <3>1, <3>2
    <2>3. framing_mtx' \in [wanted_by : Writing, asleep : SUBSET (IOThreads \cup {"thread", "ctl"})]
      <3>1. CASE UNCHANGED framing_mtx
        BY <3>1 DEF PortsIInv, PortsShape
      <3>2. ASSUME NEW x \in framing_mtx.asleep,
                   framing_mtx' = [framing_mtx EXCEPT !.asleep = @ \ {x}]
            PROVE  framing_mtx' \in [wanted_by : Writing,
                                     asleep : SUBSET (IOThreads \cup {"thread", "ctl"})]
        BY <3>2 DEF PortsIInv, PortsShape
      <3> QED BY <1>3, <3>1, <3>2 DEF EndIO
    <2> QED BY <1>3, <2>1, <2>2, <2>3, IOStateKeeps DEF EndIO
  <1>4. ASSUME NEW d \in Devices, NEW ok \in BOOLEAN, CloseFailed(d, ok) PROVE PortsIInv'
    BY <1>4, RestartKeeps DEF CloseFailed
  <1>5. ASSUME NEW d \in Devices, NEW ok \in BOOLEAN, CloseAll(d, ok) PROVE PortsIInv'
    <2>1. d \in ctl.left \cap initialized
      BY <1>5 DEF CloseAll, PortsIInv, WalksAreCurrent
    <2> QED BY <1>5, <2>1, RestartKeeps DEF CloseAll
  <1> USE DEF PortsIInv, PortsShape, DevsMtxHeld, Accounted, WalksAreCurrent, PushesAPort,
          PortInUseStaysOpen, SharingPorts, IOStates, IOPlaces, ThreadPlaces, CtlPlaces, Idle,
          At, NotifyWaiter, LockedExclusively, Freed, Writing, ports, world
  <1>6. ASSUME NEW d \in Devices, Access(d) PROVE PortsIInv'
    <2>1. CASE init_multiport' = [init_multiport EXCEPT !.at = "open", !.left = @ \ {d}, !.port = d]
      <3>1. PortsShape' /\ DevsMtxHeld'
        BY <1>6, <2>1 DEF Access
      <3>2. Accounted' /\ WalksAreCurrent'
        BY <1>6, <2>1 DEF Access
      <3>3. PushesAPort' /\ PortInUseStaysOpen'
        BY <1>6, <2>1 DEF Access
      <3> QED BY <3>1, <3>2, <3>3
    <2>2. CASE init_multiport' = [init_multiport EXCEPT !.left = @ \ {d}]
      BY <1>6, <2>2 DEF Access
    <2> QED BY <1>6, <2>1, <2>2 DEF Access
  <1>7. CASE SomeMissing
    <2>1. CASE ~init_multiport.woken /\ initialized # {}
      <3>1. /\ sleepers' \subseteq sleepers
            /\ init_multiport' = [init_multiport EXCEPT !.at = "check", !.woken = TRUE]
        BY <1>7, <2>1 DEF SomeMissing
      <3> QED BY <1>7, <3>1 DEF SomeMissing
    <2>2. CASE ~(~init_multiport.woken /\ initialized # {})
      BY <1>7, <2>2 DEF SomeMissing
    <2> QED BY <2>1, <2>2
  <1>8. CASE ThreadBegin
    <2>1. PortsShape'
      BY <1>8 DEF ThreadBegin
    <2>2. DevsMtxHeld'
      BY <1>8 DEF ThreadBegin
    <2>3. Accounted' /\ WalksAreCurrent'
      BY <1>8 DEF ThreadBegin
    <2>4. PushesAPort' /\ PortInUseStaysOpen'
      BY <1>8 DEF ThreadBegin
    <2> QED BY <2>1, <2>2, <2>3, <2>4
  <1>9. CASE LockDevs
    <2>1. PortsShape'
      BY <1>9 DEF LockDevs
    <2>2. DevsMtxHeld'
      BY <1>9 DEF LockDevs
    <2>3. Accounted' /\ WalksAreCurrent'
      BY <1>9 DEF LockDevs
    <2>4. PushesAPort' /\ PortInUseStaysOpen'
      BY <1>9 DEF LockDevs
    <2> QED BY <2>1, <2>2, <2>3, <2>4
  <1>10. CASE Open
    BY <1>10 DEF Open
  <1>11. CASE OpenFails
    <2>1. PortsShape'
      BY <1>11 DEF OpenFails
    <2>2. DevsMtxHeld'
      BY <1>11 DEF OpenFails
    <2>3. Accounted' /\ WalksAreCurrent'
      BY <1>11 DEF OpenFails
    <2>4. PushesAPort' /\ PortInUseStaysOpen'
      BY <1>11 DEF OpenFails
    <2> QED BY <2>1, <2>2, <2>3, <2>4
  <1>12. CASE AllHandled
    BY <1>12 DEF AllHandled
  <1>13. CASE WaitForPorts
    BY <1>13 DEF WaitForPorts
  <1>14. CASE ThreadWoken
    BY <1>14 DEF ThreadWoken
  <1>15. CASE CheckExit
    BY <1>15 DEF CheckExit
  <1>16. CASE Spawn
    BY <1>16 DEF Spawn
  <1>17. CASE WaitForPort
    BY <1>17 DEF WaitForPort
  <1>18. CASE InitReturns
    BY <1>18 DEF InitReturns
  <1>19. CASE ErrorHandler
    BY <1>19 DEF ErrorHandler
  <1>20. CASE HandleError
    BY <1>20 DEF HandleError
  <1>21. CASE LockToClose
    BY <1>21 DEF LockToClose
  <1>22. CASE FailedClosed
    <2>1. PortsShape'
      <3>1. /\ ctl' = [ctl EXCEPT !.at = IF ctl.rv THEN "handled" ELSE "handle", !.rv = TRUE]
            /\ sleepers' \subseteq sleepers
        BY <1>22 DEF FailedClosed
      <3>2. UNCHANGED <<framing_mtx, ports, world, error_fd, init_multiport, io>>
        BY <1>22 DEF FailedClosed
      <3> QED BY <3>1, <3>2
    <2>2. DevsMtxHeld'
      BY <1>22 DEF FailedClosed
    <2>3. Accounted' /\ WalksAreCurrent'
      BY <1>22 DEF FailedClosed
    <2>4. PushesAPort' /\ PortInUseStaysOpen'
      BY <1>22 DEF FailedClosed
    <2> QED BY <2>1, <2>2, <2>3, <2>4
  <1>23. CASE Handled
    BY <1>23 DEF Handled
  <1>24. CASE SignalExit
    BY <1>24 DEF SignalExit
  <1>25. CASE JoinThread
    BY <1>25 DEF JoinThread
  <1>26. CASE FiniReturns
    <2>1. /\ ctl' \in [at : CtlPlaces, for : {"start", "error", "stop"}, left : SUBSET Devices,
                      rv : BOOLEAN]
          /\ ctl'.at \in {"stopped", "spawn", "handle"}
      <3>1. CASE ctl.for = "stop"
        BY <1>26, <3>1 DEF FiniReturns
      <3>2. CASE ctl.for # "stop" /\ ctl.rv
        BY <1>26, <3>2 DEF FiniReturns
      <3>3. CASE ctl.for # "stop" /\ ~ctl.rv
        <4>1. ctl' = [ctl EXCEPT !.at = "handle", !.rv = TRUE]
          BY <1>26, <3>3 DEF FiniReturns
        <4> QED BY <4>1
      <3> QED BY <3>1, <3>2, <3>3
    <2>2. /\ ctl.at = "closeAll" /\ error_fd' \subseteq error_fd
          /\ UNCHANGED <<framing_mtx, ports, world, init_multiport, devsMtx, sleepers, io>>
      BY <1>26 DEF FiniReturns
    <2>3. PortsShape' /\ DevsMtxHeld'
      BY <2>1, <2>2
    <2>4. Accounted' /\ WalksAreCurrent'
      BY <2>1, <2>2
    <2>5. PushesAPort' /\ PortInUseStaysOpen'
      BY <2>2
    <2> QED BY <2>3, <2>4, <2>5
  <1>27. CASE StopPorts
    <2>1. PortsShape'
      BY <1>27 DEF StopPorts
    <2>2. DevsMtxHeld'
      BY <1>27 DEF StopPorts
    <2>3. Accounted' /\ WalksAreCurrent'
      BY <1>27 DEF StopPorts
    <2>4. PushesAPort' /\ PortInUseStaysOpen'
      BY <1>27 DEF StopPorts
    <2> QED BY <2>1, <2>2, <2>3, <2>4
  <1>28. CASE WakeSpuriously
    BY <1>28 DEF WakeSpuriously
  <1>29. ASSUME NEW d \in Devices, Break(d) PROVE PortsIInv'
    BY <1>29 DEF Break
  <1>30. ASSUME NEW t \in IOThreads, NoteFailed(t) PROVE PortsIInv'
    <2>1. PortsShape'
      <3>1. io[t].port \in Devices /\ error_fd' \subseteq Devices
        BY <1>30 DEF NoteFailed
      <3>2. io' = [io EXCEPT ![t] = [io[t] EXCEPT !.at = "io", !.port = "none"]]
        BY <1>30 DEF NoteFailed
      <3>3. UNCHANGED <<framing_mtx, ports, world, init_multiport, sleepers, ctl>>
        BY <1>30 DEF NoteFailed
      <3>4. [io[t] EXCEPT !.at = "io", !.port = "none"] \in IOStates
        <4>1. io[t] \in IOStates
          OBVIOUS
        <4> QED BY <4>1
      <3>5. io' \in [IOThreads -> IOStates]
        BY <3>2, <3>4
      <3> QED BY <3>1, <3>3, <3>5
    <2>2. DevsMtxHeld'
      BY <1>30 DEF NoteFailed
    <2>3. Accounted' /\ WalksAreCurrent'
      BY <1>30 DEF NoteFailed
    <2>4. PushesAPort' /\ PortInUseStaysOpen'
      BY <1>30 DEF NoteFailed
    <2> QED BY <2>1, <2>2, <2>3, <2>4
  <1>31. ASSUME NEW t \in IOThreads, Report(t) PROVE PortsIInv'
    BY <1>31 DEF Report
  <1>32. CASE insert_serial
    BY <1>32 DEF insert_serial
  <1>33. CASE AddDevice
    <2>1. PortsShape'
      BY <1>33 DEF AddDevice
    <2>2. DevsMtxHeld'
      BY <1>33 DEF AddDevice
    <2>3. Accounted' /\ WalksAreCurrent'
      BY <1>33 DEF AddDevice
    <2>4. PushesAPort' /\ PortInUseStaysOpen'
      BY <1>33 DEF AddDevice
    <2> QED BY <2>1, <2>2, <2>3, <2>4
  <1>34. CASE CloseBegins
    BY <1>34 DEF CloseBegins
  <1>35. ASSUME NEW w \in {"thread", "ctl"}, WriterSleeps(w) PROVE PortsIInv'
    BY <1>35 DEF WriterSleeps
  <1>36. ASSUME NEW t \in IOThreads, ReaderSleeps(t) PROVE PortsIInv'
    BY <1>36 DEF ReaderSleeps
  <1> HIDE DEF PortsIInv, PortsShape, DevsMtxHeld, Accounted, WalksAreCurrent, PushesAPort,
          PortInUseStaysOpen, SharingPorts, IOStates, IOPlaces, ThreadPlaces, CtlPlaces, Idle,
          At, NotifyWaiter, LockedExclusively, Freed, Writing, ports, world
  <1> QED
      BY <1>1, <1>2, <1>3, <1>4, <1>5, <1>6, <1>7, <1>8, <1>9, <1>10, <1>11, <1>12, <1>13,
         <1>14, <1>15, <1>16, <1>17, <1>18, <1>19, <1>20, <1>21, <1>22, <1>23, <1>24, <1>25,
         <1>26, <1>27, <1>28, <1>29, <1>30, <1>31, <1>32, <1>33, <1>34, <1>35, <1>36
         DEF PortsNext, InitMultiport, PortsControl, IO

\* A device is in one list and never lost, devs_mtx is held by who changes the
\* lists, and no port is closed under a thread that uses it, for any finite
\* number of devices, breakdowns and restarts (MultiTermiosAgent).
THEOREM PortsAreSafe == PortsSpec => []PortsInv
  <1>1. PortsIInv /\ [PortsNext]_ports_vars => PortsIInv'
    <2>1. PortsIInv /\ UNCHANGED ports_vars => PortsIInv'
      BY DEF PortsIInv, PortsShape, DevsMtxHeld, Accounted, WalksAreCurrent, PushesAPort,
         PortInUseStaysOpen, SharingPorts, ports_vars
    <2> QED BY <2>1, PortsStep
  <1>2. PortsIInv => PortsInv
    <2> SUFFICES ASSUME PortsIInv PROVE PortsTypeOK
      BY AccountedCounts DEF PortsIInv, PortsInv
    <2> QED BY DEF PortsIInv, PortsShape, DevsMtxHeld, Accounted, WalksAreCurrent, IOStates,
               IOPlaces, ThreadPlaces, CtlPlaces, Writing, PortsTypeOK
  <1> QED BY PortsInitInv, <1>1, <1>2, PTL DEF PortsSpec

-----------------------------------------------------------------------------
(* Induction over sets of numbers, and over sequences                      *)

(* A set with zero and every successor has all numbers: a number that it   *)
(* had not would bound a finite set that adding one maps into a part of    *)
(* itself.                                                                 *)
LEMMA SetInduction ==
    ASSUME NEW A \in SUBSET Nat, 0 \in A, \A n \in A : n + 1 \in A
    PROVE  A = Nat
<1> SUFFICES ASSUME NEW k \in Nat, k \notin A PROVE FALSE
  OBVIOUS
<1> DEFINE B == {n \in A : n <= k}
           f == [n \in B |-> n + 1]
<1>1. IsFiniteSet(B)
  <2>1. B \in SUBSET (0 .. k)
    <3> SUFFICES ASSUME NEW n \in B PROVE n \in 0 .. k
      OBVIOUS
    <3>1. n \in Nat /\ n <= k
      OBVIOUS
    <3> QED BY <3>1
  <2>2. IsFiniteSet(0 .. k)
    BY FS_Interval
  <2> QED BY <2>1, <2>2, FS_Subset
<1>2. 0 \in B
  OBVIOUS
<1>3. f \in [B -> B \ {0}]
  <2> SUFFICES ASSUME NEW n \in B PROVE n + 1 \in B \ {0}
    OBVIOUS
  <2>1. n \in Nat /\ n <= k /\ n # k /\ n + 1 \in A
    OBVIOUS
  <2> QED BY <2>1
<1>4. f \in Injection(B, B \ {0})
  <2>1. \A x, y \in B : f[x] = f[y] => x = y
    <3>1. B \subseteq Nat
      OBVIOUS
    <3> QED BY <3>1
  <2> QED BY <1>3, <2>1 DEF Injection, IsInjective
<1> HIDE DEF B, f
<1>5. IsFiniteSet(B \ {0}) /\ Cardinality(B \ {0}) = Cardinality(B) - 1
  BY <1>1, <1>2, FS_RemoveElement
<1>6. Cardinality(B) <= Cardinality(B \ {0})
  BY <1>4, <1>5, FS_Injection
<1>7. Cardinality(B) \in Nat
  BY <1>1, FS_CardinalityType
<1> QED BY <1>5, <1>6, <1>7

(* A step function can be followed from any beginning.                     *)
Follows(g, n, b, step) ==
    /\ DOMAIN g = 0 .. n
    /\ g[0] = b
    /\ \A i \in 1 .. n : g[i] = step[<<i, g[i - 1]>>]

LEMMA StepsCanBeTaken ==
    ASSUME NEW n \in Nat, NEW V, NEW b \in V, NEW step \in [(1 .. n) \X V -> V]
    PROVE  \E g \in [0 .. n -> V] : Follows(g, n, b, step)
<1> DEFINE A == {k \in Nat : k <= n => \E g \in [0 .. k -> V] : Follows(g, k, b, step)}
<1>1. 0 \in A
  <2> DEFINE g == [i \in 0 .. 0 |-> b]
  <2>1. g \in [0 .. 0 -> V] /\ DOMAIN g = 0 .. 0 /\ g[0] = b /\ 1 .. 0 = {}
    OBVIOUS
  <2> HIDE DEF g
  <2>2. Follows(g, 0, b, step)
    BY <2>1 DEF Follows
  <2> QED BY <2>1, <2>2
<1>2. ASSUME NEW k \in A PROVE k + 1 \in A
  <2> SUFFICES ASSUME k + 1 <= n PROVE \E g \in [0 .. k + 1 -> V] : Follows(g, k + 1, b, step)
    OBVIOUS
  <2>0. k \in Nat /\ k <= n
    OBVIOUS
  <2>1. PICK g \in [0 .. k -> V] : Follows(g, k, b, step)
    BY <2>0
  <2> DEFINE c == step[<<k + 1, g[k]>>]
             h == [i \in 0 .. k + 1 |-> IF i = k + 1 THEN c ELSE g[i]]
  <2>2. c \in V
    BY <2>0
  <2> HIDE DEF c
  <2>3. h \in [0 .. k + 1 -> V]
    <3> SUFFICES ASSUME NEW i \in 0 .. k + 1 PROVE (IF i = k + 1 THEN c ELSE g[i]) \in V
      OBVIOUS
    <3>1. i # k + 1 => i \in 0 .. k
      BY <2>0
    <3> QED BY <2>2, <3>1
  <2>4. h[k + 1] = c /\ \A i \in 0 .. k : h[i] = g[i]
    BY <2>0
  <2> HIDE DEF h
  <2>5. h[0] = b
    BY <2>0, <2>1, <2>4 DEF Follows
  <2>6. \A i \in 1 .. k + 1 : h[i] = step[<<i, h[i - 1]>>]
    <3> SUFFICES ASSUME NEW i \in 1 .. k + 1 PROVE h[i] = step[<<i, h[i - 1]>>]
      OBVIOUS
    <3>1. CASE i = k + 1
      <4>1. i - 1 = k /\ k \in 0 .. k
        BY <2>0, <3>1
      <4> QED BY <2>4, <3>1, <4>1 DEF c
    <3>2. CASE i # k + 1
      <4>1. i \in 1 .. k /\ i \in 0 .. k /\ i - 1 \in 0 .. k
        BY <2>0, <3>2
      <4> QED BY <2>1, <2>4, <4>1 DEF Follows
    <3> QED BY <3>1, <3>2
  <2>7. Follows(h, k + 1, b, step)
    BY <2>3, <2>5, <2>6 DEF Follows
  <2> QED BY <2>3, <2>7
<1> HIDE DEF A
<1>3. A = Nat
  <2>1. A \in SUBSET Nat
    BY DEF A
  <2> QED BY <1>1, <1>2, <2>1, SetInduction
<1> QED BY <1>3 DEF A

(* The concatenation of pieces, from each of them on.                      *)
Onwards(pieces) ==
    LET rest[i \in 1 .. Len(pieces) + 1] ==
          IF i = Len(pieces) + 1 THEN << >> ELSE pieces[i] \o rest[i + 1]
    IN  rest

LEMMA OnwardsIs ==
    ASSUME NEW S, NEW pieces \in Seq(Seq(S))
    PROVE  LET r == Onwards(pieces)
           IN  /\ r \in [1 .. Len(pieces) + 1 -> Seq(S)]
               /\ r[Len(pieces) + 1] = << >>
               /\ \A i \in 1 .. Len(pieces) : r[i] = pieces[i] \o r[i + 1]
<1> DEFINE n == Len(pieces)
           V == Seq(S)
           step == [x \in (1 .. n) \X V |-> pieces[n + 1 - x[1]] \o x[2]]
           Ends(r) == [i \in 1 .. n + 1 |-> IF i = n + 1 THEN << >> ELSE pieces[i] \o r[i + 1]]
<1>0. n \in Nat /\ \A i \in 1 .. n : pieces[i] \in V
  OBVIOUS
<1>1. \E r \in [1 .. n + 1 -> V] : r = Ends(r)
  <2>1. step \in [(1 .. n) \X V -> V]
    <3> SUFFICES ASSUME NEW x \in (1 .. n) \X V PROVE pieces[n + 1 - x[1]] \o x[2] \in V
      OBVIOUS
    <3> HIDE DEF n
    <3>1. x[1] \in 1 .. n /\ x[2] \in V
      OBVIOUS
    <3>2. n + 1 - x[1] \in 1 .. n
      BY <1>0, <3>1
    <3> QED BY <1>0, <3>1, <3>2
  <2>2. << >> \in V
    OBVIOUS
  <2>3. \A i \in 1 .. n, v \in V : step[<<i, v>>] = pieces[n + 1 - i] \o v
    OBVIOUS
  <2> HIDE DEF n, V, step
  <2>4. PICK g \in [0 .. n -> V] : Follows(g, n, << >>, step)
    BY <1>0, <2>1, <2>2, StepsCanBeTaken
  <2> DEFINE r == [i \in 1 .. n + 1 |-> g[n + 1 - i]]
  <2>5. \A i \in 1 .. n + 1 : n + 1 - i \in 0 .. n
    BY <1>0
  <2>6. r \in [1 .. n + 1 -> V]
    BY <2>5
  <2>7. r = Ends(r)
    <3> SUFFICES ASSUME NEW i \in 1 .. n + 1
                 PROVE  g[n + 1 - i] = IF i = n + 1 THEN << >> ELSE pieces[i] \o r[i + 1]
      OBVIOUS
    <3>1. CASE i = n + 1
      <4>1. n + 1 - i = 0
        BY <1>0, <3>1
      <4> QED BY <2>4, <3>1, <4>1 DEF Follows
    <3>2. CASE i # n + 1
      <4> DEFINE k == n + 1 - i
      <4>1. k \in 1 .. n /\ k - 1 \in 0 .. n /\ n + 1 - k = i /\ i + 1 \in 1 .. n + 1
            /\ n + 1 - (i + 1) = k - 1
        BY <1>0, <3>2
      <4>2. r[i + 1] = g[k - 1]
        BY <4>1
      <4> HIDE DEF k
      <4>3. g[k] = step[<<k, g[k - 1]>>]
        BY <2>4, <4>1 DEF Follows
      <4>4. g[k - 1] \in V
        BY <2>4, <4>1
      <4>5. g[k] = pieces[i] \o g[k - 1]
        BY <2>3, <4>1, <4>3, <4>4
      <4> QED BY <3>2, <4>2, <4>5 DEF k
    <3> QED BY <3>1, <3>2
  <2> HIDE DEF r
  <2> QED BY <2>6, <2>7
<1> DEFINE q == CHOOSE r : r = Ends(r)
<1>2. q = Ends(q)
  BY <1>1
<1>3. Onwards(pieces) = q
  BY DEF Onwards
<1> HIDE DEF q, n, V
<1>4. /\ DOMAIN q = 1 .. n + 1 /\ q[n + 1] = << >>
      /\ \A i \in 1 .. n : q[i] = pieces[i] \o q[i + 1]
  <2>1. DOMAIN q = 1 .. n + 1
    BY <1>2
  <2>2. \A i \in 1 .. n + 1 : q[i] = IF i = n + 1 THEN << >> ELSE pieces[i] \o q[i + 1]
    BY <1>2
  <2>3. \A i \in 1 .. n : i \in 1 .. n + 1 /\ i # n + 1
    BY <1>0
  <2>4. n + 1 \in 1 .. n + 1
    BY <1>0
  <2> QED BY <2>1, <2>2, <2>3, <2>4
<1>5. \A i \in 1 .. n + 1 : q[i] \in V
  <2> DEFINE A == {k \in Nat : k <= n => q[n + 1 - k] \in V}
  <2>1. 0 \in A
    <3>1. << >> \in V
      BY DEF V
    <3>2. n + 1 - 0 = n + 1
      BY <1>0
    <3> QED BY <1>4, <3>1, <3>2
  <2>2. ASSUME NEW k \in A PROVE k + 1 \in A
    <3> SUFFICES ASSUME k + 1 <= n PROVE q[n + 1 - (k + 1)] \in V
      OBVIOUS
    <3> DEFINE i == n - k
    <3>1. i \in 1 .. n /\ n + 1 - (k + 1) = i /\ n + 1 - k = i + 1 /\ k <= n
      BY <1>0
    <3>2. q[i + 1] \in V
      BY <3>1
    <3>3. q[i] = pieces[i] \o q[i + 1] /\ pieces[i] \in V
      BY <1>0, <1>4, <3>1
    <3> HIDE DEF i
    <3>4. q[i] \in V
      BY <3>2, <3>3 DEF V
    <3> QED BY <3>1, <3>4
  <2> HIDE DEF A
  <2>3. A = Nat
    <3>1. A \in SUBSET Nat
      BY DEF A
    <3> QED BY <2>1, <2>2, <3>1, SetInduction
  <2> SUFFICES ASSUME NEW i \in 1 .. n + 1 PROVE q[i] \in V
    OBVIOUS
  <2>4. n + 1 - i \in Nat /\ n + 1 - i <= n /\ n + 1 - (n + 1 - i) = i
    BY <1>0
  <2> QED BY <2>3, <2>4 DEF A
<1>6. q \in [1 .. n + 1 -> V]
  <2>1. q = [i \in 1 .. n + 1 |-> q[i]]
    BY <1>2
  <2> QED BY <1>5, <2>1
<1> QED BY <1>3, <1>4, <1>6 DEF n, V

(* Flattening is concatenating the first with those from the second on.    *)
LEMMA FlattenIs ==
    ASSUME NEW S, NEW pieces \in Seq(Seq(S))
    PROVE  FlattenSeq(pieces) = Onwards(pieces)[1]
<1> DEFINE n == Len(pieces)
           V == Seq(S)
           r == Onwards(pieces)
           Ends(f) == [i \in 1 .. n |-> IF i = 1 THEN pieces[i] ELSE f[i - 1] \o pieces[i]]
           step == [x \in (1 .. n) \X V |-> x[2] \o pieces[x[1]]]
           q == CHOOSE f : f = Ends(f)
<1>0. n \in Nat /\ \A i \in 1 .. n : pieces[i] \in V
  OBVIOUS
<1>1. /\ r \in [1 .. n + 1 -> V] /\ r[n + 1] = << >>
      /\ \A i \in 1 .. n : r[i] = pieces[i] \o r[i + 1]
  BY OnwardsIs
<1>2. CASE n = 0
  <2>1. FlattenSeq(pieces) = pieces /\ pieces = << >>
    BY <1>2 DEF FlattenSeq
  <2>2. r[1] = << >>
    BY <1>1, <1>2
  <2> QED BY <2>1, <2>2
<1>3. CASE n # 0
  <2>1. FlattenSeq(pieces) = q[n]
    BY <1>3 DEF FlattenSeq
  <2>2. \E f : f = Ends(f)
    <3>1. step \in [(1 .. n) \X V -> V]
      <4> SUFFICES ASSUME NEW x \in (1 .. n) \X V PROVE x[2] \o pieces[x[1]] \in V
        OBVIOUS
      <4> HIDE DEF n
      <4>1. x[1] \in 1 .. n /\ x[2] \in V /\ pieces[x[1]] \in V
        BY <1>0
      <4> QED BY <4>1
    <3>2. << >> \in V
      OBVIOUS
    <3>3. \A i \in 1 .. n, v \in V : step[<<i, v>>] = v \o pieces[i]
      OBVIOUS
    <3> HIDE DEF n, V, step
    <3>4. PICK g \in [0 .. n -> V] : Follows(g, n, << >>, step)
      BY <1>0, <3>1, <3>2, StepsCanBeTaken
    <3> DEFINE f == [i \in 1 .. n |-> g[i]]
    <3>5. f = Ends(f)
      <4> SUFFICES ASSUME NEW i \in 1 .. n
                   PROVE  g[i] = IF i = 1 THEN pieces[i] ELSE f[i - 1] \o pieces[i]
        OBVIOUS
      <4>1. i - 1 \in 0 .. n
        BY <1>0
      <4>2. g[i] = g[i - 1] \o pieces[i]
        BY <1>0, <3>3, <3>4, <4>1 DEF Follows
      <4>3. CASE i = 1
        <5>1. g[i - 1] = << >>
          BY <3>4, <4>3 DEF Follows
        <5>2. << >> \o pieces[i] = pieces[i]
          BY <1>0 DEF V
        <5> QED BY <4>2, <4>3, <5>1, <5>2
      <4>4. CASE i # 1
        <5>1. i - 1 \in 1 .. n
          BY <1>0, <4>4
        <5> QED BY <4>2, <4>4, <5>1
      <4> QED BY <4>3, <4>4
    <3> HIDE DEF f
    <3> QED BY <3>5
  <2>3. q = Ends(q)
    BY <2>2
  <2> HIDE DEF q
  <2>4. \A i \in 1 .. n : q[i] = IF i = 1 THEN pieces[i] ELSE q[i - 1] \o pieces[i]
    BY <2>3
  <2> DEFINE A == {k \in Nat : k + 1 <= n => q[k + 1] \in V /\ q[k + 1] \o r[k + 2] = r[1]}
  <2> HIDE DEF n, V, r
  <2>5. 0 \in A
    <3>1. 1 \in 1 .. n
      BY <1>0, <1>3
    <3>2. q[1] = pieces[1] /\ r[1] = pieces[1] \o r[2]
      <4>1. 1 + 1 = 2
        OBVIOUS
      <4> QED BY <1>1, <2>4, <3>1, <4>1
    <3>3. pieces[1] \in V
      BY <1>0, <3>1
    <3>4. 0 + 1 = 1 /\ 0 + 2 = 2 /\ 0 \in Nat
      OBVIOUS
    <3> QED BY <3>2, <3>3, <3>4
  <2>6. ASSUME NEW k \in A PROVE k + 1 \in A
    <3>0. (k + 1) + 1 = k + 2 /\ (k + 1) + 2 = k + 3 /\ k + 1 \in Nat /\ k \in Nat
      OBVIOUS
    <3> SUFFICES ASSUME k + 2 <= n PROVE q[k + 2] \in V /\ q[k + 2] \o r[k + 3] = r[1]
      BY <3>0
    <3> HIDE DEF A
    <3>1. k + 2 \in 1 .. n /\ k + 2 # 1 /\ k + 2 - 1 = k + 1 /\ k + 2 + 1 = k + 3
          /\ k + 3 \in 1 .. n + 1 /\ k + 1 <= n
      BY <1>0, <3>0
    <3>2. q[k + 2] = q[k + 1] \o pieces[k + 2]
      <4>1. \A i \in 1 .. n : i # 1 => q[i] = q[i - 1] \o pieces[i]
        BY <2>4, Zenon
      <4> DEFINE i == k + 2
      <4>2. i \in 1 .. n /\ i # 1 /\ i - 1 = k + 1
        <5>1. k \in Nat /\ k + 2 <= n
          BY <3>0
        <5> QED BY <1>0, <5>1
      <4> HIDE DEF i
      <4>3. q[i] = q[k + 1] \o pieces[i]
        BY <4>1, <4>2
      <4> QED BY <4>3 DEF i
    <3>3. r[k + 2] = pieces[k + 2] \o r[k + 3]
      BY <1>1, <3>1
    <3>4. q[k + 1] \in V /\ q[k + 1] \o r[k + 2] = r[1]
      BY <3>1 DEF A
    <3>5. pieces[k + 2] \in V /\ r[k + 3] \in V
      BY <1>0, <1>1, <3>1
    <3>6. (q[k + 1] \o pieces[k + 2]) \o r[k + 3] = q[k + 1] \o (pieces[k + 2] \o r[k + 3])
      <4>1. q[k + 1] \in Seq(S) /\ pieces[k + 2] \in Seq(S) /\ r[k + 3] \in Seq(S)
        BY <3>4, <3>5 DEF V
      <4> DEFINE a == q[k + 1]
                 b == pieces[k + 2]
                 c == r[k + 3]
      <4>2. a \in Seq(S) /\ b \in Seq(S) /\ c \in Seq(S)
        BY <4>1
      <4> HIDE DEF a, b, c
      <4>3. (a \o b) \o c = a \o (b \o c)
        BY <4>2, ConcatAssociative
      <4> QED BY <4>3 DEF a, b, c
    <3>7. q[k + 1] \o pieces[k + 2] \in V
      BY <3>4, <3>5 DEF V
    <3> QED BY <3>2, <3>3, <3>4, <3>6, <3>7
  <2> HIDE DEF A
  <2>7. A = Nat
    <3>1. A \in SUBSET Nat
      BY DEF A
    <3> QED BY <2>5, <2>6, <3>1, SetInduction
  <2>8. q[n] \in V /\ q[n] \o r[n + 1] = r[1]
    <3>1. n - 1 \in A /\ n - 1 + 1 = n /\ n - 1 + 2 = n + 1
      <4>1. n - 1 \in Nat /\ n - 1 + 1 = n /\ n - 1 + 2 = n + 1
        BY <1>0, <1>3
      <4> QED BY <2>7, <4>1
    <3>2. n <= n
      BY <1>0
    <3> QED BY <3>1, <3>2 DEF A
  <2>9. q[n] \o << >> = q[n]
    BY <2>8 DEF V
  <2>10. q[n] = r[1]
    BY <1>1, <2>8, <2>9
  <2> QED BY <2>1, <2>10 DEF r
<1> QED BY <1>2, <1>3

-----------------------------------------------------------------------------
(* The octets of a frame                                                   *)

Crcs == {c \in Nat : c < 65536}

LEMMA IntervalIs == \A n \in Nat : 0 .. n = {i \in Nat : i <= n}
  OBVIOUS

LEMMA OctetsIs == Octets = {o \in Nat : o < 256}
<1>0. 255 \in Nat
  OBVIOUS
<1>1. 0 .. 255 = {o \in Nat : o <= 255}
  BY <1>0, IntervalIs, Zenon
<1>2. {o \in Nat : o <= 255} = {o \in Nat : o < 256}
  OBVIOUS
<1> QED BY <1>1, <1>2, Zenon DEF Octets

LEMMA XorIs ==
    ASSUME NEW a \in Nat, NEW b \in Nat
    PROVE  Xor(a, b) \in Crcs
<1>1. ASSUME NEW x \in Nat, NEW y \in Nat
      PROVE  XorNibble(x, y) \in Nat /\ XorNibble(x, y) < 16
  <2> DEFINE p == (x + y) % 2
             q == (x \div 2 + y \div 2) % 2
             r == (x \div 4 + y \div 4) % 2
             s == (x \div 8 + y \div 8) % 2
  <2>2. p \in 0 .. 1 /\ q \in 0 .. 1 /\ r \in 0 .. 1 /\ s \in 0 .. 1
    OBVIOUS
  <2>3. XorNibble(x, y) = p + 2 * q + 4 * r + 8 * s
    BY DEF XorNibble
  <2> HIDE DEF p, q, r, s
  <2> QED BY <2>2, <2>3
<1>2. ASSUME NEW x \in Nat
      PROVE  Nibble(x, 1) \in Nat /\ Nibble(x, 16) \in Nat /\ Nibble(x, 256) \in Nat /\ Nibble(x, 4096) \in Nat
  BY DEF Nibble
<1> DEFINE p == XorNibble(Nibble(a, 1), Nibble(b, 1))
           q == XorNibble(Nibble(a, 16), Nibble(b, 16))
           r == XorNibble(Nibble(a, 256), Nibble(b, 256))
           s == XorNibble(Nibble(a, 4096), Nibble(b, 4096))
<1>3. p \in Nat /\ p < 16 /\ q \in Nat /\ q < 16 /\ r \in Nat /\ r < 16 /\ s \in Nat /\ s < 16
  BY <1>1, <1>2
<1>4. Xor(a, b) = p + 16 * q + 256 * r + 4096 * s
  BY DEF Xor
<1> HIDE DEF p, q, r, s
<1> QED BY <1>3, <1>4 DEF Crcs

(* The octets that stand for the two flags, and back.                      *)
LEMMA XorOfFlags ==
    /\ Xor(Begin, XorFlag) = 94 /\ Xor(Esc, XorFlag) = 93
    /\ Xor(94, XorFlag) = Begin /\ Xor(93, XorFlag) = Esc
<1> USE DEF Xor, XorNibble, Nibble, Begin, Esc, XorFlag
<1>1. Xor(Begin, XorFlag) = 94
  OBVIOUS
<1>2. Xor(Esc, XorFlag) = 93
  OBVIOUS
<1>3. Xor(94, XorFlag) = Begin
  OBVIOUS
<1>4. Xor(93, XorFlag) = Esc
  OBVIOUS
<1> QED BY <1>1, <1>2, <1>3, <1>4

LEMMA update_crcIs ==
    ASSUME NEW crc \in Crcs, NEW octet \in Octets
    PROVE  update_crc(crc, octet) \in Crcs
<1>1. \A c \in Crcs : Shift(c) \in Crcs
  <2> SUFFICES ASSUME NEW c \in Crcs PROVE Shift(c) \in Crcs
    OBVIOUS
  <2>1. c \div 2 \in Nat /\ c \div 2 \in Crcs
    BY DEF Crcs
  <2>2. Xor(c \div 2, 40961) \in Crcs
    <3>1. 40961 \in Nat
      OBVIOUS
    <3> QED BY <2>1, <3>1, XorIs
  <2> QED BY <2>1, <2>2 DEF Shift
<1>2. \A i \in Octets : crc16_table[i] \in Crcs
  <2> SUFFICES ASSUME NEW i \in Octets PROVE crc16_table[i] \in Crcs
    OBVIOUS
  <2>1. i \in Crcs
    BY OctetsIs DEF Crcs
  <2>2. crc16_table[i] = Shift(Shift(Shift(Shift(Shift(Shift(Shift(Shift(i))))))))
    BY DEF crc16_table
  <2> QED BY <1>1, <2>1, <2>2
<1>3. Xor(crc, octet) \in Nat
  <2>1. crc \in Nat /\ octet \in Nat
    BY OctetsIs DEF Crcs
  <2>2. Xor(crc, octet) \in Crcs
    BY <2>1, XorIs
  <2> QED BY <2>2 DEF Crcs
<1>4. Xor(crc, octet) % 256 \in Octets
  <2> DEFINE x == Xor(crc, octet)
  <2>1. x \in Nat
    BY <1>3
  <2> HIDE DEF x
  <2>2. x % 256 \in Nat /\ x % 256 < 256
    BY <2>1
  <2>3. x % 256 \in Octets
    BY <2>2, OctetsIs
  <2> QED BY <2>3 DEF x
<1>5. crc16_table[Xor(crc, octet) % 256] \in Nat /\ crc \div 256 \in Nat
  <2>1. crc16_table[Xor(crc, octet) % 256] \in Crcs
    BY <1>2, <1>4
  <2> QED BY <2>1 DEF Crcs
<1>6. Xor(crc \div 256, crc16_table[Xor(crc, octet) % 256]) \in Crcs
  BY <1>5, XorIs
<1> QED BY <1>6 DEF update_crc

(* The CRC of the beginnings of a message grows by an octet at a time.     *)
LEMMA CrcUptoIs ==
    ASSUME NEW m \in Seq(Octets)
    PROVE  /\ CrcUpto(m) \in [0 .. Len(m) -> Crcs]
           /\ CrcUpto(m)[0] = 0
           /\ \A n \in 1 .. Len(m) : CrcUpto(m)[n] = update_crc(CrcUpto(m)[n - 1], m[n])
<1> DEFINE l == Len(m)
           Is(f) == [n \in 0 .. l |-> IF n = 0 THEN 0 ELSE update_crc(f[n - 1], m[n])]
           step == [x \in (1 .. l) \X Crcs |-> update_crc(x[2], m[x[1]])]
           q == CHOOSE f : f = Is(f)
<1>0. l \in Nat /\ \A n \in 1 .. l : m[n] \in Octets
  OBVIOUS
<1>1. step \in [(1 .. l) \X Crcs -> Crcs]
  <2> SUFFICES ASSUME NEW x \in (1 .. l) \X Crcs PROVE update_crc(x[2], m[x[1]]) \in Crcs
    OBVIOUS
  <2>1. x[1] \in 1 .. l /\ x[2] \in Crcs
    OBVIOUS
  <2> QED BY <1>0, <2>1, update_crcIs
<1>2. \A n \in 1 .. l, c \in Crcs : step[<<n, c>>] = update_crc(c, m[n])
  OBVIOUS
<1>3. 0 \in Crcs
  BY DEF Crcs
<1> HIDE DEF l, step
<1>4. PICK g \in [0 .. l -> Crcs] : Follows(g, l, 0, step)
  BY <1>0, <1>1, <1>3, StepsCanBeTaken
<1>5. g = Is(g)
  <2>1. \A n \in 0 .. l : g[n] = IF n = 0 THEN 0 ELSE update_crc(g[n - 1], m[n])
    <3> SUFFICES ASSUME NEW n \in 0 .. l, n # 0 PROVE g[n] = update_crc(g[n - 1], m[n])
      BY <1>4 DEF Follows
    <3>1. n \in 1 .. l /\ n - 1 \in 0 .. l
      BY <1>0
    <3>2. g[n - 1] \in Crcs
      BY <1>4, <3>1
    <3>3. g[n] = step[<<n, g[n - 1]>>]
      BY <1>4, <3>1 DEF Follows
    <3> QED BY <1>2, <3>1, <3>2, <3>3
  <2> QED BY <1>4, <2>1
<1>6. q = Is(q)
  BY <1>5
<1>7. CrcUpto(m) = q
  BY DEF CrcUpto, l
<1> HIDE DEF q
<1>8. DOMAIN q = 0 .. l /\ q[0] = 0 /\ \A n \in 1 .. l : q[n] = update_crc(q[n - 1], m[n])
  <2>1. DOMAIN q = 0 .. l
    BY <1>6
  <2>2. \A n \in 0 .. l : q[n] = IF n = 0 THEN 0 ELSE update_crc(q[n - 1], m[n])
    BY <1>6
  <2>3. 0 \in 0 .. l /\ \A n \in 1 .. l : n \in 0 .. l /\ n # 0
    BY <1>0
  <2> QED BY <2>1, <2>2, <2>3
<1> DEFINE A == {n \in Nat : n <= l => q[n] \in Crcs}
<1>9. 0 \in A
  BY <1>3, <1>8
<1>10. ASSUME NEW n \in A PROVE n + 1 \in A
  <2> SUFFICES ASSUME n + 1 <= l PROVE q[n + 1] \in Crcs
    OBVIOUS
  <2>1. n \in Nat /\ n <= l /\ n + 1 \in 1 .. l /\ n + 1 - 1 = n
    BY <1>0
  <2>2. q[n] \in Crcs
    BY <2>1
  <2> DEFINE k == n + 1
  <2>3. k \in 1 .. l /\ k - 1 = n
    BY <1>0, <2>1
  <2> HIDE DEF k
  <2>4. q[k] = update_crc(q[n], m[k]) /\ m[k] \in Octets
    BY <1>0, <1>8, <2>3
  <2>5. q[k] \in Crcs
    BY <2>2, <2>4, update_crcIs
  <2> QED BY <2>5 DEF k
<1> HIDE DEF A
<1>11. A = Nat
  <2>1. A \in SUBSET Nat
    BY DEF A
  <2> QED BY <1>9, <1>10, <2>1, SetInduction
<1>12. \A n \in 0 .. l : q[n] \in Crcs
  <2> SUFFICES ASSUME NEW n \in 0 .. l PROVE q[n] \in Crcs
    OBVIOUS
  <2>1. n \in Nat /\ n <= l
    BY <1>0
  <2> QED BY <1>11, <2>1 DEF A
<1>13. q \in [0 .. l -> Crcs]
  <2>1. q = [n \in 0 .. l |-> q[n]]
    BY <1>6
  <2> QED BY <1>12, <2>1
<1> QED BY <1>7, <1>8, <1>13 DEF l

\* Concatenation, as a symbol of which only what is stated here is used.
Cat(s, t) == s \o t

LEMMA CatIs ==
    \A S : \A s, t \in Seq(S) :
        Cat(s, t) \in Seq(S) /\ Len(Cat(s, t)) = Len(s) + Len(t)
BY DEF Cat

LEMMA CatEmpty == \A S : \A s \in Seq(S) : Cat(s, << >>) = s /\ Cat(<< >>, s) = s
BY DEF Cat

LEMMA CatAssociative ==
    \A S : \A s, t, u \in Seq(S) : Cat(Cat(s, t), u) = Cat(s, Cat(t, u))
BY ConcatAssociative DEF Cat

Joins(u, s, t) ==
    /\ Len(u) = Len(s) + Len(t)
    /\ \A i \in 1 .. Len(s) : u[i] = s[i]
    /\ \A i \in 1 .. Len(t) : u[Len(s) + i] = t[i]

LEMMA CatElements ==
    \A S : \A s, t \in Seq(S) : Joins(Cat(s, t), s, t)
<1> SUFFICES ASSUME NEW S, NEW s \in Seq(S), NEW t \in Seq(S) PROVE Joins(Cat(s, t), s, t)
  OBVIOUS
<1>1. /\ Cat(s, t) \in Seq(S) /\ Len(Cat(s, t)) = Len(s) + Len(t)
      /\ \A i \in 1 .. Len(s) + Len(t) :
            (Cat(s, t))[i] = IF i <= Len(s) THEN s[i] ELSE t[i - Len(s)]
  BY ConcatProperties DEF Cat
<1> DEFINE n == Len(s)
           k == Len(t)
           u == Cat(s, t)
<1>2. n \in Nat /\ k \in Nat /\ \A i \in 1 .. n + k : u[i] = IF i <= n THEN s[i] ELSE t[i - n]
  BY <1>1
<1> HIDE DEF n, k, u
<1>3. \A i \in 1 .. n : u[i] = s[i]
  BY <1>2
<1>4. \A i \in 1 .. k : u[n + i] = t[i]
  <2> SUFFICES ASSUME NEW i \in 1 .. k PROVE u[n + i] = t[i]
    OBVIOUS
  <2>1. n + i \in 1 .. n + k /\ ~(n + i <= n) /\ n + i - n = i
    BY <1>2
  <2> QED BY <1>2, <2>1
<1> QED BY <1>1, <1>3, <1>4 DEF n, k, u, Joins


(* A body is octets: address, length, payload and CRC.                     *)
LEMMA BodyIs ==
    ASSUME NEW from \in Octets, NEW to \in Octets, NEW m \in Seq(Octets)
    PROVE  /\ Body(from, to, m) \in Seq(Octets)
           /\ Len(Body(from, to, m)) = Len(m) + 6
           /\ Body(from, to, m)[1] = from /\ Body(from, to, m)[2] = to
           /\ Body(from, to, m)[3] = Low(Len(m)) /\ Body(from, to, m)[4] = High(Len(m))
           /\ \A i \in 1 .. Len(m) : Body(from, to, m)[i + 4] = m[i]
           /\ Body(from, to, m)[Len(m) + 5] = Low(Crc(m))
           /\ Body(from, to, m)[Len(m) + 6] = High(Crc(m))
           /\ Crc(m) \in Crcs
<1> DEFINE l == Len(m)
           h == <<from, to, Low(l), High(l)>>
           c == <<Low(Crc(m)), High(Crc(m))>>
<1>1. \A n \in Nat : Low(n) \in Octets /\ High(n) \in Octets
  <2> SUFFICES ASSUME NEW n \in Nat PROVE Low(n) \in Octets /\ High(n) \in Octets
    OBVIOUS
  <2>1. \A k \in Nat : k % 256 \in Nat /\ k % 256 < 256
    OBVIOUS
  <2>2. n \div 256 \in Nat
    OBVIOUS
  <2> QED BY <2>1, <2>2, OctetsIs DEF Low, High
<1>2. Crc(m) \in Crcs
  <2>1. l \in 0 .. l
    OBVIOUS
  <2> QED BY <2>1, CrcUptoIs DEF Crc
<1>3. Crc(m) \in Nat /\ l \in Nat
  BY <1>2 DEF Crcs
<1>4. h \in Seq(Octets) /\ Len(h) = 4 /\ h[1] = from /\ h[2] = to /\ h[3] = Low(l) /\ h[4] = High(l)
  BY <1>1, <1>3
<1>5. c \in Seq(Octets) /\ Len(c) = 2 /\ c[1] = Low(Crc(m)) /\ c[2] = High(Crc(m))
  BY <1>1, <1>3
<1>6. Body(from, to, m) = (h \o m) \o c
  BY DEF Body
<1> HIDE DEF h, c
<1> DEFINE d == Cat(h, m)
<1>7. /\ d \in Seq(Octets) /\ Len(d) = 4 + l
      /\ \A i \in 1 .. 4 : d[i] = h[i]
      /\ \A i \in 1 .. l : d[4 + i] = m[i]
  <2>1. h \in Seq(Octets)
    BY <1>4
  <2>2. /\ d \in Seq(Octets) /\ Len(d) = Len(h) + Len(m)
        /\ \A i \in 1 .. Len(h) : d[i] = h[i]
        /\ \A i \in 1 .. Len(m) : d[Len(h) + i] = m[i]
    <3>1. d \in Seq(Octets)
      BY <2>1, CatIs
    <3>2. Joins(d, h, m)
      BY <2>1, CatElements
    <3> QED BY <3>1, <3>2, Zenon DEF Joins
  <2> HIDE DEF d
  <2> QED BY <1>4, <2>2, Zenon
<1> HIDE DEF d, l
<1>8. /\ Len(d) = l + 4
      /\ \A i \in 1 .. l : d[i + 4] = m[i]
  <2>1. \A i \in 1 .. l : 4 + i = i + 4
    BY <1>3
  <2> QED BY <1>3, <1>7, <2>1
<1>9. /\ Cat(d, c) \in Seq(Octets) /\ Len(Cat(d, c)) = l + 6
      /\ \A i \in 1 .. l + 4 : Cat(d, c)[i] = d[i]
      /\ Cat(d, c)[l + 5] = c[1] /\ Cat(d, c)[l + 6] = c[2]
  <2>1. /\ Cat(d, c) \in Seq(Octets) /\ Len(Cat(d, c)) = Len(d) + Len(c)
        /\ \A i \in 1 .. Len(d) : Cat(d, c)[i] = d[i]
        /\ \A i \in 1 .. Len(c) : Cat(d, c)[Len(d) + i] = c[i]
    <3>1. d \in Seq(Octets) /\ c \in Seq(Octets)
      BY <1>5, <1>7
    <3>2. Cat(d, c) \in Seq(Octets)
      BY <3>1, CatIs
    <3>3. Joins(Cat(d, c), d, c)
      BY <3>1, CatElements
    <3> QED BY <3>2, <3>3, Zenon DEF Joins
  <2>2. Cat(d, c)[Len(d) + 1] = c[1] /\ Cat(d, c)[Len(d) + 2] = c[2]
    <3>1. 1 \in 1 .. Len(c) /\ 2 \in 1 .. Len(c)
      BY <1>5
    <3> QED BY <2>1, <3>1
  <2>3. l + 4 + 1 = l + 5 /\ l + 4 + 2 = l + 6
    BY <1>3
  <2> QED BY <1>5, <1>8, <2>1, <2>2, <2>3
<1>10. Body(from, to, m) = Cat(d, c)
  BY <1>6 DEF d, Cat
<1>11. /\ \A i \in 1 .. 4 : i \in 1 .. l + 4
       /\ \A i \in 1 .. l : i + 4 \in 1 .. l + 4
       /\ 1 \in 1 .. 4 /\ 2 \in 1 .. 4 /\ 3 \in 1 .. 4 /\ 4 \in 1 .. 4
  BY <1>3
<1>13. \A i \in 1 .. 4 : Cat(d, c)[i] = h[i]
  BY <1>7, <1>9, <1>11
<1>14. \A i \in 1 .. l : Cat(d, c)[i + 4] = m[i]
  BY <1>8, <1>9, <1>11
<1> QED BY <1>2, <1>4, <1>5, <1>9, <1>10, <1>11, <1>13, <1>14 DEF l

(* What an octet becomes: itself, or the escape and the octet that stands  *)
(* for a flag.                                                             *)
LEMMA EscapeOctetIs ==
    ASSUME NEW o \in Octets
    PROVE  /\ EscapeOctet(o) \in Seq(Octets)
           /\ Len(EscapeOctet(o)) \in 1 .. 2
<1>1. 94 \in Octets /\ 93 \in Octets /\ Esc \in Octets
  BY OctetsIs DEF Esc
<1> QED BY <1>1, XorOfFlags DEF EscapeOctet

\* The escaped octets from each of them on.
EscapedFrom(octets) == Onwards([i \in DOMAIN octets |-> EscapeOctet(octets[i])])

LEMMA EscapedFromIs ==
    ASSUME NEW b \in Seq(Octets)
    PROVE  /\ EscapedFrom(b) \in [1 .. Len(b) + 1 -> Seq(Octets)]
           /\ EscapedFrom(b)[Len(b) + 1] = << >>
           /\ \A i \in 1 .. Len(b) :
                 EscapedFrom(b)[i] = Cat(EscapeOctet(b[i]), EscapedFrom(b)[i + 1])
           /\ Escape(b) = EscapedFrom(b)[1]
<1> DEFINE p == [i \in DOMAIN b |-> EscapeOctet(b[i])]
<1>1. p \in Seq(Seq(Octets)) /\ Len(p) = Len(b) /\ \A i \in 1 .. Len(b) : p[i] = EscapeOctet(b[i])
  <2>1. \A i \in 1 .. Len(b) : EscapeOctet(b[i]) \in Seq(Octets)
    BY EscapeOctetIs
  <2>2. DOMAIN b = 1 .. Len(b) /\ Len(b) \in Nat
    OBVIOUS
  <2> QED BY <2>1, <2>2
<1>2. EscapedFrom(b) = Onwards(p) /\ Escape(b) = FlattenSeq(p)
  BY DEF EscapedFrom, Escape
<1> HIDE DEF p
<1>3. Escape(b) = Onwards(p)[1]
  BY <1>1, <1>2, FlattenIs
<1>4. /\ Onwards(p) \in [1 .. Len(p) + 1 -> Seq(Octets)]
      /\ Onwards(p)[Len(p) + 1] = << >>
      /\ \A i \in 1 .. Len(p) : Onwards(p)[i] = Cat(p[i], Onwards(p)[i + 1])
  BY <1>1, OnwardsIs DEF Cat
<1>5. \A i \in 1 .. Len(b) : EscapedFrom(b)[i] = Cat(EscapeOctet(b[i]), EscapedFrom(b)[i + 1])
  BY <1>1, <1>2, <1>4
<1> QED BY <1>1, <1>2, <1>3, <1>4, <1>5

LEMMA FourAndMore ==
    ASSUME NEW S, NEW a \in Seq(S), NEW b \in Seq(S), NEW c \in Seq(S), NEW d \in Seq(S),
           NEW e \in Seq(S)
    PROVE  /\ Cat(a, Cat(b, Cat(c, d))) \in Seq(S)
           /\ Len(Cat(a, Cat(b, Cat(c, d)))) = Len(a) + (Len(b) + (Len(c) + Len(d)))
           /\ Cat(Cat(a, Cat(b, Cat(c, d))), e) = Cat(a, Cat(b, Cat(c, Cat(d, e))))
<1> DEFINE x == Cat(c, d)
           y == Cat(b, x)
           z == Cat(a, y)
<1>1. x \in Seq(S) /\ y \in Seq(S) /\ z \in Seq(S)
  BY CatIs
<1>2. Len(x) = Len(c) + Len(d) /\ Len(y) = Len(b) + Len(x) /\ Len(z) = Len(a) + Len(y)
  BY <1>1, CatIs
<1>3. Cat(x, e) = Cat(c, Cat(d, e)) /\ Cat(y, e) = Cat(b, Cat(x, e)) /\ Cat(z, e) = Cat(a, Cat(y, e))
  BY <1>1, CatAssociative
<1> QED BY <1>1, <1>2, <1>3

(* The header, escaped, is the beginning of the escaped body, and no more  *)
(* than eight octets.                                                      *)
LEMMA HeaderEscaped ==
    ASSUME NEW b \in Seq(Octets), Len(b) >= 4
    PROVE  /\ Escape(SubSeq(b, 1, 4)) \in Seq(Octets)
           /\ Len(Escape(SubSeq(b, 1, 4))) \in 0 .. 8
           /\ Cat(Escape(SubSeq(b, 1, 4)), EscapedFrom(b)[5]) = EscapedFrom(b)[1]
<1> DEFINE h == SubSeq(b, 1, 4)
           r == EscapedFrom(b)
           e == EscapedFrom(h)
<1>0. h \in Seq(Octets) /\ Len(h) = 4 /\ \A i \in 1 .. 4 : h[i] = b[i] /\ b[i] \in Octets
  <2>1. Len(b) \in Nat /\ 1 .. 4 \subseteq 1 .. Len(b)
    OBVIOUS
  <2>2. \A i \in 1 .. 4 : b[i] \in Octets
    BY <2>1
  <2>3. h \in Seq(Octets) /\ Len(h) = 4 /\ \A i \in 1 .. 4 : h[i] = b[i]
    BY <2>2
  <2> QED BY <2>2, <2>3
<1> HIDE DEF h
<1>1. /\ e[5] = << >> /\ \A i \in 1 .. 4 : e[i] = Cat(EscapeOctet(h[i]), e[i + 1])
      /\ Escape(h) = e[1]
  <2>1. Len(h) + 1 = 5
    BY <1>0
  <2> QED BY <1>0, <2>1, EscapedFromIs
<1>2. /\ \A i \in 1 .. 4 : r[i] = Cat(EscapeOctet(b[i]), r[i + 1])
      /\ r[5] \in Seq(Octets)
  <2>1. 1 .. 4 \subseteq 1 .. Len(b) /\ 5 \in 1 .. Len(b) + 1
    OBVIOUS
  <2> QED BY <2>1, EscapedFromIs
<1> HIDE DEF e, r
<1> DEFINE p1 == EscapeOctet(b[1])
           p2 == EscapeOctet(b[2])
           p3 == EscapeOctet(b[3])
           p4 == EscapeOctet(b[4])
           p5 == r[5]
<1>3. /\ p1 \in Seq(Octets) /\ Len(p1) \in 1 .. 2 /\ p2 \in Seq(Octets) /\ Len(p2) \in 1 .. 2
      /\ p3 \in Seq(Octets) /\ Len(p3) \in 1 .. 2 /\ p4 \in Seq(Octets) /\ Len(p4) \in 1 .. 2
  <2>1. b[1] \in Octets /\ b[2] \in Octets /\ b[3] \in Octets /\ b[4] \in Octets
    BY <1>0
  <2> HIDE DEF p1, p2, p3, p4
  <2>2. p1 \in Seq(Octets) /\ Len(p1) \in 1 .. 2
    BY <2>1, EscapeOctetIs DEF p1
  <2>3. p2 \in Seq(Octets) /\ Len(p2) \in 1 .. 2
    BY <2>1, EscapeOctetIs DEF p2
  <2>4. p3 \in Seq(Octets) /\ Len(p3) \in 1 .. 2
    BY <2>1, EscapeOctetIs DEF p3
  <2>5. p4 \in Seq(Octets) /\ Len(p4) \in 1 .. 2
    BY <2>1, EscapeOctetIs DEF p4
  <2> QED BY <2>2, <2>3, <2>4, <2>5
<1>10. 1 + 1 = 2 /\ 2 + 1 = 3 /\ 3 + 1 = 4 /\ 4 + 1 = 5
  OBVIOUS
<1>4. e[1] = Cat(p1, Cat(p2, Cat(p3, Cat(p4, << >>))))
  <2>1. e[1] = Cat(p1, e[2])
    BY <1>0, <1>10, <1>1
  <2>2. e[2] = Cat(p2, e[3])
    BY <1>0, <1>10, <1>1
  <2>3. e[3] = Cat(p3, e[4])
    BY <1>0, <1>10, <1>1
  <2>4. e[4] = Cat(p4, e[5])
    BY <1>0, <1>10, <1>1
  <2> QED BY <1>1, <2>1, <2>2, <2>3, <2>4
<1>5. r[1] = Cat(p1, Cat(p2, Cat(p3, Cat(p4, p5))))
  <2>1. r[1] = Cat(p1, r[2])
    BY <1>10, <1>2
  <2>2. r[2] = Cat(p2, r[3])
    BY <1>10, <1>2
  <2>3. r[3] = Cat(p3, r[4])
    BY <1>10, <1>2
  <2>4. r[4] = Cat(p4, r[5])
    BY <1>10, <1>2
  <2> QED BY <2>1, <2>2, <2>3, <2>4
<1>6. p5 \in Seq(Octets)
  BY <1>2
<1> HIDE DEF p1, p2, p3, p4, p5
<1>7. Cat(p4, << >>) = p4
  BY <1>3, CatEmpty
<1>8. /\ Cat(p1, Cat(p2, Cat(p3, p4))) \in Seq(Octets)
      /\ Len(Cat(p1, Cat(p2, Cat(p3, p4)))) = Len(p1) + (Len(p2) + (Len(p3) + Len(p4)))
      /\ Cat(Cat(p1, Cat(p2, Cat(p3, p4))), p5) = Cat(p1, Cat(p2, Cat(p3, Cat(p4, p5))))
  BY <1>3, <1>6, FourAndMore
<1>9. Len(p1) + (Len(p2) + (Len(p3) + Len(p4))) \in 0 .. 8
  <2> DEFINE n1 == Len(p1)
             n2 == Len(p2)
             n3 == Len(p3)
             n4 == Len(p4)
  <2>1. n1 \in 1 .. 2 /\ n2 \in 1 .. 2 /\ n3 \in 1 .. 2 /\ n4 \in 1 .. 2
    BY <1>3
  <2> HIDE DEF n1, n2, n3, n4
  <2>2. n1 + (n2 + (n3 + n4)) \in 0 .. 8
    BY <2>1
  <2> QED BY <2>2 DEF n1, n2, n3, n4
<1> QED BY <1>1, <1>4, <1>5, <1>7, <1>8, <1>9 DEF p5, h, r

-----------------------------------------------------------------------------
(* write_framed_msg                                                        *)

\* The escaped octets of the frame of a message, from each octet of its body on.
Remaining(m) == EscapedFrom(Body(Local, Remote, m))

LEMMA FrameIs ==
    ASSUME NEW m \in Messages
    PROVE  /\ m \in Seq(Octets) /\ m # << >> /\ Len(m) \in Nat
           /\ Body(Local, Remote, m) \in Seq(Octets)
           /\ Len(Body(Local, Remote, m)) = Len(m) + 6
           /\ \A i \in 1 .. Len(m) + 7 : Remaining(m)[i] \in Seq(Octets)
           /\ Remaining(m)[Len(m) + 7] = << >>
           /\ \A i \in 1 .. Len(m) + 6 :
                 Remaining(m)[i] = Cat(EscapeOctet(Body(Local, Remote, m)[i]), Remaining(m)[i + 1])
           /\ Frame(Local, Remote, m) = Cat(<<Begin>>, Remaining(m)[1])
           /\ Frame(Local, Remote, m) \in Seq(Octets)
<1> DEFINE b == Body(Local, Remote, m)
           r == Remaining(m)
<1>0. m \in Seq(Octets) /\ m # << >> /\ Len(m) \in Nat
  BY MessagesAssumption
<1>1. b \in Seq(Octets) /\ Len(b) = Len(m) + 6
  <2>1. Local \in Octets /\ Remote \in Octets
    BY OctetsIs DEF Local, Remote
  <2> QED BY <1>0, <2>1, BodyIs
<1>2. Frame(Local, Remote, m) = Cat(<<Begin>>, Escape(b))
  BY DEF Frame, Cat
<1>3. r = EscapedFrom(b)
  BY DEF Remaining
<1> HIDE DEF b, r
<1>4. /\ r \in [1 .. Len(b) + 1 -> Seq(Octets)] /\ r[Len(b) + 1] = << >>
      /\ \A i \in 1 .. Len(b) : r[i] = Cat(EscapeOctet(b[i]), r[i + 1])
      /\ Escape(b) = r[1]
  BY <1>1, <1>3, EscapedFromIs
<1>5. Len(b) + 1 = Len(m) + 7
  BY <1>0, <1>1
<1>6. \A i \in 1 .. Len(m) + 7 : r[i] \in Seq(Octets)
  BY <1>4, <1>5
<1>7. Cat(<<Begin>>, r[1]) \in Seq(Octets)
  <2>1. <<Begin>> \in Seq(Octets)
    <3>1. Begin \in Octets
      BY OctetsIs DEF Begin
    <3> QED BY <3>1
  <2>2. r[1] \in Seq(Octets)
    BY <1>0, <1>6
  <2> QED BY <2>1, <2>2, CatIs
<1>8. \A i \in 1 .. Len(m) + 6 : r[i] = Cat(EscapeOctet(b[i]), r[i + 1])
  BY <1>1, <1>4
<1> QED BY <1>0, <1>1, <1>2, <1>4, <1>5, <1>6, <1>7, <1>8 DEF b, r

\* The first n octets of the body have been added: those that are to come make
\* up the frame with what is in the buffer (b) and on the line (o); as long as
\* no write took a part, in this order.
Covers(m, n, o, b, t, w, k) ==
    /\ t = SubSeq(Body(Local, Remote, m), n + 1, Len(m) + 6)
    /\ Len(o) + Len(b) + Len(Remaining(m)[n + 1]) =
          Len(Frame(Local, Remote, m)) + w
    /\ k = 0 => Cat(Cat(o, b), Remaining(m)[n + 1]) = Frame(Local, Remote, m)

LEMMA HeaderCovers ==
    ASSUME NEW m \in Messages, NEW b, b = <<Begin>> \o Escape(SubSeq(Body(Local, Remote, m), 1, 4)),
           NEW t, t = SubSeq(Body(Local, Remote, m), 5, Len(m) + 6)
    PROVE  /\ b \in Seq(Octets) /\ Len(b) \in 0 .. 9
           /\ Covers(m, 4, << >>, b, t, 0, 0)
<1> DEFINE y == Body(Local, Remote, m)
           h == Escape(SubSeq(y, 1, 4))
           r == Remaining(m)
           f == Frame(Local, Remote, m)
           g == <<Begin>>
<1>1. y \in Seq(Octets) /\ Len(y) >= 4
  BY FrameIs
<1>2. r[1] \in Seq(Octets) /\ r[5] \in Seq(Octets)
  <2>1. Len(m) \in Nat /\ 1 \in 1 .. Len(m) + 7 /\ 5 \in 1 .. Len(m) + 7
    BY FrameIs
  <2> QED BY <2>1, FrameIs
<1>3. h \in Seq(Octets) /\ Len(h) \in 0 .. 8 /\ Cat(h, r[5]) = r[1]
  <2>1. r = EscapedFrom(y)
    BY DEF Remaining
  <2> HIDE DEF y, r
  <2> QED BY <1>1, <2>1, HeaderEscaped
<1>4. g \in Seq(Octets) /\ Len(g) = 1
  <2>1. Begin \in Octets
    BY OctetsIs DEF Begin
  <2> QED BY <2>1
<1>5. f = Cat(g, r[1]) /\ f \in Seq(Octets)
  BY FrameIs
<1>6. b = Cat(g, h)
  BY DEF Cat
<1>7. t = SubSeq(y, 4 + 1, Len(m) + 6)
  OBVIOUS
<1> HIDE DEF y, h, r, f, g
<1>8. b \in Seq(Octets) /\ Len(b) = Len(g) + Len(h)
  BY <1>3, <1>4, <1>6, CatIs
<1>9. Cat(b, r[5]) = f
  <2>1. h \in Seq(Octets) /\ r[5] \in Seq(Octets) /\ g \in Seq(Octets)
    BY <1>2, <1>3, <1>4
  <2>2. Cat(Cat(g, h), r[5]) = Cat(g, Cat(h, r[5]))
    BY <2>1, CatAssociative
  <2> QED BY <1>3, <1>5, <1>6, <2>2
<1>10. Cat(<< >>, b) = b
  BY <1>8, CatEmpty
<1>11. Len(Cat(b, r[5])) = Len(b) + Len(r[5])
  BY <1>2, <1>8, CatIs
<1>12. Len(b) \in 0 .. 9
  <2> DEFINE k == Len(h)
  <2>1. k \in 0 .. 8 /\ Len(b) = 1 + k
    BY <1>3, <1>4, <1>8
  <2> HIDE DEF k
  <2> QED BY <2>1
<1>13. Len(<< >>) = 0 /\ Len(r[5]) \in Nat
  BY <1>2
<1>14. Len(<< >>) + Len(b) + Len(r[5]) = Len(f)
  BY <1>9, <1>11, <1>12, <1>13
<1>15. 4 + 1 = 5
  OBVIOUS
<1>16. Covers(m, 4, << >>, b, t, 0, 0)
  <2>1. Len(f) \in Nat
    BY <1>5
  <2>2. Len(<< >>) + Len(b) + Len(r[4 + 1]) = Len(f) + 0
    <3> DEFINE x == Len(<< >>) + Len(b) + Len(r[5])
               z == Len(f)
    <3>1. x = z /\ z \in Nat
      BY <1>14, <2>1
    <3> HIDE DEF x, z
    <3>2. x = z + 0
      BY <3>1
    <3> QED BY <1>15, <3>2 DEF x, z
  <2>3. Cat(Cat(<< >>, b), r[4 + 1]) = f
    BY <1>9, <1>10, <1>15
  <2> QED BY <1>7, <2>2, <2>3 DEF Covers, y, r, f
<1> QED BY <1>8, <1>12, <1>16

\* What is still to come is something exactly when the body has more octets.
LEMMA ToComeIs ==
    ASSUME NEW m \in Messages, NEW n \in 0 .. Len(m) + 6,
           NEW t, t = SubSeq(Body(Local, Remote, m), n + 1, Len(m) + 6)
    PROVE  /\ t = << >> <=> n = Len(m) + 6
           /\ t # << >> => /\ n \in 0 .. Len(m) + 5
                           /\ Head(t) = Body(Local, Remote, m)[n + 1]
                           /\ Head(t) \in Octets
                           /\ Tail(t) = SubSeq(Body(Local, Remote, m), n + 1 + 1, Len(m) + 6)
<1> DEFINE y == Body(Local, Remote, m)
           l == Len(m) + 6
<1>1. y \in Seq(Octets) /\ Len(y) = l /\ l \in Nat
  BY FrameIs
<1>2. n \in 0 .. l /\ t = SubSeq(y, n + 1, l)
  OBVIOUS
<1>3. n <= l - 1 => n \in 0 .. Len(m) + 5
  <2>1. Len(m) \in Nat
    BY FrameIs
  <2> QED BY <2>1
<1> HIDE DEF y, l
<1>4. CASE n = l
  <2>1. t = << >>
    <3>1. n + 1 \in Int /\ l \in Int /\ l < n + 1
      BY <1>1, <1>4
    <3> QED BY <1>2, <3>1, SubSeqEmpty
  <2> QED BY <1>4, <2>1 DEF l
<1>5. CASE n # l
  <2>1. n + 1 \in 1 .. Len(y) /\ l \in (n + 1) .. Len(y) /\ n <= l - 1
    BY <1>1, <1>2, <1>5
  <2>2. Head(t) = y[n + 1] /\ Tail(t) = SubSeq(y, n + 1 + 1, l)
    BY <1>1, <1>2, <2>1, HeadTailOfSubSeq
  <2>3. t # << >>
    <3>1. \A i \in (n + 1) .. l : y[i] \in Octets
      BY <1>1, <2>1
    <3>2. Len(t) = IF n + 1 <= l THEN l - (n + 1) + 1 ELSE 0
      BY <1>1, <1>2, <2>1, <3>1, SubSeqProperties
    <3>3. Len(t) # 0
      BY <1>1, <1>2, <2>1, <3>2
    <3> QED BY <3>3
  <2>4. y[n + 1] \in Octets
    BY <1>1, <2>1
  <2> QED BY <1>3, <1>5, <2>1, <2>2, <2>3, <2>4 DEF y, l
<1> QED BY <1>4, <1>5

LEMMA AddCovers ==
    ASSUME NEW m \in Messages, NEW n \in 0 .. Len(m) + 5, NEW o \in Seq(Octets),
           NEW b \in Seq(Octets), NEW t, NEW k, NEW t1, NEW e,
           Covers(m, n, o, b, t, 0, k), t # << >>,
           e = EscapeOctet(Head(t)), t1 = Tail(t)
    PROVE  /\ e \in Seq(Octets) /\ Cat(b, e) \in Seq(Octets)
           /\ n + 1 \in 0 .. Len(m) + 6
           /\ Covers(m, n + 1, o, Cat(b, e), t1, 0, k)
<1> DEFINE y == Body(Local, Remote, m)
           r == Remaining(m)
           f == Frame(Local, Remote, m)
           r1 == r[n + 1]
           r2 == r[n + 1 + 1]
           l == Len(m)
<1>0. l \in Nat /\ f \in Seq(Octets)
  BY FrameIs
<1>1. n \in 0 .. l + 6 /\ n + 1 \in 0 .. l + 6 /\ n + 1 \in 1 .. l + 6 /\ n + 1 \in 1 .. l + 7
      /\ n + 1 + 1 \in 1 .. l + 7
  BY <1>0
<1>2. r1 = Cat(EscapeOctet(y[n + 1]), r2)
  BY <1>1, FrameIs
<1>3. r1 \in Seq(Octets) /\ r2 \in Seq(Octets)
  BY <1>1, FrameIs
<1>4. t = SubSeq(y, n + 1, l + 6) /\ Len(o) + Len(b) + Len(r1) = Len(f) + 0
      /\ (k = 0 => Cat(Cat(o, b), r1) = f)
  BY DEF Covers
<1>5. /\ Head(t) = y[n + 1] /\ Head(t) \in Octets
      /\ t1 = SubSeq(y, n + 1 + 1, l + 6)
  <2>1. n \in 0 .. Len(m) + 6
    BY <1>1
  <2>2. t = SubSeq(Body(Local, Remote, m), n + 1, Len(m) + 6)
    BY DEF Covers
  <2> QED BY <2>1, <2>2, ToComeIs
<1>6. e \in Seq(Octets)
  BY <1>5, EscapeOctetIs
<1>7. r1 = Cat(e, r2)
  BY <1>2, <1>5
<1> HIDE DEF y, r, f, r1, r2, l
<1>8. Cat(b, e) \in Seq(Octets) /\ Len(Cat(b, e)) = Len(b) + Len(e) /\ Len(r1) = Len(e) + Len(r2)
  BY <1>3, <1>6, <1>7, CatIs
<1>9. Len(o) + Len(Cat(b, e)) + Len(r2) = Len(f) + 0
  <2> DEFINE n1 == Len(o)
             n2 == Len(b)
             n3 == Len(e)
             n4 == Len(r1)
             n5 == Len(r2)
             n6 == Len(f)
             n7 == Len(Cat(b, e))
  <2>1. n1 \in Nat /\ n2 \in Nat /\ n3 \in Nat /\ n4 \in Nat /\ n5 \in Nat /\ n6 \in Nat /\ n7 \in Nat
    BY <1>0, <1>3, <1>6, <1>8
  <2>2. n1 + n2 + n4 = n6 + 0 /\ n7 = n2 + n3 /\ n4 = n3 + n5
    BY <1>4, <1>8
  <2> HIDE DEF n1, n2, n3, n4, n5, n6, n7
  <2>3. n1 + n7 + n5 = n6 + 0
    BY <2>1, <2>2
  <2> QED BY <2>3 DEF n1, n2, n3, n4, n5, n6, n7
<1>10. k = 0 => Cat(Cat(o, Cat(b, e)), r2) = f
  <2>1. Cat(o, Cat(b, e)) = Cat(Cat(o, b), e)
    BY <1>6, CatAssociative
  <2>2. Cat(o, b) \in Seq(Octets)
    BY CatIs
  <2>3. Cat(Cat(Cat(o, b), e), r2) = Cat(Cat(o, b), Cat(e, r2))
    BY <1>3, <1>6, <2>2, CatAssociative
  <2> QED BY <1>4, <1>7, <2>1, <2>3
<1>11. Covers(m, n + 1, o, Cat(b, e), t1, 0, k)
  BY <1>5, <1>9, <1>10 DEF Covers, y, r, f, r2, l
<1> QED BY <1>1, <1>6, <1>8, <1>11 DEF l

\* The line takes i octets of the buffer, of which w have been written already:
\* the buffer is emptied, or more of it remains to be written.
LEMMA PutCovers ==
    ASSUME NEW m \in Messages, NEW n \in 0 .. Len(m) + 6, NEW o \in Seq(Octets),
           NEW b \in Seq(Octets), NEW t, NEW w \in Nat, NEW k \in Nat,
           NEW i \in 0 .. Len(b), NEW k1 \in Nat,
           Covers(m, n, o, b, t, w, k), w < Len(b), w > 0 => k > 0,
           k1 = IF i \in 1 .. Len(b) - 1 THEN k + 1 ELSE k
    PROVE  /\ Cat(o, SubSeq(b, 1, i)) \in Seq(Octets)
           /\ w + i = Len(b) => Covers(m, n, Cat(o, SubSeq(b, 1, i)), << >>, t, 0, k1)
           /\ w + i < Len(b) /\ i > 0 =>
                 k1 > 0 /\ Covers(m, n, Cat(o, SubSeq(b, 1, i)), b, t, w + i, k1)
<1> DEFINE r == Remaining(m)[n + 1]
           f == Frame(Local, Remote, m)
           p == SubSeq(b, 1, i)
<1>1. r \in Seq(Octets) /\ f \in Seq(Octets)
  <2>1. n + 1 \in 1 .. Len(m) + 7
    BY FrameIs
  <2> QED BY <2>1, FrameIs
<1>2. p \in Seq(Octets) /\ Len(p) = i /\ (i = Len(b) => p = b)
  <2>1. \A j \in 1 .. i : b[j] \in Octets
    OBVIOUS
  <2>2. p \in Seq(Octets) /\ Len(p) = IF 1 <= i THEN i - 1 + 1 ELSE 0
    BY <2>1, SubSeqProperties
  <2>3. i = Len(b) => p = b
    BY SubSeqFull
  <2> QED BY <2>2, <2>3
<1>3. /\ t = SubSeq(Body(Local, Remote, m), n + 1, Len(m) + 6)
      /\ Len(o) + Len(b) + Len(r) = Len(f) + w
      /\ k = 0 => Cat(Cat(o, b), r) = f
  BY DEF Covers
<1> HIDE DEF r, f, p
<1>4. Cat(o, p) \in Seq(Octets) /\ Len(Cat(o, p)) = Len(o) + Len(p)
  BY <1>2, CatIs
<1> DEFINE no == Len(o)
           nb == Len(b)
           nr == Len(r)
           nf == Len(f)
           nc == Len(Cat(o, p))
<1>5. no \in Nat /\ nb \in Nat /\ nr \in Nat /\ nf \in Nat /\ nc \in Nat /\ nc = no + i
      /\ no + nb + nr = nf + w
  BY <1>1, <1>2, <1>3, <1>4
<1>6. i \in 0 .. nb /\ w < nb /\ k1 = (IF i \in 1 .. nb - 1 THEN k + 1 ELSE k)
  OBVIOUS
<1>7. Len(<< >>) = 0
  OBVIOUS
<1> HIDE DEF no, nb, nr, nf, nc
<1>8. ASSUME w + i = nb PROVE Covers(m, n, Cat(o, p), << >>, t, 0, k1)
  <2>1. nc + 0 + nr = nf + 0
    BY <1>5, <1>8
  <2>2. ASSUME k1 = 0 PROVE Cat(Cat(Cat(o, p), << >>), r) = f
    <3>1. k = 0 /\ w = 0 /\ i = nb
      BY <1>5, <1>6, <1>8, <2>2
    <3>2. p = b
      BY <1>2, <3>1 DEF nb
    <3>3. Cat(Cat(o, p), << >>) = Cat(o, p)
      BY <1>4, CatEmpty
    <3> QED BY <1>3, <3>1, <3>2, <3>3
  <2>3. Len(Cat(o, p)) + Len(<< >>) + Len(r) = Len(f) + 0
    BY <1>7, <2>1 DEF nc, nr, nf
  <2> QED BY <1>3, <2>2, <2>3 DEF Covers, r, f
<1>9. ASSUME w + i < nb, i > 0 PROVE k1 > 0 /\ Covers(m, n, Cat(o, p), b, t, w + i, k1)
  <2>1. k1 = k + 1 /\ k1 > 0
    BY <1>5, <1>6, <1>9
  <2>2. nc + nb + nr = nf + (w + i)
    BY <1>5, <1>6
  <2>3. Len(Cat(o, p)) + Len(b) + Len(r) = Len(f) + (w + i)
    BY <2>2 DEF nc, nb, nr, nf
  <2>4. ~(k1 = 0)
    BY <2>1
  <2> QED BY <1>3, <2>1, <2>3, <2>4 DEF Covers, r, f
<1> QED BY <1>4, <1>8, <1>9 DEF p, nb

\* With nothing to come and an empty buffer the line has the frame.
LEMMA NothingRemains ==
    ASSUME NEW m \in Messages, NEW n \in 0 .. Len(m) + 6, NEW o \in Seq(Octets), NEW t,
           NEW k, t = << >>, Covers(m, n, o, << >>, t, 0, k)
    PROVE  /\ Len(o) = Len(Frame(Local, Remote, m))
           /\ k = 0 => o = Frame(Local, Remote, m)
<1> DEFINE r == Remaining(m)[n + 1]
           f == Frame(Local, Remote, m)
<1>1. n = Len(m) + 6
  <2>1. t = SubSeq(Body(Local, Remote, m), n + 1, Len(m) + 6)
    BY DEF Covers
  <2> QED BY <2>1, ToComeIs
<1>2. r = << >> /\ f \in Seq(Octets)
  <2>1. n + 1 = Len(m) + 7
    BY <1>1, FrameIs
  <2> QED BY <2>1, FrameIs
<1>3. /\ Len(o) + Len(<< >>) + Len(r) = Len(f) + 0
      /\ k = 0 => Cat(Cat(o, << >>), r) = f
  BY DEF Covers
<1> HIDE DEF r, f
<1>4. Len(<< >>) = 0 /\ Len(f) \in Nat /\ Len(o) \in Nat
  BY <1>2
<1>5. Len(o) = Len(f)
  BY <1>2, <1>3, <1>4
<1>6. Cat(Cat(o, << >>), << >>) = o
  BY CatEmpty
<1> QED BY <1>2, <1>3, <1>5, <1>6 DEF f

LEMMA BeginningIs ==
    ASSUME NEW S, NEW s \in Seq(S), NEW t \in Seq(S)
    PROVE  IsPrefix(s, Cat(s, t))
<1>1. Len(Cat(s, t)) = Len(s) + Len(t)
  BY CatIs
<1>2. Len(s) <= Len(Cat(s, t))
  BY <1>1
<1>3. SubSeq(s, 1, Len(s)) = SubSeq(Cat(s, t), 1, Len(s))
  <2>1. CASE Len(s) = 0
    BY <2>1, SubSeqEmpty
  <2>2. CASE Len(s) # 0
    <3>1. 1 \in 1 .. Len(s) /\ Len(s) \in 1 .. Len(s)
      BY <2>2
    <3> QED BY <3>1, SubSeqOfConcat1 DEF Cat
  <2> QED BY <2>1, <2>2
<1> QED BY <1>2, <1>3 DEF IsPrefix

\* What a running write has to do with the frame: part of the octets have been
\* added, and the rest are to come.
Underway ==
    \E n \in 0 .. Len(msg) + 6 :
        Covers(msg, n, out, buffer, todo, IF writing = -1 THEN 0 ELSE writing, parts)

FrameWriterTypeOK ==
    /\ msg \in Messages \cup {NoMessage}
    /\ out \in Seq(Octets) /\ buffer \in Seq(Octets)
    /\ parts \in Nat /\ writing \in Nat \cup {-1}
    /\ result.of \in Messages \cup {NoMessage}

(* The inductive invariant: the octets on the line, in the buffer and to   *)
(* come make up the frame.  bytes_written is short of the buffer, and not  *)
(* zero only after a part.                                                 *)
FrameWriterIInv ==
    /\ FrameWriterTypeOK
    /\ BufferHolds
    /\ msg # NoMessage => result = [rv |-> "none", of |-> msg] /\ Underway
    /\ writing # -1 => msg # NoMessage /\ writing < Len(buffer)
    /\ writing > 0 => parts > 0
    /\ SuccessIsAFrame

LEMMA WriterInit == FrameWriterInit => FrameWriterIInv
<1> SUFFICES ASSUME FrameWriterInit PROVE FrameWriterIInv
  OBVIOUS
<1> USE DEF FrameWriterInit
<1>1. FrameWriterTypeOK
  BY DEF FrameWriterTypeOK
<1>2. BufferHolds
  BY BufferAssumption DEF BufferHolds
<1>3. SuccessIsAFrame
  BY DEF SuccessIsAFrame
<1> QED BY <1>1, <1>2, <1>3 DEF FrameWriterIInv

LEMMA WriterBegin ==
    ASSUME FrameWriterIInv, NEW m \in Messages, Begin_write(m)
    PROVE  FrameWriterIInv'
<1>1. /\ msg = NoMessage /\ msg' = m /\ out' = << >> /\ parts' = 0
      /\ result' = [rv |-> "none", of |-> m] /\ writing' = writing
      /\ buffer' = <<Begin>> \o Escape(SubSeq(Body(Local, Remote, m), 1, 4))
      /\ todo' = SubSeq(Body(Local, Remote, m), 5, Len(m) + 6)
  BY DEF Begin_write
<1>2. writing = -1 /\ writing' = -1
  BY <1>1 DEF FrameWriterIInv
<1>3. buffer' \in Seq(Octets) /\ Len(buffer') \in 0 .. 9 /\ Covers(m, 4, << >>, buffer', todo', 0, 0)
  BY <1>1, HeaderCovers
<1>4. FrameWriterTypeOK'
  BY <1>1, <1>2, <1>3 DEF FrameWriterTypeOK
<1>5. BufferHolds'
  <2>1. Len(buffer') <= BufferSize
    <3> DEFINE k == Len(buffer')
    <3>1. k \in 0 .. 9
      BY <1>3
    <3> HIDE DEF k
    <3>2. k <= BufferSize
      BY <3>1, BufferAssumption
    <3> QED BY <3>2 DEF k
  <2> QED BY <2>1 DEF BufferHolds
<1>6. Underway'
  <2>1. 4 \in 0 .. Len(m) + 6
    BY FrameIs
  <2>2. Covers(msg', 4, out', buffer', todo', IF writing' = -1 THEN 0 ELSE writing', parts')
    BY <1>1, <1>2, <1>3
  <2> QED BY <1>1, <2>1, <2>2 DEF Underway
<1>7. SuccessIsAFrame'
  BY <1>1 DEF SuccessIsAFrame
<1> QED BY <1>1, <1>2, <1>4, <1>5, <1>6, <1>7 DEF FrameWriterIInv

LEMMA WriterAdd ==
    ASSUME FrameWriterIInv, Add
    PROVE  FrameWriterIInv'
<1> DEFINE e == EscapeOctet(Head(todo))
<1>1. /\ msg # NoMessage /\ writing = -1 /\ todo # << >>
      /\ Len(buffer) + Len(e) <= BufferSize
      /\ buffer' = Cat(buffer, e)
      /\ todo' = Tail(todo)
      /\ msg' = msg /\ writing' = writing /\ out' = out /\ parts' = parts /\ result' = result
  BY DEF Add, add_next_octet, Cat
<1>2. /\ msg \in Messages /\ out \in Seq(Octets) /\ buffer \in Seq(Octets) /\ parts \in Nat
      /\ result = [rv |-> "none", of |-> msg] /\ Underway
  BY <1>1 DEF FrameWriterIInv, FrameWriterTypeOK
<1>3. PICK n \in 0 .. Len(msg) + 6 : Covers(msg, n, out, buffer, todo, 0, parts)
  BY <1>1, <1>2 DEF Underway
<1>4. n \in 0 .. Len(msg) + 5
  <2>1. todo = SubSeq(Body(Local, Remote, msg), n + 1, Len(msg) + 6)
    BY <1>3 DEF Covers
  <2> QED BY <1>1, <1>2, <2>1, ToComeIs
<1>5. /\ e \in Seq(Octets) /\ Cat(buffer, e) \in Seq(Octets) /\ n + 1 \in 0 .. Len(msg) + 6
      /\ Covers(msg, n + 1, out, Cat(buffer, e), Tail(todo), 0, parts)
  BY <1>1, <1>2, <1>3, <1>4, AddCovers
<1> HIDE DEF e
<1>6. FrameWriterTypeOK'
  BY <1>1, <1>2, <1>5 DEF FrameWriterIInv, FrameWriterTypeOK
<1>7. BufferHolds'
  <2>1. Len(buffer') = Len(buffer) + Len(e)
    BY <1>1, <1>2, <1>5, CatIs
  <2> QED BY <1>1, <2>1 DEF BufferHolds
<1>8. Underway'
  <2>1. Covers(msg', n + 1, out', buffer', todo', IF writing' = -1 THEN 0 ELSE writing', parts')
    BY <1>1, <1>5
  <2> QED BY <1>1, <1>5, <2>1 DEF Underway
<1>9. SuccessIsAFrame'
  BY <1>1, <1>2 DEF SuccessIsAFrame
<1> QED BY <1>1, <1>2, <1>6, <1>7, <1>8, <1>9 DEF FrameWriterIInv

LEMMA WriterFlush ==
    ASSUME FrameWriterIInv, Flush
    PROVE  FrameWriterIInv'
<1>1. /\ msg # NoMessage /\ writing = -1 /\ buffer # << >> /\ writing' = 0
      /\ msg' = msg /\ todo' = todo /\ buffer' = buffer /\ out' = out
      /\ parts' = parts /\ result' = result
  BY DEF Flush
<1>2. /\ FrameWriterTypeOK /\ BufferHolds /\ SuccessIsAFrame
      /\ result = [rv |-> "none", of |-> msg] /\ Underway
  BY <1>1 DEF FrameWriterIInv
<1>3. PICK n \in 0 .. Len(msg) + 6 : Covers(msg, n, out, buffer, todo, 0, parts)
  BY <1>1, <1>2 DEF Underway
<1>4. FrameWriterTypeOK' /\ BufferHolds' /\ SuccessIsAFrame'
  BY <1>1, <1>2 DEF FrameWriterTypeOK, BufferHolds, SuccessIsAFrame
<1>5. Underway'
  <2>1. Covers(msg', n, out', buffer', todo', IF writing' = -1 THEN 0 ELSE writing', parts')
    BY <1>1, <1>3
  <2> QED BY <1>1, <2>1 DEF Underway
<1>6. writing' < Len(buffer')
  <2>1. buffer \in Seq(Octets)
    BY <1>2 DEF FrameWriterTypeOK
  <2> QED BY <1>1, <2>1
<1> QED BY <1>1, <1>2, <1>4, <1>5, <1>6 DEF FrameWriterIInv

LEMMA WriterWrite ==
    ASSUME FrameWriterIInv, NEW i \in Taken, Write(i)
    PROVE  FrameWriterIInv'
<1> DEFINE p == SubSeq(buffer, 1, i)
           total == writing + i
<1>1. /\ writing >= 0
      /\ out' = Cat(out, p)
      /\ parts' = (IF i \in 1 .. Len(buffer) - 1 THEN parts + 1 ELSE parts)
  BY DEF Write, Put, Cat
<1>2. /\ FrameWriterTypeOK /\ BufferHolds /\ writing \in Nat /\ buffer \in Seq(Octets)
      /\ out \in Seq(Octets) /\ parts \in Nat
  BY <1>1 DEF FrameWriterIInv, FrameWriterTypeOK
<1>3. msg # NoMessage /\ msg \in Messages /\ writing < Len(buffer) /\ (writing > 0 => parts > 0)
  BY <1>1, <1>2 DEF FrameWriterIInv, FrameWriterTypeOK
<1>4. result = [rv |-> "none", of |-> msg] /\ Underway
  BY <1>3 DEF FrameWriterIInv
<1>5. PICK n \in 0 .. Len(msg) + 6 : Covers(msg, n, out, buffer, todo, writing, parts)
  <2>1. (IF writing = -1 THEN 0 ELSE writing) = writing
    BY <1>1
  <2> QED BY <1>4, <2>1 DEF Underway
<1>6. i \in 0 .. Len(buffer)
  BY <1>2, <1>3 DEF Taken
<1>7. parts' \in Nat
  BY <1>1, <1>2
<1>8. /\ Cat(out, p) \in Seq(Octets)
      /\ total = Len(buffer) => Covers(msg, n, Cat(out, p), << >>, todo, 0, parts')
      /\ total < Len(buffer) /\ i > 0 =>
            parts' > 0 /\ Covers(msg, n, Cat(out, p), buffer, todo, total, parts')
  BY <1>1, <1>2, <1>3, <1>5, <1>6, <1>7, PutCovers
<1>9. total \in Nat
  BY <1>2, <1>6
<1>10. << >> \in Seq(Octets) /\ Len(<< >>) = 0 /\ 0 <= BufferSize
  BY BufferAssumption
<1> HIDE DEF p
<1>11. CASE total < Len(buffer) /\ i > 0
  <2>1. writing' = total /\ msg' = msg /\ todo' = todo /\ buffer' = buffer /\ result' = result
    BY <1>11 DEF Write
  <2> HIDE DEF total
  <2>2. FrameWriterTypeOK' /\ BufferHolds'
    BY <1>1, <1>2, <1>7, <1>8, <1>9, <2>1 DEF FrameWriterTypeOK, BufferHolds
  <2>3. SuccessIsAFrame'
    BY <1>4, <2>1 DEF SuccessIsAFrame
  <2>4. Underway'
    <3>1. (IF writing' = -1 THEN 0 ELSE writing') = total
      BY <1>9, <2>1
    <3>2. Covers(msg', n, out', buffer', todo', total, parts')
      BY <1>1, <1>8, <1>11, <2>1
    <3> QED BY <2>1, <3>1, <3>2 DEF Underway
  <2> QED BY <1>3, <1>4, <1>8, <1>9, <1>11, <2>1, <2>2, <2>3, <2>4 DEF FrameWriterIInv
<1>12. CASE ~(total < Len(buffer) /\ i > 0)
  <2>1. writing' = -1
    BY <1>12 DEF Write
  <2>2. CASE total # Len(buffer)
    <3>1. /\ msg' = NoMessage /\ result' = [result EXCEPT !.rv = "failed"] /\ buffer' = buffer
      BY <1>12, <2>2 DEF Write, Finish
    <3>2. result' = [rv |-> "failed", of |-> msg]
      BY <1>4, <3>1
    <3>3. FrameWriterTypeOK' /\ BufferHolds'
      BY <1>1, <1>2, <1>3, <1>7, <1>8, <2>1, <3>1, <3>2 DEF FrameWriterTypeOK, BufferHolds
    <3>4. SuccessIsAFrame'
      BY <3>2 DEF SuccessIsAFrame
    <3> QED BY <2>1, <3>1, <3>3, <3>4 DEF FrameWriterIInv
  <2>3. CASE total = Len(buffer) /\ todo = << >>
    <3>1. /\ msg' = NoMessage /\ result' = [result EXCEPT !.rv = "ok"] /\ buffer' = << >>
      BY <1>12, <2>3 DEF Write, Finish
    <3>2. result' = [rv |-> "ok", of |-> msg]
      BY <1>4, <3>1
    <3>3. FrameWriterTypeOK' /\ BufferHolds'
      BY <1>1, <1>2, <1>3, <1>7, <1>8, <1>10, <2>1, <3>1, <3>2 DEF FrameWriterTypeOK, BufferHolds
    <3>4. SuccessIsAFrame'
      <4>1. Covers(msg, n, out', << >>, todo, 0, parts') /\ out' \in Seq(Octets)
        BY <1>1, <1>8, <2>3
      <4>2. /\ Len(out') = Len(Frame(Local, Remote, msg))
            /\ parts' = 0 => out' = Frame(Local, Remote, msg)
        BY <1>3, <2>3, <4>1, NothingRemains
      <4> QED BY <3>2, <4>2 DEF SuccessIsAFrame
    <3> QED BY <2>1, <3>1, <3>3, <3>4 DEF FrameWriterIInv
  <2>4. CASE total = Len(buffer) /\ todo # << >>
    <3>1. /\ msg' = msg /\ result' = result /\ todo' = todo /\ buffer' = << >>
      BY <1>12, <2>4 DEF Write
    <3>2. FrameWriterTypeOK' /\ BufferHolds'
      BY <1>1, <1>2, <1>7, <1>8, <1>10, <2>1, <3>1 DEF FrameWriterTypeOK, BufferHolds
    <3>3. SuccessIsAFrame'
      BY <1>4, <3>1 DEF SuccessIsAFrame
    <3>4. Underway'
      <4>1. Covers(msg', n, out', buffer', todo', IF writing' = -1 THEN 0 ELSE writing', parts')
        BY <1>1, <1>8, <2>1, <2>4, <3>1
      <4> QED BY <3>1, <4>1 DEF Underway
    <3> QED BY <1>4, <2>1, <3>1, <3>2, <3>3, <3>4 DEF FrameWriterIInv
  <2> QED BY <2>2, <2>3, <2>4
<1> QED BY <1>11, <1>12

LEMMA WriterStep == FrameWriterIInv /\ [FrameWriterNext]_frame_writer_vars => FrameWriterIInv'
<1> SUFFICES ASSUME FrameWriterIInv, [FrameWriterNext]_frame_writer_vars PROVE FrameWriterIInv'
  OBVIOUS
<1>1. CASE \E m \in Messages : Begin_write(m)
  BY <1>1, WriterBegin
<1>2. CASE Add
  BY <1>2, WriterAdd
<1>3. CASE Flush
  BY <1>3, WriterFlush
<1>4. CASE \E n \in Taken : Write(n)
  BY <1>4, WriterWrite
<1>5. CASE UNCHANGED frame_writer_vars
  BY <1>5 DEF frame_writer_vars, FrameWriterIInv, FrameWriterTypeOK, BufferHolds, Underway,
              SuccessIsAFrame
<1> QED BY <1>1, <1>2, <1>3, <1>4, <1>5 DEF FrameWriterNext

(* What is on the line and in the buffer is a beginning of the frame.      *)
LEMMA WriterPrefix == FrameWriterIInv => PrefixOfFrame
<1> SUFFICES ASSUME FrameWriterIInv, msg # NoMessage, parts = 0
             PROVE  IsPrefix(out \o buffer, Frame(Local, Remote, msg))
  BY DEF PrefixOfFrame
<1>1. msg \in Messages /\ out \in Seq(Octets) /\ buffer \in Seq(Octets)
  BY DEF FrameWriterIInv, FrameWriterTypeOK
<1>2. PICK n \in 0 .. Len(msg) + 6 :
        Covers(msg, n, out, buffer, todo, IF writing = -1 THEN 0 ELSE writing, parts)
  BY DEF FrameWriterIInv, Underway
<1> DEFINE r == Remaining(msg)[n + 1]
<1>3. Cat(Cat(out, buffer), r) = Frame(Local, Remote, msg)
  BY <1>2 DEF Covers
<1>4. r \in Seq(Octets) /\ Cat(out, buffer) \in Seq(Octets)
  <2>1. Len(msg) \in Nat
    BY <1>1, FrameIs
  <2>2. n + 1 \in 1 .. Len(msg) + 7
    BY <2>1
  <2> QED BY <1>1, <2>2, FrameIs, CatIs
<1> HIDE DEF r
<1>5. IsPrefix(Cat(out, buffer), Frame(Local, Remote, msg))
  BY <1>3, <1>4, BeginningIs
<1> QED BY <1>5 DEF Cat

(* Whatever the message and the size of the buffer (from nine octets on),  *)
(* write_buffer_ is not overrun, and when write_framed_msg reports success *)
(* the line has as many octets as the frame.  It has the frame itself, and *)
(* before that a beginning of it, when no write took a part; of the octets *)
(* after a partial write nothing is said, for the code repeats them.       *)
THEOREM WriterSendsFrames == FrameWriterSpec => []FrameWriterInv
<1>1. FrameWriterIInv => FrameWriterInv
  BY WriterPrefix DEF FrameWriterIInv, FrameWriterInv
<1>2. FrameWriterSpec => []FrameWriterIInv
  BY WriterInit, WriterStep, PTL DEF FrameWriterSpec
<1> QED BY <1>1, <1>2, PTL

-----------------------------------------------------------------------------
(* read_framed_msg: the state stays in its type                            *)

IOs == [state : States, queue : Seq(Octets), remote : Octets, len : Crcs, pos : Nat,
        crc : Crcs, cmp : Crcs]

\* A first octet of two is an octet; the payload is within the message, and the
\* message within the buffer.
IsIO(port) ==
    /\ port \in IOs
    /\ Len(port.queue) < ReadBuffer
    /\ port.state = "LEN_MSB" => port.len < 256
    /\ port.state = "CRC_MSB" => port.crc < 256
    /\ port.state \in {"PAYLOAD", "CRC_LSB", "CRC_MSB"} => port.len <= MaxMessage
    /\ port.state = "PAYLOAD" => port.pos <= port.len

LEMMA XorOfOctet ==
    ASSUME NEW o \in Octets
    PROVE  Xor(o, XorFlag) \in Octets
<1>0. o \in Nat /\ o < 256
  BY OctetsIs
<1>1. ASSUME NEW x \in Nat, NEW y \in Nat
      PROVE  XorNibble(x, y) \in Nat /\ XorNibble(x, y) < 16
  <2> DEFINE p == (x + y) % 2
             q == (x \div 2 + y \div 2) % 2
             r == (x \div 4 + y \div 4) % 2
             s == (x \div 8 + y \div 8) % 2
  <2>2. p \in 0 .. 1 /\ q \in 0 .. 1 /\ r \in 0 .. 1 /\ s \in 0 .. 1
    OBVIOUS
  <2>3. XorNibble(x, y) = p + 2 * q + 4 * r + 8 * s
    BY DEF XorNibble
  <2> HIDE DEF p, q, r, s
  <2> QED BY <2>2, <2>3
<1>2. Nibble(o, 256) = 0 /\ Nibble(o, 4096) = 0
  BY <1>0 DEF Nibble
<1>3. Nibble(XorFlag, 256) = 0 /\ Nibble(XorFlag, 4096) = 0
  BY DEF Nibble, XorFlag
<1>4. XorNibble(0, 0) = 0
  BY DEF XorNibble
<1> DEFINE p == XorNibble(Nibble(o, 1), Nibble(XorFlag, 1))
           q == XorNibble(Nibble(o, 16), Nibble(XorFlag, 16))
<1>5. p \in Nat /\ p < 16 /\ q \in Nat /\ q < 16
  <2>1. \A x \in Nat : Nibble(x, 1) \in Nat /\ Nibble(x, 16) \in Nat
    BY DEF Nibble
  <2>2. XorFlag \in Nat
    BY DEF XorFlag
  <2> QED BY <1>0, <1>1, <2>1, <2>2
<1>6. Xor(o, XorFlag) = p + 16 * q + 256 * 0 + 4096 * 0
  BY <1>2, <1>3, <1>4 DEF Xor
<1> HIDE DEF p, q
<1>7. Xor(o, XorFlag) \in Nat /\ Xor(o, XorFlag) < 256
  BY <1>5, <1>6
<1> QED BY <1>7, OctetsIs

\* The part of a sequence from an octet on.
LEMMA PartIs ==
    ASSUME NEW S, NEW q \in Seq(S), NEW n \in Nat
    PROVE  /\ SubSeq(q, n + 1, Len(q)) \in Seq(S)
           /\ Len(SubSeq(q, n + 1, Len(q))) = IF n <= Len(q) THEN Len(q) - n ELSE 0
           /\ n <= Len(q) => /\ SubSeq(q, 1, n) \in Seq(S)
                             /\ Len(SubSeq(q, 1, n)) = n
                             /\ Cat(SubSeq(q, 1, n), SubSeq(q, n + 1, Len(q))) = q
<1>1. \A i \in n + 1 .. Len(q) : q[i] \in S
  OBVIOUS
<1>2. /\ SubSeq(q, n + 1, Len(q)) \in Seq(S)
      /\ Len(SubSeq(q, n + 1, Len(q))) = IF n + 1 <= Len(q) THEN Len(q) - (n + 1) + 1 ELSE 0
  <2>1. n + 1 \in Int /\ Len(q) \in Int
    OBVIOUS
  <2> QED BY <1>1, <2>1, SubSeqProperties
<1>3. ASSUME n <= Len(q)
      PROVE  /\ SubSeq(q, 1, n) \in Seq(S)
             /\ Len(SubSeq(q, 1, n)) = n
             /\ Cat(SubSeq(q, 1, n), SubSeq(q, n + 1, Len(q))) = q
  <2>1. \A i \in 1 .. n : q[i] \in S
    BY <1>3
  <2>2. SubSeq(q, 1, n) \in Seq(S) /\ Len(SubSeq(q, 1, n)) = IF 1 <= n THEN n - 1 + 1 ELSE 0
    BY <2>1, SubSeqProperties
  <2>3. SubSeq(q, 1, n) \o SubSeq(q, n + 1, Len(q)) = SubSeq(q, 1, Len(q))
    <3>1. 1 \in 1 .. Len(q) + 1 /\ n \in 1 - 1 .. Len(q) /\ Len(q) \in n .. Len(q)
      BY <1>3
    <3> QED BY <3>1, ConcatAdjacentSubSeq
  <2>4. SubSeq(q, 1, Len(q)) = q
    BY SubSeqFull
  <2>5. (IF 1 <= n THEN n - 1 + 1 ELSE 0) = n
    OBVIOUS
  <2>6. Cat(SubSeq(q, 1, n), SubSeq(q, n + 1, Len(q))) = q
    BY <2>3, <2>4 DEF Cat
  <2> QED BY <2>2, <2>5, <2>6
<1>4. (IF n + 1 <= Len(q) THEN Len(q) - (n + 1) + 1 ELSE 0) = IF n <= Len(q) THEN Len(q) - n ELSE 0
  <2> DEFINE k == Len(q)
  <2>1. k \in Nat
    OBVIOUS
  <2> HIDE DEF k
  <2>2. (IF n + 1 <= k THEN k - (n + 1) + 1 ELSE 0) = IF n <= k THEN k - n ELSE 0
    BY <2>1
  <2> QED BY <2>2 DEF k
<1> QED BY <1>2, <1>3, <1>4

\* An octet is taken off the read buffer: what is left is a part of it.
LEMMA GotIs ==
    ASSUME NEW q \in Seq(Octets)
    PROVE  LET got == get_next_octet(q)
           IN  /\ got.octet \in Octets /\ got.rest \in Seq(Octets)
               /\ Len(got.rest) <= Len(q) /\ got.rv \in BOOLEAN
<1>1. 0 \in Octets /\ Begin \in Octets
  BY OctetsIs DEF Begin
<1>2. CASE q = << >>
  BY <1>1, <1>2 DEF get_next_octet
<1>3. CASE q # << >>
  <2>1. Head(q) \in Octets /\ Tail(q) \in Seq(Octets) /\ Len(Tail(q)) = Len(q) - 1 /\ Len(q) >= 1
    BY <1>3
  <2>2. SubSeq(q, 3, Len(q)) \in Seq(Octets) /\ Len(SubSeq(q, 3, Len(q))) <= Len(q)
    <3>1. 2 + 1 = 3
      OBVIOUS
    <3>2. SubSeq(q, 2 + 1, Len(q)) \in Seq(Octets)
          /\ Len(SubSeq(q, 2 + 1, Len(q))) = IF 2 <= Len(q) THEN Len(q) - 2 ELSE 0
      BY PartIs
    <3>3. (IF 2 <= Len(q) THEN Len(q) - 2 ELSE 0) <= Len(q)
      <4> DEFINE k == Len(q)
      <4>1. k \in Nat
        OBVIOUS
      <4> HIDE DEF k
      <4>2. (IF 2 <= k THEN k - 2 ELSE 0) <= k
        BY <4>1
      <4> QED BY <4>2 DEF k
    <3> QED BY <3>1, <3>2, <3>3
  <2>3. CASE Head(q) # Esc
    BY <1>3, <2>1, <2>3 DEF get_next_octet
  <2>4. CASE Head(q) = Esc
    <3>1. CASE Len(q) = 1
      <4>1. get_next_octet(q) = [rv |-> FALSE, octet |-> 0, rest |-> q]
        BY <1>3, <2>4, <3>1 DEF get_next_octet
      <4>2. Len(q) <= Len(q)
        OBVIOUS
      <4> QED BY <1>1, <4>1, <4>2
    <3>2. CASE Len(q) # 1
      <4>1. q[2] \in Octets
        BY <2>1, <3>2
      <4>2. Xor(q[2], XorFlag) \in Octets
        BY <4>1, XorOfOctet
      <4> QED BY <1>1, <1>3, <2>2, <2>4, <3>2, <4>2 DEF get_next_octet
    <3> QED BY <3>1, <3>2
  <2> QED BY <2>3, <2>4
<1> QED BY <1>2, <1>3

\* The octets that a read returns are there, and have room in the read buffer.
LEMMA ReadableIs ==
    ASSUME NEW p, NEW q \in Seq(Octets), NEW max \in Nat, NEW n \in Readable(p, q, max),
           line[p] \in Seq(Octets), Len(q) < ReadBuffer
    PROVE  n \in Nat /\ n <= Len(line[p]) /\ n <= Room(q)
<1> DEFINE a == Len(line[p])
           b == Room(q)
           S == {max, a, b}
<1>1. a \in Nat /\ b \in Nat
  <2>1. Len(q) \in Nat /\ ReadBuffer \in Nat
    BY FrameReaderAssumption
  <2> QED BY <2>1 DEF Room
<1> HIDE DEF a, b
<1>2. \E x \in S : \A y \in S : x <= y
  BY <1>1
<1>3. Min(S) \in S /\ \A y \in S : Min(S) <= y
  <2> DEFINE P(x) == \A y \in S : x <= y
  <2> HIDE DEF S
  <2>1. Min(S) = CHOOSE x \in S : P(x)
    BY DEF Min
  <2> HIDE DEF P
  <2>2. \E x \in S : P(x)
    BY <1>2 DEF P
  <2>3. Min(S) \in S /\ P(Min(S))
    BY <2>1, <2>2
  <2> QED BY <2>3 DEF P
<1>4. Min(S) \in Nat /\ Min(S) <= a /\ Min(S) <= b
  BY <1>1, <1>3
<1> DEFINE m == Min(S)
<1>5. n \in (IF late /\ b > 0 THEN 1 ELSE 0) .. m
  BY DEF Readable, a, b
<1>6. m \in Nat /\ m <= a /\ m <= b
  BY <1>4
<1> HIDE DEF m, S
<1>7. n \in Nat /\ n <= a /\ n <= b
  BY <1>1, <1>5, <1>6
<1> QED BY <1>7 DEF a, b

\* The place of the first begin flag.
BeginIn(q) == SelectInSeq(q, LAMBDA o : o = Begin)

LEMMA BeginInIs ==
    ASSUME NEW q \in Seq(Octets)
    PROVE  /\ BeginIn(q) \in Nat
           /\ q # << >> /\ Head(q) = Begin => BeginIn(q) = 1
           /\ q = << >> => BeginIn(q) = 0
<1> DEFINE I == {i \in 1 .. Len(q) : q[i] = Begin}
<1>1. BeginIn(q) = IF I # {} THEN Min(I) ELSE 0
  BY DEF BeginIn, SelectInSeq
<1>2. Len(q) \in Nat /\ I \subseteq Nat
  OBVIOUS
<1>3. ASSUME NEW x \in I, \A y \in I : x <= y PROVE Min(I) = x
  <2>1. Min(I) = CHOOSE z \in I : \A y \in I : z <= y
    BY DEF Min
  <2> HIDE DEF I
  <2>2. \A z \in I : (\A y \in I : z <= y) => z = x
    BY <1>2, <1>3
  <2> QED BY <1>3, <2>1, <2>2
<1>4. I # {} => Min(I) \in Nat
  <2> SUFFICES ASSUME I # {} PROVE Min(I) \in Nat
    OBVIOUS
  <2>1. \E x \in I : \A y \in I : x <= y
    <3> SUFFICES ASSUME \A x \in I : \E y \in I : ~(x <= y) PROVE FALSE
      OBVIOUS
    <3> DEFINE A == {k \in Nat : \A x \in I : k < x}
    <3>0. \A x \in I : x \in Nat /\ x >= 1
      BY <1>2
    <3> HIDE DEF I
    <3>1. 0 \in A
      BY <3>0
    <3>2. ASSUME NEW k \in A PROVE k + 1 \in A
      <4> SUFFICES ASSUME NEW x \in I PROVE k + 1 < x
        OBVIOUS
      <4>1. PICK y \in I : ~(x <= y)
        OBVIOUS
      <4>2. k < y /\ x \in Nat /\ y \in Nat /\ k \in Nat
        BY <3>0
      <4> QED BY <4>1, <4>2
    <3> HIDE DEF A
    <3>3. A = Nat
      <4>1. A \in SUBSET Nat
        BY DEF A
      <4> QED BY <3>1, <3>2, <4>1, SetInduction
    <3>4. PICK x \in I : TRUE
      OBVIOUS
    <3>5. x \in A
      BY <3>0, <3>3
    <3> QED BY <3>0, <3>5 DEF A
  <2> HIDE DEF I
  <2> QED BY <1>2, <1>3, <2>1
<1>5. ASSUME q # << >>, Head(q) = Begin PROVE BeginIn(q) = 1
  <2>1. 1 \in I /\ \A y \in I : 1 <= y
    BY <1>5
  <2> QED BY <1>1, <1>3, <2>1
<1>6. q = << >> => I = {}
  OBVIOUS
<1> QED BY <1>1, <1>4, <1>5, <1>6

ReaderTypes ==
    /\ script \in [Ports -> Scripts]
    /\ line \in [Ports -> Seq(Octets)]
    /\ framing_io \in [Ports -> IOs]
    /\ \A p \in Ports : IsIO(framing_io[p])
    /\ buf \in [1 .. MaxMessage -> Octets]
    /\ active \in Ports \cup {NoPort} /\ late \in BOOLEAN /\ (active = NoPort => ~late)
    /\ delivered \in [Ports -> Seq([remote : Octets, msg : Seq(Octets)])]

\* A turn changes the line and the FramingIO of one port.
LEMMA PortChanged ==
    ASSUME ReaderTypes, NEW p \in Ports, NEW port, IsIO(port), NEW l \in Seq(Octets),
           framing_io' = [framing_io EXCEPT ![p] = port],
           line' = [line EXCEPT ![p] = l] \/ line' = line
    PROVE  /\ line' \in [Ports -> Seq(Octets)]
           /\ framing_io' \in [Ports -> IOs]
           /\ \A x \in Ports : IsIO(framing_io'[x])
<1>1. line \in [Ports -> Seq(Octets)] /\ framing_io \in [Ports -> IOs]
      /\ \A x \in Ports : IsIO(framing_io[x])
  BY DEF ReaderTypes
<1>2. port \in IOs
  BY DEF IsIO
<1>3. framing_io' \in [Ports -> IOs]
  BY <1>1, <1>2
<1>4. \A x \in Ports : framing_io'[x] = IF x = p THEN port ELSE framing_io[x]
  BY <1>1
<1>5. line' \in [Ports -> Seq(Octets)]
  BY <1>1
<1> QED BY <1>1, <1>3, <1>4, <1>5

\* With what was read at its end the read buffer holds.
LEMMA ReadIs ==
    ASSUME ReaderTypes, NEW p \in Ports, NEW fio, NEW q \in Seq(Octets), NEW max \in Nat,
           NEW n \in Readable(p, q, max), Len(q) < ReadBuffer, IsIO(fio), ReadTo(p, n, fio, q)
    PROVE  /\ line' \in [Ports -> Seq(Octets)]
           /\ framing_io' \in [Ports -> IOs]
           /\ \A x \in Ports : IsIO(framing_io'[x])
<1> DEFINE l == SubSeq(line[p], n + 1, Len(line[p]))
           t == SubSeq(line[p], 1, n)
           u == Cat(q, t)
           port == [fio EXCEPT !.queue = u]
<1>1. line[p] \in Seq(Octets) /\ Len(line[p]) \in Nat /\ Len(q) \in Nat /\ ReadBuffer \in Nat
  BY FrameReaderAssumption DEF ReaderTypes
<1>2. n \in Nat /\ n <= Len(line[p]) /\ n <= Room(q)
  BY <1>1, ReadableIs
<1>3. l \in Seq(Octets) /\ t \in Seq(Octets) /\ Len(t) = n
  BY <1>1, <1>2, PartIs
<1>4. u \in Seq(Octets) /\ Len(u) = Len(q) + n
  <2> HIDE DEF t
  <2> QED BY <1>3, CatIs
<1>5. Len(u) < ReadBuffer
  BY <1>1, <1>2, <1>4 DEF Room
<1>6. framing_io' = [framing_io EXCEPT ![p] = port] /\ line' = [line EXCEPT ![p] = l]
  BY DEF ReadTo, Cat, ReaderTypes
<1> HIDE DEF u, l
<1>7. IsIO(port)
  <2>1. fio \in IOs
    BY DEF IsIO
  <2>2. port \in IOs
    BY <1>4, <2>1 DEF IOs
  <2>3. port.queue = u /\ port.state = fio.state /\ port.len = fio.len /\ port.pos = fio.pos /\ port.crc = fio.crc
    BY <2>1 DEF IOs
  <2> HIDE DEF port
  <2> QED BY <1>5, <2>2, <2>3 DEF IsIO
<1> HIDE DEF port
<1> QED BY <1>3, <1>6, <1>7, PortChanged

HeaderStates == {"SRC_ADDR", "DST_ADDR", "LEN_LSB", "LEN_MSB", "CRC_LSB", "CRC_MSB"}

LEMMA WantedIs ==
    /\ DOMAIN Wanted = HeaderStates
    /\ \A s \in HeaderStates : Wanted[s] \in Nat
BY DEF Wanted, HeaderStates

\* A FramingIO, field by field.
Fields(state, queue, remote, len, pos, crc, cmp) ==
    [state |-> state, queue |-> queue, remote |-> remote, len |-> len, pos |-> pos,
     crc |-> crc, cmp |-> cmp]

\* What an octet does in each state.
LEMMA OctetTakenIs ==
    ASSUME NEW fio \in IOs, NEW o
    PROVE  /\ fio.state = "SRC_ADDR" =>
                 OctetTaken(fio, o) =
                    Fields("DST_ADDR", fio.queue, o, fio.len, fio.pos, fio.crc, fio.cmp)
           /\ fio.state = "DST_ADDR" =>
                 OctetTaken(fio, o) =
                    Fields(IF o = Local THEN "LEN_LSB" ELSE "UNINITIALIZED",
                       fio.queue, fio.remote, fio.len, fio.pos, fio.crc, fio.cmp)
           /\ fio.state = "LEN_LSB" =>
                 OctetTaken(fio, o) =
                    Fields("LEN_MSB", fio.queue, fio.remote, o, fio.pos, fio.crc, fio.cmp)
           /\ fio.state = "LEN_MSB" =>
                 OctetTaken(fio, o) =
                    Fields(IF MaxMessage < fio.len + 256 * o THEN "UNINITIALIZED" ELSE "PAYLOAD",
                       fio.queue, fio.remote, fio.len + 256 * o, 0, fio.crc, 0)
           /\ fio.state = "CRC_LSB" =>
                 OctetTaken(fio, o) =
                    Fields("CRC_MSB", fio.queue, fio.remote, fio.len, fio.pos, o, fio.cmp)
           /\ fio.state = "CRC_MSB" =>
                 OctetTaken(fio, o) =
                    Fields("UNINITIALIZED",
                       fio.queue, fio.remote, fio.len, fio.pos, fio.crc + 256 * o, fio.cmp)
<1>1. ASSUME fio.state = "SRC_ADDR"
      PROVE  OctetTaken(fio, o) =
                    Fields("DST_ADDR", fio.queue, o, fio.len, fio.pos, fio.crc, fio.cmp)
  <2>1. OctetTaken(fio, o) = [fio EXCEPT !.state = "DST_ADDR", !.remote = o]
    BY <1>1 DEF OctetTaken
  <2> SUFFICES ASSUME NEW t, t = [fio EXCEPT !.state = "DST_ADDR", !.remote = o]
               PROVE  t = Fields("DST_ADDR", fio.queue, o, fio.len, fio.pos, fio.crc, fio.cmp)
    BY <2>1
  <2> QED BY DEF Fields, IOs
<1>2. ASSUME fio.state = "DST_ADDR"
      PROVE  OctetTaken(fio, o) =
                    Fields(IF o = Local THEN "LEN_LSB" ELSE "UNINITIALIZED",
                       fio.queue, fio.remote, fio.len, fio.pos, fio.crc, fio.cmp)
  <2>1. OctetTaken(fio, o) = [fio EXCEPT !.state = IF o = Local THEN "LEN_LSB" ELSE "UNINITIALIZED"]
    BY <1>2 DEF OctetTaken
  <2> SUFFICES ASSUME NEW t, t = [fio EXCEPT !.state = IF o = Local THEN "LEN_LSB" ELSE "UNINITIALIZED"]
               PROVE  t = Fields(IF o = Local THEN "LEN_LSB" ELSE "UNINITIALIZED",
                       fio.queue, fio.remote, fio.len, fio.pos, fio.crc, fio.cmp)
    BY <2>1
  <2> QED BY DEF Fields, IOs
<1>3. ASSUME fio.state = "LEN_LSB"
      PROVE  OctetTaken(fio, o) =
                    Fields("LEN_MSB", fio.queue, fio.remote, o, fio.pos, fio.crc, fio.cmp)
  <2>1. OctetTaken(fio, o) = [fio EXCEPT !.state = "LEN_MSB", !.len = o]
    BY <1>3 DEF OctetTaken
  <2> SUFFICES ASSUME NEW t, t = [fio EXCEPT !.state = "LEN_MSB", !.len = o]
               PROVE  t = Fields("LEN_MSB", fio.queue, fio.remote, o, fio.pos, fio.crc, fio.cmp)
    BY <2>1
  <2> QED BY DEF Fields, IOs
<1>4. ASSUME fio.state = "LEN_MSB"
      PROVE  OctetTaken(fio, o) =
                    Fields(IF MaxMessage < fio.len + 256 * o THEN "UNINITIALIZED" ELSE "PAYLOAD",
                       fio.queue, fio.remote, fio.len + 256 * o, 0, fio.crc, 0)
  <2>1. OctetTaken(fio, o) = [fio EXCEPT !.len = fio.len + 256 * o, !.pos = 0, !.cmp = 0,
                            !.state = IF MaxMessage < fio.len + 256 * o THEN "UNINITIALIZED" ELSE "PAYLOAD"]
    BY <1>4 DEF OctetTaken
  <2> SUFFICES ASSUME NEW t, t = [fio EXCEPT !.len = fio.len + 256 * o, !.pos = 0, !.cmp = 0,
                            !.state = IF MaxMessage < fio.len + 256 * o THEN "UNINITIALIZED" ELSE "PAYLOAD"]
               PROVE  t = Fields(IF MaxMessage < fio.len + 256 * o THEN "UNINITIALIZED" ELSE "PAYLOAD",
                       fio.queue, fio.remote, fio.len + 256 * o, 0, fio.crc, 0)
    BY <2>1
  <2> QED BY DEF Fields, IOs
<1>5. ASSUME fio.state = "CRC_LSB"
      PROVE  OctetTaken(fio, o) =
                    Fields("CRC_MSB", fio.queue, fio.remote, fio.len, fio.pos, o, fio.cmp)
  <2>1. OctetTaken(fio, o) = [fio EXCEPT !.state = "CRC_MSB", !.crc = o]
    BY <1>5 DEF OctetTaken
  <2> SUFFICES ASSUME NEW t, t = [fio EXCEPT !.state = "CRC_MSB", !.crc = o]
               PROVE  t = Fields("CRC_MSB", fio.queue, fio.remote, fio.len, fio.pos, o, fio.cmp)
    BY <2>1
  <2> QED BY DEF Fields, IOs
<1>6. ASSUME fio.state = "CRC_MSB"
      PROVE  OctetTaken(fio, o) =
                    Fields("UNINITIALIZED",
                       fio.queue, fio.remote, fio.len, fio.pos, fio.crc + 256 * o, fio.cmp)
  <2>1. OctetTaken(fio, o) = [fio EXCEPT !.state = "UNINITIALIZED", !.crc = @ + 256 * o]
    BY <1>6 DEF OctetTaken
  <2> SUFFICES ASSUME NEW t, t = [fio EXCEPT !.state = "UNINITIALIZED", !.crc = fio.crc + 256 * o]
               PROVE  t = Fields("UNINITIALIZED",
                       fio.queue, fio.remote, fio.len, fio.pos, fio.crc + 256 * o, fio.cmp)
    BY <2>1
  <2> QED BY DEF Fields, IOs
<1> QED BY <1>1, <1>2, <1>3, <1>4, <1>5, <1>6

LEMMA TakenIsIO ==
    ASSUME NEW fio, IsIO(fio), fio.state \in HeaderStates, NEW o \in Octets
    PROVE  IsIO(OctetTaken(fio, o))
<1> DEFINE t == OctetTaken(fio, o)
<1>1. /\ fio \in IOs /\ Len(fio.queue) < ReadBuffer
      /\ fio.len \in Nat /\ fio.crc \in Nat /\ fio.queue \in Seq(Octets)
      /\ fio.remote \in Octets /\ fio.len \in Crcs /\ fio.crc \in Crcs /\ fio.cmp \in Crcs
      /\ fio.pos \in Nat
      /\ fio.state = "LEN_MSB" => fio.len < 256
      /\ fio.state = "CRC_MSB" => fio.crc < 256
      /\ fio.state \in {"PAYLOAD", "CRC_LSB", "CRC_MSB"} => fio.len <= MaxMessage
  BY DEF IsIO, IOs, Crcs
<1>2. o \in Nat /\ o < 256 /\ o \in Crcs
  BY OctetsIs DEF Crcs
<1>3. 0 \in Crcs
  BY DEF Crcs
<1>4. CASE fio.state = "SRC_ADDR"
  <2>1. t = Fields("DST_ADDR", fio.queue, o, fio.len, fio.pos, fio.crc, fio.cmp)
    BY <1>1, <1>4, OctetTakenIs
  <2> HIDE DEF t
  <2> QED BY <1>1, <2>1 DEF IsIO, IOs, States, t, Fields
<1>5. CASE fio.state = "DST_ADDR"
  <2> DEFINE s == IF o = Local THEN "LEN_LSB" ELSE "UNINITIALIZED"
  <2>1. t = Fields(s, fio.queue, fio.remote, fio.len, fio.pos, fio.crc, fio.cmp)
    BY <1>1, <1>5, OctetTakenIs
  <2>2. s \in {"LEN_LSB", "UNINITIALIZED"}
    OBVIOUS
  <2> HIDE DEF s, t
  <2> QED BY <1>1, <2>1, <2>2 DEF IsIO, IOs, States, t, Fields
<1>6. CASE fio.state = "LEN_LSB"
  <2>1. t = Fields("LEN_MSB", fio.queue, fio.remote, o, fio.pos, fio.crc, fio.cmp)
    BY <1>1, <1>6, OctetTakenIs
  <2> HIDE DEF t
  <2> QED BY <1>1, <1>2, <2>1 DEF IsIO, IOs, States, t, Fields
<1>7. CASE fio.state = "LEN_MSB"
  <2> DEFINE n == fio.len + 256 * o
             s == IF MaxMessage < n THEN "UNINITIALIZED" ELSE "PAYLOAD"
  <2>1. t = Fields(s, fio.queue, fio.remote, n, 0, fio.crc, 0)
    BY <1>1, <1>7, OctetTakenIs
  <2>2. n \in Crcs /\ n \in Nat
    BY <1>1, <1>2, <1>7 DEF Crcs
  <2> HIDE DEF n
  <2>3. s = "UNINITIALIZED" \/ (s = "PAYLOAD" /\ n <= MaxMessage)
    BY <2>2, FrameReaderAssumption
  <2> HIDE DEF s, t
  <2>4. t \in IOs
    BY <1>1, <1>3, <2>1, <2>2, <2>3 DEF IOs, States, Fields
  <2>5. t.state = s /\ t.len = n /\ t.pos = 0 /\ t.queue = fio.queue
    BY <2>1 DEF Fields
  <2>6. IsIO(t)
    BY <1>1, <2>2, <2>3, <2>4, <2>5 DEF IsIO
  <2> QED BY <2>6 DEF t
<1>8. CASE fio.state = "CRC_LSB"
  <2>1. t = Fields("CRC_MSB", fio.queue, fio.remote, fio.len, fio.pos, o, fio.cmp)
    BY <1>1, <1>8, OctetTakenIs
  <2> HIDE DEF t
  <2> QED BY <1>1, <1>2, <1>8, <2>1 DEF IsIO, IOs, States, t, Fields
<1>9. CASE fio.state = "CRC_MSB"
  <2> DEFINE n == fio.crc + 256 * o
  <2>1. t = Fields("UNINITIALIZED", fio.queue, fio.remote, fio.len, fio.pos, n, fio.cmp)
    BY <1>1, <1>9, OctetTakenIs
  <2>2. n \in Crcs
    BY <1>1, <1>2, <1>9 DEF Crcs
  <2> HIDE DEF n, t
  <2> QED BY <1>1, <2>1, <2>2 DEF IsIO, IOs, States, t, Fields
<1> QED BY <1>4, <1>5, <1>6, <1>7, <1>8, <1>9 DEF HeaderStates

\* Another queue and another state that says nothing of the rest.
LEMMA OtherQueueIsIO ==
    ASSUME NEW fio, IsIO(fio), NEW q \in Seq(Octets), Len(q) < ReadBuffer
    PROVE  /\ IsIO([fio EXCEPT !.queue = q])
           /\ IsIO([fio EXCEPT !.state = "SRC_ADDR", !.queue = q])
           /\ IsIO([fio EXCEPT !.state = "SRC_ADDR"])
           /\ fio.state = "PAYLOAD" => IsIO([fio EXCEPT !.state = "CRC_LSB"])
<1> USE DEF IsIO, IOs, States
<1>1. IsIO([fio EXCEPT !.queue = q])
  <2> SUFFICES ASSUME NEW t, t = [fio EXCEPT !.queue = q] PROVE IsIO(t)
    OBVIOUS
  <2>1. t = [state |-> fio.state, queue |-> q, remote |-> fio.remote, len |-> fio.len,
             pos |-> fio.pos, crc |-> fio.crc, cmp |-> fio.cmp]
    OBVIOUS
  <2> QED BY <2>1
<1>2. IsIO([fio EXCEPT !.state = "SRC_ADDR", !.queue = q])
  <2> SUFFICES ASSUME NEW t, t = [fio EXCEPT !.state = "SRC_ADDR", !.queue = q] PROVE IsIO(t)
    OBVIOUS
  <2>1. t = [state |-> "SRC_ADDR", queue |-> q, remote |-> fio.remote, len |-> fio.len,
             pos |-> fio.pos, crc |-> fio.crc, cmp |-> fio.cmp]
    OBVIOUS
  <2> QED BY <2>1
<1>3. IsIO([fio EXCEPT !.state = "SRC_ADDR"])
  <2> SUFFICES ASSUME NEW t, t = [fio EXCEPT !.state = "SRC_ADDR"] PROVE IsIO(t)
    OBVIOUS
  <2>1. t = [state |-> "SRC_ADDR", queue |-> fio.queue, remote |-> fio.remote, len |-> fio.len,
             pos |-> fio.pos, crc |-> fio.crc, cmp |-> fio.cmp]
    OBVIOUS
  <2> QED BY <2>1
<1>4. ASSUME fio.state = "PAYLOAD" PROVE IsIO([fio EXCEPT !.state = "CRC_LSB"])
  <2> SUFFICES ASSUME NEW t, t = [fio EXCEPT !.state = "CRC_LSB"] PROVE IsIO(t)
    OBVIOUS
  <2>1. t = [state |-> "CRC_LSB", queue |-> fio.queue, remote |-> fio.remote, len |-> fio.len,
             pos |-> fio.pos, crc |-> fio.crc, cmp |-> fio.cmp]
    OBVIOUS
  <2> QED BY <1>4, <2>1
<1> QED BY <1>1, <1>2, <1>3, <1>4

LEMMA PortIs ==
    ASSUME ReaderTypes, NEW p \in Ports
    PROVE  /\ IsIO(framing_io[p]) /\ framing_io[p] \in IOs
           /\ framing_io[p].queue \in Seq(Octets) /\ Len(framing_io[p].queue) < ReadBuffer
           /\ framing_io[p].pos \in Nat /\ framing_io[p].len \in Nat
           /\ line[p] \in Seq(Octets)
           /\ ReadBuffer \in Nat /\ ReadBuffer >= 2
           /\ p # NoPort
BY FrameReaderAssumption DEF ReaderTypes, IsIO, IOs, Crcs

LEMMA SetIs ==
    ASSUME ReaderTypes, NEW p \in Ports, NEW port, IsIO(port), Set(p, port)
    PROVE  /\ line' \in [Ports -> Seq(Octets)]
           /\ framing_io' \in [Ports -> IOs]
           /\ \A x \in Ports : IsIO(framing_io'[x])
<1>1. framing_io' = [framing_io EXCEPT ![p] = port] /\ line' = line
  BY DEF Set
<1>2. line[p] \in Seq(Octets)
  BY PortIs
<1> QED BY <1>1, <1>2, PortChanged

LEMMA TypesCall == ASSUME ReaderTypes, NEW p \in Ports, Call(p) PROVE ReaderTypes'
<1> DEFINE q == framing_io[p].queue
<1>1. q \in Seq(Octets) /\ Len(q) < ReadBuffer /\ p # NoPort /\ IsIO(framing_io[p])
  BY PortIs
<1>2. /\ line' \in [Ports -> Seq(Octets)]
      /\ framing_io' \in [Ports -> IOs]
      /\ \A x \in Ports : IsIO(framing_io'[x])
  <2>1. CASE q # << >>
    <3>1. framing_io' = framing_io /\ line' = line
      BY <2>1 DEF Call
    <3> QED BY <3>1 DEF ReaderTypes
  <2>2. CASE q = << >>
    <3>1. PICK n \in Readable(p, q, 5) : ReadTo(p, n, framing_io[p], q)
      BY <2>2 DEF Call
    <3> HIDE DEF q
    <3> QED BY <1>1, <3>1, ReadIs
  <2> QED BY <2>1, <2>2
<1>3. active' \in Ports \cup {NoPort} /\ script' = script /\ buf' = buf /\ delivered' = delivered
  BY DEF Call
<1>4. late' \in BOOLEAN /\ (active' = NoPort => ~late')
  BY DEF Call, Timed, ReaderTypes
<1> QED BY <1>2, <1>3, <1>4 DEF ReaderTypes

LEMMA TypesFindBegin == ASSUME ReaderTypes, NEW p \in Ports, FindBegin(p) PROVE ReaderTypes'
<1> DEFINE q == framing_io[p].queue
           i == BeginIn(q)
<1>1. q \in Seq(Octets) /\ Len(q) < ReadBuffer /\ p # NoPort /\ IsIO(framing_io[p])
      /\ ReadBuffer \in Nat /\ ReadBuffer >= 2
  BY PortIs
<1>2. i \in Nat
  BY <1>1, BeginInIs
<1>3. /\ line' \in [Ports -> Seq(Octets)]
      /\ framing_io' \in [Ports -> IOs]
      /\ \A x \in Ports : IsIO(framing_io'[x])
  <2>1. CASE i > 0
    <3> DEFINE t == SubSeq(q, i + 1, Len(q))
    <3>1. Set(p, [framing_io[p] EXCEPT !.state = "SRC_ADDR", !.queue = t])
      BY <2>1 DEF FindBegin, BeginIn
    <3>2. t \in Seq(Octets) /\ Len(t) <= Len(q)
      <4> HIDE DEF i, q
      <4>1. t \in Seq(Octets) /\ Len(t) = IF i <= Len(q) THEN Len(q) - i ELSE 0
        BY <1>1, <1>2, PartIs
      <4> DEFINE k == Len(q)
      <4>2. k \in Nat
        BY <1>1
      <4> HIDE DEF k
      <4>3. (IF i <= k THEN k - i ELSE 0) <= k
        BY <1>2, <4>2
      <4> QED BY <4>1, <4>3 DEF k
    <3>3. Len(t) < ReadBuffer
      <4> HIDE DEF t, q
      <4>1. Len(t) \in Nat /\ Len(q) \in Nat
        BY <1>1, <3>2
      <4> QED BY <1>1, <3>2, <4>1
    <3> HIDE DEF t
    <3>4. IsIO([framing_io[p] EXCEPT !.state = "SRC_ADDR", !.queue = t])
      BY <1>1, <3>2, <3>3, OtherQueueIsIO
    <3> QED BY <3>1, <3>4, SetIs
  <2>2. CASE ~(i > 0)
    <3>1. Set(p, [framing_io[p] EXCEPT !.queue = << >>])
      BY <2>2 DEF FindBegin, BeginIn
    <3>2. << >> \in Seq(Octets) /\ Len(<< >>) < ReadBuffer
      BY <1>1
    <3>3. IsIO([framing_io[p] EXCEPT !.queue = << >>])
      BY <1>1, <3>2, OtherQueueIsIO
    <3> QED BY <3>1, <3>3, SetIs
  <2> QED BY <2>1, <2>2
<1>4. active' \in Ports \cup {NoPort} /\ script' = script /\ buf' = buf /\ delivered' = delivered
  BY DEF FindBegin, ReaderTypes
<1>5. late' \in BOOLEAN /\ (active' = NoPort => ~late')
  BY DEF FindBegin, EndOrKeep, ReaderTypes
<1> QED BY <1>3, <1>4, <1>5 DEF ReaderTypes

LEMMA TypesReadOctet == ASSUME ReaderTypes, NEW p \in Ports, ReadOctet(p) PROVE ReaderTypes'
<1> DEFINE got == get_next_octet(framing_io[p].queue)
           fio == [framing_io[p] EXCEPT !.queue = got.rest]
           taken == OctetTaken(fio, got.octet)
<1>1. /\ framing_io[p].queue \in Seq(Octets) /\ Len(framing_io[p].queue) < ReadBuffer
      /\ IsIO(framing_io[p]) /\ framing_io[p] \in IOs /\ ReadBuffer \in Nat
  BY PortIs
<1>2. got.octet \in Octets /\ got.rest \in Seq(Octets) /\ Len(got.rest) <= Len(framing_io[p].queue)
  BY <1>1, GotIs
<1>3. Len(got.rest) < ReadBuffer
  <2>1. Len(got.rest) \in Nat /\ Len(framing_io[p].queue) \in Nat
    BY <1>1, <1>2
  <2> QED BY <1>1, <1>2, <2>1
<1>4. /\ framing_io[p].state \in HeaderStates /\ Set(p, taken) /\ script' = script /\ buf' = buf
      /\ active' = (IF EndsCall(framing_io[p], taken) THEN NoPort ELSE p)
      /\ IF framing_io[p].state = "CRC_MSB" THEN Deliver(p, taken) ELSE UNCHANGED delivered
      /\ EndOrKeep
  BY WantedIs DEF ReadOctet
<1> HIDE DEF got
<1>5. IsIO(fio) /\ fio.state = framing_io[p].state /\ fio \in IOs
      /\ fio.len = framing_io[p].len /\ fio.remote = framing_io[p].remote
  <2>1. IsIO(fio)
    BY <1>1, <1>2, <1>3, OtherQueueIsIO
  <2> QED BY <1>1, <2>1 DEF IOs, IsIO
<1> HIDE DEF fio
<1>6. IsIO(taken)
  BY <1>2, <1>4, <1>5, TakenIsIO
<1>7. /\ line' \in [Ports -> Seq(Octets)]
      /\ framing_io' \in [Ports -> IOs]
      /\ \A x \in Ports : IsIO(framing_io'[x])
  <2> HIDE DEF taken
  <2> QED BY <1>4, <1>6, SetIs
<1>8. delivered' \in [Ports -> Seq([remote : Octets, msg : Seq(Octets)])]
  <2>1. CASE framing_io[p].state # "CRC_MSB"
    BY <1>4, <2>1 DEF ReaderTypes
  <2>2. CASE framing_io[p].state = "CRC_MSB"
    <3>1. taken = Fields("UNINITIALIZED", fio.queue, fio.remote, fio.len, fio.pos,
                     fio.crc + 256 * got.octet, fio.cmp)
      BY <1>5, <2>2, OctetTakenIs
    <3>2. taken.len = fio.len /\ taken.remote = fio.remote
      BY <3>1 DEF Fields
    <3> HIDE DEF taken
    <3>3. taken.remote \in Octets /\ taken.len \in Nat /\ taken.len <= MaxMessage
      BY <1>1, <1>5, <2>2, <3>2 DEF IsIO, IOs, Crcs
    <3>4. SubSeq(buf, 1, taken.len) \in Seq(Octets)
      <4>1. \A i \in 1 .. taken.len : buf[i] \in Octets
        BY <3>3, FrameReaderAssumption DEF ReaderTypes
      <4> QED BY <3>3, <4>1, SubSeqProperties
    <3> DEFINE R == [remote : Octets, msg : Seq(Octets)]
               d == [remote |-> taken.remote, msg |-> SubSeq(buf, 1, taken.len)]
    <3>5. d \in R
      BY <3>3, <3>4
    <3>6. delivered' = delivered \/ delivered' = [delivered EXCEPT ![p] = Append(@, d)]
      BY <1>4, <2>2 DEF Deliver
    <3>7. delivered \in [Ports -> Seq(R)]
      BY DEF ReaderTypes
    <3> HIDE DEF d, R
    <3>8. delivered' \in [Ports -> Seq(R)]
      <4>1. delivered[p] \in Seq(R)
        BY <3>7
      <4> DEFINE e == Append(delivered[p], d)
      <4>2. e \in Seq(R)
        BY <3>5, <4>1
      <4>3. delivered' = delivered \/ delivered' = [delivered EXCEPT ![p] = e]
        BY <3>6
      <4> HIDE DEF e
      <4> QED BY <3>7, <4>2, <4>3
    <3> QED BY <3>8 DEF R
  <2> QED BY <2>1, <2>2
<1>9. active' \in Ports \cup {NoPort}
  BY <1>4
<1>10. late' \in BOOLEAN /\ (active' = NoPort => ~late')
  BY <1>4 DEF EndOrKeep, ReaderTypes
<1> QED BY <1>4, <1>7, <1>8, <1>9, <1>10 DEF ReaderTypes

LEMMA TypesMissOctet == ASSUME ReaderTypes, NEW p \in Ports, MissOctet(p) PROVE ReaderTypes'
<1> DEFINE got == get_next_octet(framing_io[p].queue)
           max == Wanted[framing_io[p].state]
<1>1. /\ framing_io[p].queue \in Seq(Octets) /\ Len(framing_io[p].queue) < ReadBuffer
      /\ IsIO(framing_io[p]) /\ framing_io[p] \in IOs /\ ReadBuffer \in Nat
  BY PortIs
<1>2. got.octet \in Octets /\ got.rest \in Seq(Octets) /\ Len(got.rest) <= Len(framing_io[p].queue)
  BY <1>1, GotIs
<1>3. Len(got.rest) < ReadBuffer
  <2>1. Len(got.rest) \in Nat /\ Len(framing_io[p].queue) \in Nat
    BY <1>1, <1>2
  <2> QED BY <1>1, <1>2, <2>1
<1>4. PICK n \in Readable(p, got.rest, max) :
        LET restart == n = 0 /\ got.octet = Begin
        IN /\ ReadTo(p, n, [framing_io[p] EXCEPT !.state = IF restart THEN "SRC_ADDR" ELSE @],
                     got.rest)
           /\ active' = IF n > 0 \/ restart THEN p ELSE NoPort
  BY DEF MissOctet
<1>5. max \in Nat
  <2>1. framing_io[p].state \in HeaderStates
    BY WantedIs DEF MissOctet
  <2> QED BY <2>1, WantedIs
<1> DEFINE fio == [framing_io[p] EXCEPT !.state =
                      IF n = 0 /\ got.octet = Begin THEN "SRC_ADDR" ELSE @]
<1>6. ReadTo(p, n, fio, got.rest) /\ active' \in Ports \cup {NoPort}
  BY <1>4
<1> HIDE DEF max
<1>7. IsIO(fio)
  <2>1. CASE n = 0 /\ got.octet = Begin
    <3>1. fio = [framing_io[p] EXCEPT !.state = "SRC_ADDR"]
      BY <2>1
    <3> HIDE DEF fio
    <3> QED BY <1>1, <3>1, OtherQueueIsIO
  <2>2. CASE ~(n = 0 /\ got.octet = Begin)
    <3> HIDE DEF got
    <3>1. fio = framing_io[p]
      BY <1>1, <2>2 DEF IOs
    <3> HIDE DEF fio
    <3> QED BY <1>1, <3>1
  <2> QED BY <2>1, <2>2
<1> HIDE DEF fio, got
<1>8. /\ line' \in [Ports -> Seq(Octets)]
      /\ framing_io' \in [Ports -> IOs]
      /\ \A x \in Ports : IsIO(framing_io'[x])
  BY <1>2, <1>3, <1>5, <1>6, <1>7, ReadIs
<1>9. Timed /\ script' = script /\ buf' = buf /\ delivered' = delivered
  BY DEF MissOctet
<1>10. late' \in BOOLEAN /\ (active' = NoPort => ~late')
  BY <1>9 DEF Timed, ReaderTypes
<1> QED BY <1>6, <1>8, <1>9, <1>10 DEF ReaderTypes

LEMMA TypesReadPayload == ASSUME ReaderTypes, NEW p \in Ports, ReadPayload(p) PROVE ReaderTypes'
<1> DEFINE got == get_next_octet(framing_io[p].queue)
           c == update_crc(framing_io[p].cmp, got.octet)
           port == [framing_io[p] EXCEPT !.queue = got.rest, !.pos = @ + 1, !.cmp = c]
<1>1. /\ framing_io[p].queue \in Seq(Octets) /\ Len(framing_io[p].queue) < ReadBuffer
      /\ IsIO(framing_io[p]) /\ framing_io[p] \in IOs /\ ReadBuffer \in Nat
  BY PortIs
<1>2. got.octet \in Octets /\ got.rest \in Seq(Octets) /\ Len(got.rest) <= Len(framing_io[p].queue)
  BY <1>1, GotIs
<1>3. Len(got.rest) < ReadBuffer
  <2>1. Len(got.rest) \in Nat /\ Len(framing_io[p].queue) \in Nat
    BY <1>1, <1>2
  <2> QED BY <1>1, <1>2, <2>1
<1>4. /\ framing_io[p].state = "PAYLOAD" /\ framing_io[p].pos < framing_io[p].len
      /\ buf' = [buf EXCEPT ![framing_io[p].pos + 1] = got.octet]
      /\ script' = script /\ active' = active /\ late' = late /\ delivered' = delivered
  BY DEF ReadPayload
<1>5. Set(p, port)
  BY DEF ReadPayload
<1>6. c \in Crcs
  BY <1>1, <1>2, update_crcIs DEF IOs
<1>7. buf' \in [1 .. MaxMessage -> Octets]
  BY <1>2, <1>4 DEF ReaderTypes
<1> HIDE DEF c, got
<1>8. IsIO(port)
  <2> SUFFICES ASSUME NEW t, t = port PROVE IsIO(t)
    OBVIOUS
  <2>1. t = Fields("PAYLOAD", got.rest, framing_io[p].remote, framing_io[p].len,
               framing_io[p].pos + 1, framing_io[p].crc, c)
    BY <1>1, <1>4 DEF IOs, Fields
  <2>2. framing_io[p].pos \in Nat /\ framing_io[p].len \in Nat /\ framing_io[p].len <= MaxMessage
    BY <1>1, <1>4 DEF IsIO, IOs, Crcs
  <2>3. framing_io[p].pos + 1 \in Nat /\ framing_io[p].pos + 1 <= framing_io[p].len
    BY <1>4, <2>2
  <2> HIDE DEF port
  <2>4. t \in IOs
    BY <1>1, <1>2, <1>6, <2>1, <2>3 DEF IOs, States, Fields
  <2>5. t.state = "PAYLOAD" /\ t.queue = got.rest /\ t.pos = framing_io[p].pos + 1
        /\ t.len = framing_io[p].len
    BY <2>1 DEF Fields
  <2> QED BY <1>3, <2>2, <2>3, <2>4, <2>5 DEF IsIO
<1> HIDE DEF port
<1>9. /\ line' \in [Ports -> Seq(Octets)]
      /\ framing_io' \in [Ports -> IOs]
      /\ \A x \in Ports : IsIO(framing_io'[x])
  BY <1>5, <1>8, SetIs
<1> QED BY <1>4, <1>7, <1>9 DEF ReaderTypes

LEMMA TypesMissPayload == ASSUME ReaderTypes, NEW p \in Ports, MissPayload(p) PROVE ReaderTypes'
<1> DEFINE got == get_next_octet(framing_io[p].queue)
           max == framing_io[p].len - framing_io[p].pos + 2
           port == [framing_io[p] EXCEPT !.state = "SRC_ADDR", !.queue = got.rest]
<1>1. /\ framing_io[p].queue \in Seq(Octets) /\ Len(framing_io[p].queue) < ReadBuffer
      /\ IsIO(framing_io[p]) /\ framing_io[p] \in IOs /\ ReadBuffer \in Nat
      /\ framing_io[p].pos \in Nat /\ framing_io[p].len \in Nat
  BY PortIs
<1>2. got.octet \in Octets /\ got.rest \in Seq(Octets) /\ Len(got.rest) <= Len(framing_io[p].queue)
  BY <1>1, GotIs
<1>3. Len(got.rest) < ReadBuffer
  <2>1. Len(got.rest) \in Nat /\ Len(framing_io[p].queue) \in Nat
    BY <1>1, <1>2
  <2> QED BY <1>1, <1>2, <2>1
<1>4. framing_io[p].pos < framing_io[p].len /\ script' = script /\ buf' = buf /\ delivered' = delivered
  BY DEF MissPayload
<1>5. max \in Nat
  BY <1>1, <1>4
<1>6. CASE got.octet = Begin
  <2>1. Set(p, port) /\ active' = active /\ late' = late
    BY <1>6 DEF MissPayload
  <2> HIDE DEF got
  <2>2. IsIO(port)
    BY <1>1, <1>2, <1>3, OtherQueueIsIO
  <2> HIDE DEF port
  <2>3. /\ line' \in [Ports -> Seq(Octets)]
        /\ framing_io' \in [Ports -> IOs]
        /\ \A x \in Ports : IsIO(framing_io'[x])
    BY <2>1, <2>2, SetIs
  <2> QED BY <1>4, <2>1, <2>3 DEF ReaderTypes
<1>7. CASE got.octet # Begin
  <2>1. PICK n \in Readable(p, got.rest, max) :
          /\ ReadTo(p, n, framing_io[p], got.rest)
          /\ active' = IF n > 0 THEN p ELSE NoPort
          /\ Timed
    BY <1>7 DEF MissPayload
  <2> HIDE DEF got, max
  <2>2. /\ line' \in [Ports -> Seq(Octets)]
        /\ framing_io' \in [Ports -> IOs]
        /\ \A x \in Ports : IsIO(framing_io'[x])
    BY <1>1, <1>2, <1>3, <1>5, <2>1, ReadIs
  <2>3. active' \in Ports \cup {NoPort}
    BY <2>1
  <2>4. late' \in BOOLEAN /\ (active' = NoPort => ~late')
    BY <2>1 DEF Timed, ReaderTypes
  <2> QED BY <1>4, <2>2, <2>3, <2>4 DEF ReaderTypes
<1> QED BY <1>6, <1>7

LEMMA TypesEndPayload == ASSUME ReaderTypes, NEW p \in Ports, EndPayload(p) PROVE ReaderTypes'
<1>1. /\ Set(p, [framing_io[p] EXCEPT !.state = "CRC_LSB"]) /\ framing_io[p].state = "PAYLOAD"
      /\ script' = script /\ buf' = buf /\ active' = active /\ late' = late /\ delivered' = delivered
  BY DEF EndPayload
<1>2. IsIO([framing_io[p] EXCEPT !.state = "CRC_LSB"])
  <2>1. /\ IsIO(framing_io[p]) /\ framing_io[p].queue \in Seq(Octets)
        /\ Len(framing_io[p].queue) < ReadBuffer
    BY PortIs
  <2> QED BY <1>1, <2>1, OtherQueueIsIO
<1>3. /\ line' \in [Ports -> Seq(Octets)]
      /\ framing_io' \in [Ports -> IOs]
      /\ \A x \in Ports : IsIO(framing_io'[x])
  BY <1>1, <1>2, SetIs
<1> QED BY <1>1, <1>3 DEF ReaderTypes

\* The frames of messages, from each of them on.
FramesFrom(msgs) == Onwards([i \in DOMAIN msgs |-> Frame(Remote, Local, msgs[i])])

\* A frame of the client: the begin flag, and the escaped octets of its body from
\* each of them on.
Incoming(m) == EscapedFrom(Body(Remote, Local, m))

LEMMA IncomingIs ==
    ASSUME NEW m \in Seq(Octets)
    PROVE  /\ Body(Remote, Local, m) \in Seq(Octets)
           /\ Len(Body(Remote, Local, m)) = Len(m) + 6
           /\ \A i \in 1 .. Len(m) + 7 : Incoming(m)[i] \in Seq(Octets)
           /\ Incoming(m)[Len(m) + 7] = << >>
           /\ \A i \in 1 .. Len(m) + 6 :
                 /\ Body(Remote, Local, m)[i] \in Octets
                 /\ Incoming(m)[i] =
                       Cat(EscapeOctet(Body(Remote, Local, m)[i]), Incoming(m)[i + 1])
           /\ Frame(Remote, Local, m) = Cat(<<Begin>>, Incoming(m)[1])
           /\ Frame(Remote, Local, m) \in Seq(Octets)
<1> DEFINE b == Body(Remote, Local, m)
           r == Incoming(m)
<1>1. b \in Seq(Octets) /\ Len(b) = Len(m) + 6
  <2>1. Local \in Octets /\ Remote \in Octets
    BY OctetsIs DEF Local, Remote
  <2> QED BY <2>1, BodyIs
<1>2. Frame(Remote, Local, m) = Cat(<<Begin>>, Escape(b))
  BY DEF Frame, Cat
<1>3. r = EscapedFrom(b)
  BY DEF Incoming
<1> HIDE DEF b, r
<1>4. /\ r \in [1 .. Len(b) + 1 -> Seq(Octets)] /\ r[Len(b) + 1] = << >>
      /\ \A i \in 1 .. Len(b) : r[i] = Cat(EscapeOctet(b[i]), r[i + 1])
      /\ Escape(b) = r[1]
  BY <1>1, <1>3, EscapedFromIs
<1>5. Len(b) + 1 = Len(m) + 7
  BY <1>1
<1>6. \A i \in 1 .. Len(m) + 7 : r[i] \in Seq(Octets)
  BY <1>4, <1>5
<1>7. Cat(<<Begin>>, r[1]) \in Seq(Octets)
  <2>1. <<Begin>> \in Seq(Octets)
    <3>1. Begin \in Octets
      BY OctetsIs DEF Begin
    <3> QED BY <3>1
  <2>2. r[1] \in Seq(Octets)
    <3>1. 1 \in 1 .. Len(m) + 7
      OBVIOUS
    <3> QED BY <1>6, <3>1
  <2> QED BY <2>1, <2>2, CatIs
<1>8. \A i \in 1 .. Len(m) + 6 : b[i] \in Octets /\ r[i] = Cat(EscapeOctet(b[i]), r[i + 1])
  BY <1>1, <1>4
<1> QED BY <1>1, <1>2, <1>4, <1>5, <1>6, <1>7, <1>8 DEF b, r

LEMMA FramesFromIs ==
    ASSUME NEW msgs \in Seq(Seq(Octets))
    PROVE  /\ FramesFrom(msgs) \in [1 .. Len(msgs) + 1 -> Seq(Octets)]
           /\ FramesFrom(msgs)[Len(msgs) + 1] = << >>
           /\ \A i \in 1 .. Len(msgs) :
                 FramesFrom(msgs)[i] = Cat(Frame(Remote, Local, msgs[i]), FramesFrom(msgs)[i + 1])
           /\ FlattenSeq([i \in DOMAIN msgs |-> Frame(Remote, Local, msgs[i])]) = FramesFrom(msgs)[1]
<1> DEFINE p == [i \in DOMAIN msgs |-> Frame(Remote, Local, msgs[i])]
<1>1. p \in Seq(Seq(Octets)) /\ Len(p) = Len(msgs)
      /\ \A i \in 1 .. Len(msgs) : p[i] = Frame(Remote, Local, msgs[i])
  <2>1. \A i \in 1 .. Len(msgs) : Frame(Remote, Local, msgs[i]) \in Seq(Octets)
    <3> SUFFICES ASSUME NEW i \in 1 .. Len(msgs) PROVE Frame(Remote, Local, msgs[i]) \in Seq(Octets)
      OBVIOUS
    <3> DEFINE m == msgs[i]
    <3>1. m \in Seq(Octets)
      OBVIOUS
    <3> HIDE DEF m
    <3>2. Frame(Remote, Local, m) \in Seq(Octets)
      BY <3>1, IncomingIs
    <3> QED BY <3>2 DEF m
  <2>2. DOMAIN msgs = 1 .. Len(msgs) /\ Len(msgs) \in Nat
    OBVIOUS
  <2> QED BY <2>1, <2>2
<1>2. FramesFrom(msgs) = Onwards(p)
  BY DEF FramesFrom
<1> HIDE DEF p
<1>3. FlattenSeq(p) = Onwards(p)[1]
  BY <1>1, FlattenIs
<1>4. /\ Onwards(p) \in [1 .. Len(p) + 1 -> Seq(Octets)]
      /\ Onwards(p)[Len(p) + 1] = << >>
      /\ \A i \in 1 .. Len(p) : Onwards(p)[i] = Cat(p[i], Onwards(p)[i + 1])
  BY <1>1, OnwardsIs DEF Cat
<1>5. \A i \in 1 .. Len(msgs) :
         FramesFrom(msgs)[i] = Cat(Frame(Remote, Local, msgs[i]), FramesFrom(msgs)[i + 1])
  BY <1>1, <1>2, <1>4
<1> QED BY <1>1, <1>2, <1>3, <1>4, <1>5 DEF p

LEMMA SequenceIs ==
    ASSUME NEW s \in Scripts
    PROVE  /\ s.msgs \in Seq(Seq(Octets))
           /\ Sequence(s) = Cat(s.noise, FramesFrom(s.msgs)[1])
           /\ Sequence(s) \in Seq(Octets)
           /\ s.noise = << >> => Sequence(s) = FramesFrom(s.msgs)[1]
<1>1. s.noise \in Seq(Octets) /\ s.msgs \in Seq(Seq(Octets))
  BY ScriptsAssumption
<1>2. Sequence(s) = Cat(s.noise, FramesFrom(s.msgs)[1])
  BY <1>1, FramesFromIs DEF Sequence, Cat
<1>3. FramesFrom(s.msgs)[1] \in Seq(Octets)
  <2>1. 1 \in 1 .. Len(s.msgs) + 1
    BY <1>1
  <2> QED BY <1>1, <2>1, FramesFromIs
<1>4. Sequence(s) \in Seq(Octets)
  BY <1>1, <1>2, <1>3, CatIs
<1>5. s.noise = << >> => Sequence(s) = FramesFrom(s.msgs)[1]
  BY <1>2, <1>3, CatEmpty
<1> QED BY <1>1, <1>2, <1>4, <1>5

LEMMA TypesInit == FrameReaderInit => ReaderTypes
<1> SUFFICES ASSUME FrameReaderInit PROVE ReaderTypes
  OBVIOUS
<1> USE DEF FrameReaderInit
<1>1. line \in [Ports -> Seq(Octets)]
  <2>1. \A p \in Ports : Sequence(script[p]) \in Seq(Octets)
    BY SequenceIs
  <2> QED BY <2>1
<1>2. 0 \in Octets /\ 0 \in Crcs /\ 0 \in Nat
  BY OctetsIs DEF Crcs
<1>3. IsIO(NewIO) /\ NewIO \in IOs
  <2>1. << >> \in Seq(Octets) /\ Len(<< >>) < ReadBuffer
    BY FrameReaderAssumption
  <2> QED BY <1>2, <2>1 DEF NewIO, IsIO, IOs, States
<1>4. buf \in [1 .. MaxMessage -> Octets]
  BY <1>2
<1>5. delivered \in [Ports -> Seq([remote : Octets, msg : Seq(Octets)])]
  <2> DEFINE R == [remote : Octets, msg : Seq(Octets)]
  <2> HIDE DEF R
  <2>1. delivered \in [Ports -> Seq(R)]
    OBVIOUS
  <2> QED BY <2>1 DEF R
<1> QED BY <1>1, <1>3, <1>4, <1>5 DEF ReaderTypes

LEMMA TypesStep == ReaderTypes /\ [FrameReaderNext]_frame_reader_vars => ReaderTypes'
<1> SUFFICES ASSUME ReaderTypes, [FrameReaderNext]_frame_reader_vars PROVE ReaderTypes'
  OBVIOUS
<1>1. CASE UNCHANGED frame_reader_vars
  BY <1>1 DEF frame_reader_vars, ReaderTypes
<1>2. ASSUME NEW p \in Ports, Call(p) \/ Turn(p) PROVE ReaderTypes'
  BY <1>2, TypesCall, TypesFindBegin, TypesReadOctet, TypesMissOctet, TypesReadPayload,
     TypesMissPayload, TypesEndPayload DEF Turn
<1> QED BY <1>1, <1>2 DEF FrameReaderNext

LEMMA ReaderTyped == FrameReaderSpec => []ReaderTypes
BY TypesInit, TypesStep, PTL DEF FrameReaderSpec

(* For any number of ports and whatever octets come in, however reads and  *)
(* calls cut them: the reader stays in its states, the read buffer holds,  *)
(* and the payload is never longer than the agent's buffer nor written     *)
(* behind it.                                                              *)
THEOREM ReaderStaysTyped == FrameReaderSpec => []FrameReaderTypeOK
<1>1. ReaderTypes => FrameReaderTypeOK
  <2> SUFFICES ASSUME ReaderTypes PROVE FrameReaderTypeOK
    OBVIOUS
  <2>1. Crcs = 0 .. UInt16Max
    <3>1. UInt16Max \in Nat /\ \A i \in Nat : i <= UInt16Max <=> i < 65536
      BY DEF UInt16Max
    <3>2. 0 .. UInt16Max = {i \in Nat : i <= UInt16Max}
      BY <3>1, IntervalIs
    <3> QED BY <3>1, <3>2 DEF Crcs
  <2>2. ASSUME NEW p \in Ports
        PROVE  /\ framing_io[p].state \in States
               /\ Len(framing_io[p].queue) < ReadBuffer
               /\ framing_io[p].state = "PAYLOAD" =>
                     framing_io[p].pos <= framing_io[p].len /\ framing_io[p].len <= MaxMessage
               /\ {framing_io[p].len, framing_io[p].crc, framing_io[p].cmp} \subseteq Crcs
    <3>1. IsIO(framing_io[p])
      BY DEF ReaderTypes
    <3> QED BY <3>1 DEF IsIO, IOs
  <2>3. /\ buf \in [1 .. MaxMessage -> Octets]
        /\ active \in Ports \cup {NoPort} /\ late \in BOOLEAN /\ (active = NoPort => ~late)
    BY DEF ReaderTypes
  <2> QED BY <2>1, <2>2, <2>3 DEF FrameReaderTypeOK
<1> QED BY <1>1, ReaderTyped, PTL

-----------------------------------------------------------------------------
(* read_framed_msg: on a clean line every message arrives                  *)

LEMMA SomeIs == \A S : \A s \in Seq(S) : (s # << >> <=> Len(s) >= 1) /\ Len(s) \in Nat
  OBVIOUS

LEMMA FirstOfCat ==
    ASSUME NEW S, NEW s \in Seq(S), NEW t \in Seq(S), s # << >>
    PROVE  /\ Head(Cat(s, t)) = Head(s) /\ Tail(Cat(s, t)) = Cat(Tail(s), t)
           /\ Cat(s, t) # << >>
<1> DEFINE u == Cat(s, t)
           v == Cat(Tail(s), t)
<1>1. u \in Seq(S) /\ Len(u) = Len(s) + Len(t) /\ Joins(u, s, t)
  BY CatIs, CatElements
<1>2. Tail(s) \in Seq(S) /\ Len(Tail(s)) = Len(s) - 1 /\ Len(s) >= 1 /\ Head(s) = s[1]
      /\ \A i \in 1 .. Len(s) - 1 : Tail(s)[i] = s[i + 1]
  OBVIOUS
<1>3. v \in Seq(S) /\ Joins(v, Tail(s), t)
  BY <1>2, CatIs, CatElements
<1> DEFINE n == Len(s)
           k == Len(t)
           w == Tail(s)
<1>4. n \in Nat /\ k \in Nat /\ n >= 1
  BY <1>2
<1>5. /\ Len(u) = n + k /\ \A i \in 1 .. n : u[i] = s[i] /\ \A j \in 1 .. k : u[n + j] = t[j]
  BY <1>1 DEF Joins
<1>6. \A j \in 1 .. k : u[n + j] = t[j]
  BY <1>1 DEF Joins
<1>7. /\ Len(v) = n - 1 + k /\ \A i \in 1 .. n - 1 : v[i] = w[i]
  BY <1>2, <1>3 DEF Joins
<1>8. \A j \in 1 .. k : v[n - 1 + j] = t[j]
  BY <1>2, <1>3 DEF Joins
<1>9. \A i \in 1 .. n - 1 : w[i] = s[i + 1]
  BY <1>2
<1> HIDE DEF u, v, n, k, w
<1>10. u # << >>
  <2>1. Len(u) # 0
    BY <1>1, <1>4, <1>5
  <2> QED BY <1>1, <2>1
<1>11. Head(u) = s[1]
  <2>1. Head(u) = u[1]
    BY <1>1, <1>10
  <2>2. 1 \in 1 .. n
    BY <1>4
  <2> QED BY <1>5, <2>1, <2>2
<1>12. Tail(u) = v
  <2>1. Tail(u) \in Seq(S) /\ Len(Tail(u)) = Len(u) - 1
        /\ \A i \in 1 .. Len(u) - 1 : Tail(u)[i] = u[i + 1]
    BY <1>1, <1>10, HeadTailProperties
  <2>2. Len(u) - 1 = n - 1 + k
    BY <1>4, <1>5
  <2>3. \A i \in 1 .. n - 1 + k : u[i + 1] = v[i]
    <3> SUFFICES ASSUME NEW i \in 1 .. n - 1 + k PROVE u[i + 1] = v[i]
      OBVIOUS
    <3>1. CASE i <= n - 1
      <4>1. i \in 1 .. n - 1 /\ i + 1 \in 1 .. n
        BY <1>4, <3>1
      <4> QED BY <1>5, <1>7, <1>9, <4>1
    <3>2. CASE ~(i <= n - 1)
      <4> DEFINE j == i - (n - 1)
      <4>1. j \in 1 .. k /\ n + j = i + 1 /\ n - 1 + j = i
        BY <1>4, <3>2
      <4> HIDE DEF j
      <4>2. u[n + j] = t[j] /\ v[n - 1 + j] = t[j]
        BY <1>6, <1>8, <4>1
      <4> QED BY <4>1, <4>2
    <3> QED BY <3>1, <3>2
  <2>4. Len(Tail(u)) = Len(v) /\ \A i \in 1 .. Len(v) : Tail(u)[i] = v[i]
    BY <1>7, <2>1, <2>2, <2>3
  <2> QED BY <1>3, <2>1, <2>4, SeqEqual
<1> QED BY <1>2, <1>10, <1>11, <1>12 DEF u, v

LEMMA EscapedIsSome ==
    ASSUME NEW o \in Octets
    PROVE  EscapeOctet(o) \in Seq(Octets) /\ EscapeOctet(o) # << >>
<1> DEFINE e == EscapeOctet(o)
           k == Len(e)
<1>1. e \in Seq(Octets) /\ k \in 1 .. 2
  BY EscapeOctetIs
<1> HIDE DEF k
<1>2. k >= 1
  BY <1>1
<1> HIDE DEF e
<1> QED BY <1>1, <1>2, SomeIs DEF e, k

\* The next octet of what comes in, when what comes in begins with the escaped
\* octet o, and q of it is in the read buffer.
LEMMA NextOctetIs ==
    ASSUME NEW o \in Octets, NEW q \in Seq(Octets), NEW l \in Seq(Octets), NEW t \in Seq(Octets),
           Cat(q, l) = Cat(EscapeOctet(o), t)
    PROVE  LET got == get_next_octet(q)
           IN  IF got.rv THEN got.octet = o /\ Cat(got.rest, l) = t
               ELSE got.octet # Begin /\ got.rest = q
<1> DEFINE e == EscapeOctet(o)
           got == get_next_octet(q)
<1>1. e \in Seq(Octets) /\ e # << >>
  BY EscapedIsSome
<1>2. CASE q = << >>
  <2>1. got = [rv |-> FALSE, octet |-> 0, rest |-> q]
    BY <1>2 DEF get_next_octet
  <2>2. 0 # Begin
    BY DEF Begin
  <2> HIDE DEF got
  <2>3. ~got.rv /\ got.octet = 0 /\ got.rest = q
    BY <2>1
  <2> QED BY <2>2, <2>3 DEF got
<1>3. CASE q # << >>
  <2>1. Head(q) = Head(e) /\ Cat(Tail(q), l) = Cat(Tail(e), t)
    <3> HIDE DEF e
    <3>1. Head(Cat(q, l)) = Head(q) /\ Tail(Cat(q, l)) = Cat(Tail(q), l)
      BY <1>3, FirstOfCat
    <3>2. Head(Cat(e, t)) = Head(e) /\ Tail(Cat(e, t)) = Cat(Tail(e), t)
      BY <1>1, FirstOfCat
    <3>3. Cat(q, l) = Cat(e, t)
      BY DEF e
    <3> QED BY <3>1, <3>2, <3>3
  <2>2. CASE o \notin {Begin, Esc}
    <3>1. e = <<o>>
      BY <2>2 DEF EscapeOctet
    <3>2. Head(e) = o /\ Tail(e) = << >>
      BY <3>1
    <3>3. Head(q) = o /\ o # Esc /\ o # Begin
      BY <2>1, <2>2, <3>2
    <3>4. got = [rv |-> TRUE, octet |-> o, rest |-> Tail(q)]
      BY <1>3, <3>3 DEF get_next_octet
    <3>5. Cat(Tail(q), l) = t
      BY <2>1, <3>2, CatEmpty
    <3> HIDE DEF got
    <3>6. got.rv /\ got.octet = o /\ got.rest = Tail(q)
      BY <3>4
    <3> QED BY <3>5, <3>6 DEF got
  <2>3. CASE o \in {Begin, Esc}
    <3> DEFINE x == Xor(o, XorFlag)
    <3>1. x \in {94, 93} /\ Xor(x, XorFlag) = o /\ x # Begin
      BY <2>3, XorOfFlags DEF Begin, Esc
    <3>2. x \in Octets
      BY <3>1, OctetsIs
    <3>3. e = <<Esc, x>>
      BY <2>3 DEF EscapeOctet
    <3> HIDE DEF x
    <3>4. Head(e) = Esc /\ Tail(e) = <<x>>
      BY <3>3
    <3>5. Head(q) = Esc
      BY <2>1, <3>4
    <3>6. CASE Len(q) = 1
      <4>1. got = [rv |-> FALSE, octet |-> 0, rest |-> q]
        BY <1>3, <3>5, <3>6 DEF get_next_octet
      <4>2. 0 # Begin
        BY DEF Begin
      <4> HIDE DEF got
      <4>3. ~got.rv /\ got.octet = 0 /\ got.rest = q
        BY <4>1
      <4> QED BY <4>2, <4>3 DEF got
    <3>7. CASE Len(q) # 1
      <4> DEFINE s == Tail(q)
      <4>1. /\ s \in Seq(Octets) /\ s # << >> /\ Head(s) = q[2]
            /\ Tail(s) = SubSeq(q, 3, Len(q))
        <5>1. Len(q) >= 2 /\ Len(q) \in Nat
          <6>1. Len(q) >= 1 /\ Len(q) \in Nat
            BY <1>3, SomeIs
          <6> DEFINE k == Len(q)
          <6>2. k >= 1 /\ k \in Nat /\ k # 1
            BY <3>7, <6>1
          <6> HIDE DEF k
          <6>3. k >= 2
            BY <6>2
          <6> QED BY <6>1, <6>3 DEF k
        <5>2. s = SubSeq(q, 2, Len(q))
          BY <1>3, TailIsSubSeq
        <5>3. 2 \in 1 .. Len(q) /\ Len(q) \in 2 .. Len(q) /\ 2 + 1 = 3
          BY <5>1
        <5>4. Head(SubSeq(q, 2, Len(q))) = q[2] /\ Tail(SubSeq(q, 2, Len(q))) = SubSeq(q, 2 + 1, Len(q))
          BY <5>3, HeadTailOfSubSeq
        <5>5. s \in Seq(Octets) /\ Len(s) = Len(q) - 1
          BY <1>3
        <5> HIDE DEF s
        <5>6. Len(s) >= 1
          BY <5>1, <5>5
        <5>7. s # << >>
          BY <5>5, <5>6, SomeIs
        <5> QED BY <5>2, <5>3, <5>4, <5>5, <5>7
      <4> HIDE DEF s
      <4>2. Cat(s, l) = Cat(<<x>>, t)
        BY <2>1, <3>4 DEF s
      <4> DEFINE y == <<x>>
      <4>3. y \in Seq(Octets) /\ y # << >> /\ Head(y) = x /\ Tail(y) = << >>
        BY <3>2
      <4> HIDE DEF y
      <4>4. Head(s) = x /\ Cat(Tail(s), l) = Cat(<< >>, t)
        <5>1. Head(Cat(s, l)) = Head(s) /\ Tail(Cat(s, l)) = Cat(Tail(s), l)
          BY <4>1, FirstOfCat
        <5>2. Head(Cat(y, t)) = Head(y) /\ Tail(Cat(y, t)) = Cat(Tail(y), t)
          BY <4>3, FirstOfCat
        <5>3. Cat(s, l) = Cat(y, t)
          BY <4>2 DEF y
        <5> QED BY <4>3, <5>1, <5>2, <5>3
      <4>5. q[2] = x /\ q[2] # Begin
        BY <3>1, <4>1, <4>4
      <4>6. got = [rv |-> TRUE, octet |-> Xor(q[2], XorFlag), rest |-> SubSeq(q, 3, Len(q))]
        BY <1>3, <3>5, <3>7, <4>5 DEF get_next_octet
      <4>7. Cat(SubSeq(q, 3, Len(q)), l) = t
        BY <4>1, <4>4, CatEmpty
      <4> HIDE DEF got
      <4>8. got.rv /\ got.octet = Xor(q[2], XorFlag) /\ got.rest = SubSeq(q, 3, Len(q))
        BY <4>6
      <4> QED BY <3>1, <4>5, <4>7, <4>8 DEF got
    <3> QED BY <3>6, <3>7
  <2> QED BY <2>2, <2>3
<1> QED BY <1>2, <1>3

\* The reader is in the frame of m: the next octet of the body is the j-th, and
\* what was read of the others is in the FramingIO and in the buffer.
InFrame(port, m, j, b) ==
    /\ j \in 1 .. Len(m) + 6
    /\ port.state # "UNINITIALIZED"
    /\ port.state = "SRC_ADDR" => j = 1
    /\ port.state # "SRC_ADDR" => port.remote = Remote
    /\ port.state = "DST_ADDR" => j = 2
    /\ port.state = "LEN_LSB" => j = 3
    /\ port.state = "LEN_MSB" => j = 4 /\ port.len = Low(Len(m))
    /\ port.state \in {"PAYLOAD", "CRC_LSB", "CRC_MSB"} => port.len = Len(m)
    /\ port.state = "PAYLOAD" => /\ j = port.pos + 5 /\ port.pos <= Len(m)
                               /\ port.cmp = CrcUpto(m)[port.pos]
                               /\ \A i \in 1 .. port.pos : b[i] = m[i]
    /\ port.state \in {"CRC_LSB", "CRC_MSB"} =>
          port.cmp = Crc(m) /\ \A i \in 1 .. Len(m) : b[i] = m[i]
    /\ port.state = "CRC_LSB" => j = Len(m) + 5
    /\ port.state = "CRC_MSB" => j = Len(m) + 6 /\ port.crc = Low(Crc(m))

\* k messages have arrived: those that were sent first, from the client.
Arrived(msgs, k, d) ==
    /\ k \in 0 .. Len(msgs) /\ Len(d) = k
    /\ \A i \in 1 .. k : d[i].msg = msgs[i] /\ d[i].remote = Remote

\* Between frames, what is still to be read (s) are the next frames; in a frame,
\* it is the rest of this one and the next.
Between(msgs, k, port, s) ==
    port.state = "UNINITIALIZED" /\ s = FramesFrom(msgs)[k + 1]

Within(msgs, k, port, s, b) ==
    /\ k < Len(msgs)
    /\ \E j \in 1 .. Len(msgs[k + 1]) + 6 :
          /\ InFrame(port, msgs[k + 1], j, b)
          /\ s = Cat(Incoming(msgs[k + 1])[j], FramesFrom(msgs)[k + 2])

InStep(msgs, port, s, b, d) ==
    \E k \in 0 .. Len(msgs) :
        Arrived(msgs, k, d) /\ (Between(msgs, k, port, s) \/ Within(msgs, k, port, s, b))

\* What was sent on a port and not yet looked at.
Unread(p) == Cat(framing_io[p].queue, line[p])

\* On a line without noise the reader is in step with what was sent.
PortInStep(p) ==
    script[p].noise = << >> =>
        InStep(script[p].msgs, framing_io[p], Unread(p), buf, delivered[p])

\* The inductive invariant, for one port.
ReaderInStep == \A p \in Ports : PortInStep(p)


LEMMA LowAndHigh == \A n \in Nat : n < 65536 => Low(n) + 256 * High(n) = n
<1> SUFFICES ASSUME NEW n \in Nat, n < 65536 PROVE Low(n) + 256 * High(n) = n
  OBVIOUS
<1>1. n \div 256 \in Nat /\ n \div 256 < 256 /\ n = 256 * (n \div 256) + (n % 256)
  OBVIOUS
<1>2. (n \div 256) % 256 = n \div 256
  <2> DEFINE k == n \div 256
  <2>1. k \in Nat /\ k < 256
    BY <1>1
  <2> HIDE DEF k
  <2>2. k % 256 = k
    BY <2>1
  <2> QED BY <2>2 DEF k
<1> QED BY <1>1, <1>2 DEF Low, High

\* What InFrame says does not depend on the queue.
LEMMA OtherQueueInFrame ==
    ASSUME NEW port \in IOs, NEW m, NEW j, NEW b, NEW q, InFrame(port, m, j, b)
    PROVE  InFrame([port EXCEPT !.queue = q], m, j, b)
<1> DEFINE t == [port EXCEPT !.queue = q]
<1>1. /\ t.state = port.state /\ t.remote = port.remote /\ t.len = port.len /\ t.pos = port.pos
      /\ t.crc = port.crc /\ t.cmp = port.cmp
  BY DEF IOs
<1> HIDE DEF t
<1>2. InFrame(t, m, j, b)
  BY <1>1 DEF InFrame
<1> QED BY <1>2 DEF t

\* A message of which the length field can say the length, and for which the
\* agent has room.
Fits(m) == m \in Seq(Octets) /\ Len(m) >= 1 /\ Len(m) <= MaxMessage /\ Len(m) < 65536

\* A frame has been read to its end, and its message is in the buffer.
LastTaken(t, m, b) ==
    /\ t.state = "UNINITIALIZED" /\ t.cmp = t.crc
    /\ t.len = Len(m) /\ t.remote = Remote
    /\ \A i \in 1 .. Len(m) : b[i] = m[i]

LEMMA HeaderOctet ==
    ASSUME NEW m, Fits(m), NEW port \in IOs, port.state \in HeaderStates, NEW j, NEW b,
           InFrame(port, m, j, b), NEW o, o = Body(Remote, Local, m)[j]
    PROVE  /\ port.state # "CRC_MSB" =>
                 InFrame(OctetTaken(port, o), m, j + 1, b)
           /\ port.state = "CRC_MSB" =>
                 j = Len(m) + 6 /\ LastTaken(OctetTaken(port, o), m, b)
<1> DEFINE n == Len(m)
           t == OctetTaken(port, o)
           y == Body(Remote, Local, m)
<1>1. m \in Seq(Octets) /\ n \in Nat /\ n >= 1 /\ n <= MaxMessage /\ n < 65536 /\ MaxMessage \in Nat
  BY FrameReaderAssumption DEF Fits
<1>2. /\ y[1] = Remote /\ y[2] = Local /\ y[3] = Low(n) /\ y[4] = High(n)
      /\ y[n + 5] = Low(Crc(m)) /\ y[n + 6] = High(Crc(m)) /\ Crc(m) \in Crcs
  <2>1. Local \in Octets /\ Remote \in Octets
    BY OctetsIs DEF Local, Remote
  <2> QED BY <1>1, <2>1, BodyIs
<1>3. Crc(m) \in Nat /\ Crc(m) < 65536
  BY <1>2 DEF Crcs
<1>4. o = y[j]
  OBVIOUS
<1> HIDE DEF y, n
<1>5. CASE port.state = "SRC_ADDR"
  <2>1. j = 1 /\ o = Remote
    BY <1>2, <1>4, <1>5 DEF InFrame
  <2>2. t = Fields("DST_ADDR", port.queue, o, port.len, port.pos, port.crc, port.cmp)
    BY <1>5, OctetTakenIs
  <2> HIDE DEF t
  <2>3. t.state = "DST_ADDR" /\ t.remote = Remote
    BY <2>1, <2>2 DEF Fields
  <2>4. j + 1 = 2 /\ 2 \in 1 .. n + 6
    BY <1>1, <2>1
  <2>5. InFrame(t, m, j + 1, b)
    BY <2>3, <2>4 DEF InFrame, n
  <2> QED BY <1>5, <2>5 DEF t
<1>6. CASE port.state = "DST_ADDR"
  <2>1. j = 2 /\ o = Local /\ port.remote = Remote
    BY <1>2, <1>4, <1>6 DEF InFrame
  <2>2. t = Fields("LEN_LSB", port.queue, port.remote, port.len, port.pos, port.crc, port.cmp)
    BY <1>6, <2>1, OctetTakenIs
  <2> HIDE DEF t
  <2>3. t.state = "LEN_LSB" /\ t.remote = Remote
    BY <2>1, <2>2 DEF Fields
  <2>4. j + 1 = 3 /\ 3 \in 1 .. n + 6
    BY <1>1, <2>1
  <2>5. InFrame(t, m, j + 1, b)
    BY <2>3, <2>4 DEF InFrame, n
  <2> QED BY <1>6, <2>5 DEF t
<1>7. CASE port.state = "LEN_LSB"
  <2>1. j = 3 /\ o = Low(n) /\ port.remote = Remote
    BY <1>2, <1>4, <1>7 DEF InFrame
  <2>2. t = Fields("LEN_MSB", port.queue, port.remote, o, port.pos, port.crc, port.cmp)
    BY <1>7, OctetTakenIs
  <2> HIDE DEF t
  <2>3. t.state = "LEN_MSB" /\ t.remote = Remote /\ t.len = Low(n)
    BY <2>1, <2>2 DEF Fields
  <2>4. j + 1 = 4 /\ 4 \in 1 .. n + 6
    BY <1>1, <2>1
  <2>5. InFrame(t, m, j + 1, b)
    BY <2>3, <2>4 DEF InFrame, n
  <2> QED BY <1>7, <2>5 DEF t
<1>8. CASE port.state = "LEN_MSB"
  <2>1. j = 4 /\ o = High(n) /\ port.remote = Remote /\ port.len = Low(n)
    BY <1>2, <1>4, <1>8 DEF InFrame, n
  <2>2. port.len + 256 * o = n
    BY <1>1, <2>1, LowAndHigh
  <2>3. ~(MaxMessage < port.len + 256 * o)
    BY <1>1, <2>2
  <2>4. t = Fields("PAYLOAD", port.queue, port.remote, n, 0, port.crc, 0)
    BY <1>8, <2>2, <2>3, OctetTakenIs
  <2> HIDE DEF t
  <2>5. t.state = "PAYLOAD" /\ t.remote = Remote /\ t.len = n /\ t.pos = 0 /\ t.cmp = 0
    BY <2>1, <2>4 DEF Fields
  <2>6. j + 1 = 0 + 5 /\ 0 + 5 \in 1 .. n + 6 /\ 0 <= n /\ 1 .. 0 = {}
    BY <1>1, <2>1
  <2>7. CrcUpto(m)[0] = 0
    BY <1>1, CrcUptoIs
  <2>8. InFrame(t, m, j + 1, b)
    BY <2>5, <2>6, <2>7 DEF InFrame, n
  <2> QED BY <1>8, <2>8 DEF t
<1>9. CASE port.state = "CRC_LSB"
  <2>1. j = n + 5 /\ o = Low(Crc(m)) /\ port.remote = Remote /\ port.len = n /\ port.cmp = Crc(m)
        /\ \A i \in 1 .. n : b[i] = m[i]
    BY <1>2, <1>4, <1>9 DEF InFrame, n
  <2>2. t = Fields("CRC_MSB", port.queue, port.remote, port.len, port.pos, o, port.cmp)
    BY <1>9, OctetTakenIs
  <2> HIDE DEF t
  <2>3. t.state = "CRC_MSB" /\ t.remote = Remote /\ t.len = n /\ t.crc = Low(Crc(m))
        /\ t.cmp = Crc(m)
    BY <2>1, <2>2 DEF Fields
  <2>4. j + 1 = n + 6 /\ n + 6 \in 1 .. n + 6
    BY <1>1, <2>1
  <2>5. InFrame(t, m, j + 1, b)
    BY <2>1, <2>3, <2>4 DEF InFrame, n
  <2> QED BY <1>9, <2>5 DEF t
<1>10. CASE port.state = "CRC_MSB"
  <2>1. j = n + 6 /\ o = High(Crc(m)) /\ port.remote = Remote /\ port.len = n /\ port.cmp = Crc(m)
        /\ port.crc = Low(Crc(m)) /\ \A i \in 1 .. n : b[i] = m[i]
    BY <1>2, <1>4, <1>10 DEF InFrame, n
  <2>2. port.crc + 256 * o = Crc(m)
    BY <1>3, <2>1, LowAndHigh
  <2>3. t = Fields("UNINITIALIZED", port.queue, port.remote, port.len, port.pos, Crc(m), port.cmp)
    BY <1>10, <2>2, OctetTakenIs
  <2> HIDE DEF t
  <2>4. t.state = "UNINITIALIZED" /\ t.remote = Remote /\ t.len = n /\ t.crc = Crc(m)
        /\ t.cmp = Crc(m)
    BY <2>1, <2>3 DEF Fields
  <2> QED BY <1>10, <2>1, <2>4 DEF t, n, LastTaken
<1> QED BY <1>5, <1>6, <1>7, <1>8, <1>9, <1>10 DEF HeaderStates

LEMMA PayloadOfBody ==
    ASSUME NEW m \in Seq(Octets), NEW i \in 1 .. Len(m)
    PROVE  Body(Remote, Local, m)[i + 4] = m[i]
<1>1. Remote \in Octets /\ Local \in Octets
  BY OctetsIs DEF Local, Remote
<1> QED BY <1>1, BodyIs

LEMMA PlaceAfter ==
    \A n, k \in Nat : k < n => k + 5 + 1 = (k + 1) + 5 /\ k + 5 + 1 \in 1 .. n + 6 /\ k + 1 <= n
OBVIOUS

\* What ReadPayload does to the FramingIO and the buffer.
PayloadTaken(port, q, o, t, b, b1) ==
    /\ t = [port EXCEPT !.queue = q, !.pos = @ + 1, !.cmp = update_crc(@, o)]
    /\ b1 = [b EXCEPT ![port.pos + 1] = o]

LEMMA PayloadOctet ==
    ASSUME NEW m, Fits(m), NEW port \in IOs, port.state = "PAYLOAD", port.pos < port.len,
           NEW j, NEW b \in [1 .. MaxMessage -> Octets],
           InFrame(port, m, j, b), NEW o, o = Body(Remote, Local, m)[j], NEW q, NEW t, NEW b1,
           PayloadTaken(port, q, o, t, b, b1)
    PROVE  InFrame(t, m, j + 1, b1)
<1> DEFINE n == Len(m)
           k == port.pos
<1>1. m \in Seq(Octets) /\ n \in Nat /\ n >= 1 /\ n <= MaxMessage /\ MaxMessage \in Nat /\ k \in Nat
  BY FrameReaderAssumption DEF Fits, IOs
<1>2. /\ j = k + 5 /\ port.remote = Remote /\ port.len = n /\ k < n /\ port.cmp = CrcUpto(m)[k]
      /\ \A i \in 1 .. k : b[i] = m[i]
  BY DEF InFrame
<1>3. k + 1 \in 1 .. n /\ k + 1 \in 1 .. MaxMessage
  BY <1>1, <1>2
<1>4. o = m[k + 1]
  <2> DEFINE i == k + 1
  <2>3. i + 4 = j /\ i \in 1 .. Len(m)
    BY <1>1, <1>2, <1>3
  <2> HIDE DEF i
  <2>4. Body(Remote, Local, m)[i + 4] = m[i]
    BY <1>1, <2>3, PayloadOfBody
  <2> QED BY <2>3, <2>4 DEF i
<1>5. CrcUpto(m)[k + 1] = update_crc(CrcUpto(m)[k], m[k + 1])
  <2>1. \A i \in 1 .. Len(m) : CrcUpto(m)[i] = update_crc(CrcUpto(m)[i - 1], m[i])
    BY <1>1, CrcUptoIs
  <2> DEFINE i == k + 1
  <2>2. i - 1 = k /\ i \in 1 .. Len(m)
    BY <1>1, <1>3
  <2> HIDE DEF i
  <2>3. CrcUpto(m)[i] = update_crc(CrcUpto(m)[i - 1], m[i])
    BY <2>1, <2>2
  <2> QED BY <2>2, <2>3 DEF i
<1>6. t = Fields("PAYLOAD", q, port.remote, port.len, k + 1, port.crc, update_crc(port.cmp, o))
  BY DEF IOs, Fields, PayloadTaken
<1>7. /\ t.state = "PAYLOAD" /\ t.remote = Remote /\ t.len = n /\ t.pos = k + 1
      /\ t.cmp = CrcUpto(m)[k + 1]
  BY <1>2, <1>4, <1>5, <1>6 DEF Fields
<1>8. b1[k + 1] = o /\ \A i \in 1 .. k : b1[i] = b[i]
  BY <1>1, <1>2, <1>3 DEF PayloadTaken
<1> HIDE DEF n, k
<1>9. \A i \in 1 .. k + 1 : b1[i] = m[i]
  <2>1. \A i \in 1 .. k + 1 : i = k + 1 \/ i \in 1 .. k
    BY <1>1
  <2> QED BY <1>2, <1>4, <1>8, <2>1
<1>10. j + 1 = (k + 1) + 5 /\ j + 1 \in 1 .. n + 6 /\ k + 1 <= n
  BY <1>1, <1>2, PlaceAfter
<1> QED BY <1>7, <1>9, <1>10 DEF InFrame, n

LEMMA PayloadEnds ==
    ASSUME NEW m, Fits(m), NEW port \in IOs, port.state = "PAYLOAD", port.pos = port.len,
           NEW j, NEW b, InFrame(port, m, j, b), NEW t, t = [port EXCEPT !.state = "CRC_LSB"]
    PROVE  InFrame(t, m, j, b)
<1>1. t = Fields("CRC_LSB", port.queue, port.remote, port.len, port.pos, port.crc, port.cmp)
  BY DEF IOs, Fields
<1>2. /\ t.state = "CRC_LSB" /\ t.remote = port.remote /\ t.len = port.len /\ t.cmp = port.cmp
  BY <1>1 DEF Fields
<1>3. /\ j = Len(m) + 5 /\ port.remote = Remote /\ port.len = Len(m) /\ port.pos = Len(m)
      /\ port.cmp = CrcUpto(m)[Len(m)] /\ \A i \in 1 .. Len(m) : b[i] = m[i]
      /\ j \in 1 .. Len(m) + 6
  BY DEF InFrame
<1> QED BY <1>2, <1>3 DEF InFrame, Crc

LEMMA ScriptIs ==
    ASSUME ReaderTypes, NEW p \in Ports
    PROVE  /\ script[p] \in Scripts
           /\ script[p].msgs \in Seq(Seq(Octets))
           /\ \A i \in 1 .. Len(script[p].msgs) : Fits(script[p].msgs[i])
<1>1. script[p] \in Scripts
  BY DEF ReaderTypes
<1>2. script[p].msgs \in Seq(Seq(Octets))
  BY <1>1, ScriptsAssumption
<1>3. DOMAIN script[p].msgs = 1 .. Len(script[p].msgs)
  BY <1>2
<1>4. ASSUME NEW i \in 1 .. Len(script[p].msgs) PROVE Fits(script[p].msgs[i])
  <2>1. script[p].msgs[i] \in Seq(Octets)
    BY <1>2
  <2>2. /\ Len(script[p].msgs[i]) >= 1 /\ Len(script[p].msgs[i]) <= MaxMessage
        /\ Len(script[p].msgs[i]) < 65536
    BY <1>1, <1>3, ScriptsAssumption
  <2> QED BY <2>1, <2>2 DEF Fits
<1> QED BY <1>1, <1>2, <1>4

\* Messages that fit their frames and the agent's buffer.
Sent(msgs) == msgs \in Seq(Seq(Octets)) /\ \A i \in 1 .. Len(msgs) : Fits(msgs[i])

LEMMA AtMessage ==
    ASSUME NEW msgs, Sent(msgs), NEW k \in Nat, k < Len(msgs)
    PROVE  /\ k + 1 \in 1 .. Len(msgs) /\ k + 1 \in 0 .. Len(msgs) /\ k \in 0 .. Len(msgs)
           /\ Fits(msgs[k + 1]) /\ msgs[k + 1] \in Seq(Octets)
           /\ FramesFrom(msgs)[k + 2] \in Seq(Octets)
           /\ FramesFrom(msgs)[k + 1] =
                 Cat(Frame(Remote, Local, msgs[k + 1]), FramesFrom(msgs)[k + 2])
<1> DEFINE n == Len(msgs)
           i == k + 1
<1>1. msgs \in Seq(Seq(Octets)) /\ n \in Nat /\ k < n
  BY DEF Sent
<1> HIDE DEF n
<1>2. i \in 1 .. n /\ i \in 0 .. n /\ k \in 0 .. n /\ i + 1 = k + 2 /\ k + 2 \in 1 .. n + 1
  BY <1>1
<1> HIDE DEF i
<1>3. Fits(msgs[i])
  BY <1>2 DEF Sent, n
<1>4. msgs[i] \in Seq(Octets)
  BY <1>3 DEF Fits
<1>5. FramesFrom(msgs) \in [1 .. n + 1 -> Seq(Octets)]
  BY <1>1, FramesFromIs DEF n
<1>6. FramesFrom(msgs)[i] = Cat(Frame(Remote, Local, msgs[i]), FramesFrom(msgs)[i + 1])
  BY <1>1, <1>2, FramesFromIs DEF n
<1> QED BY <1>2, <1>3, <1>4, <1>5, <1>6 DEF n, i

\* The reader is at the j-th octet of the frame of the message after the k-th.
AtOctet(msgs, port, s, b, d, k, j) ==
    /\ j \in 1 .. Len(msgs[k + 1]) + 6 /\ k < Len(msgs)
    /\ Arrived(msgs, k, d)
    /\ InFrame(port, msgs[k + 1], j, b)
    /\ s = Cat(Incoming(msgs[k + 1])[j], FramesFrom(msgs)[k + 2])

LEMMA WhereInFrame ==
    ASSUME NEW msgs, Sent(msgs), NEW port, port.state # "UNINITIALIZED", NEW s, NEW b, NEW d,
           InStep(msgs, port, s, b, d)
    PROVE  \E k, j \in Nat : AtOctet(msgs, port, s, b, d, k, j)
<1>1. PICK k \in 0 .. Len(msgs) :
         Arrived(msgs, k, d) /\ (Between(msgs, k, port, s) \/ Within(msgs, k, port, s, b))
  BY DEF InStep
<1>2. Within(msgs, k, port, s, b)
  BY <1>1 DEF Between
<1>3. PICK j \in 1 .. Len(msgs[k + 1]) + 6 :
         /\ InFrame(port, msgs[k + 1], j, b)
         /\ s = Cat(Incoming(msgs[k + 1])[j], FramesFrom(msgs)[k + 2])
  BY <1>2 DEF Within
<1>4. k \in Nat /\ k < Len(msgs)
  <2>1. Len(msgs) \in Nat
    BY DEF Sent
  <2>2. k \in Nat
    BY <2>1
  <2> QED BY <1>2, <2>2 DEF Within
<1>5. j \in Nat
  <2>1. Len(msgs[k + 1]) \in Nat
    BY <1>4, AtMessage
  <2> DEFINE n == Len(msgs[k + 1])
  <2> HIDE DEF n
  <2>2. n \in Nat /\ j \in 1 .. n + 6
    BY <1>3, <2>1 DEF n
  <2> QED BY <2>2
<1> QED BY <1>1, <1>3, <1>4, <1>5 DEF AtOctet

LEMMA StaysInFrame ==
    ASSUME NEW msgs, Sent(msgs), NEW k \in Nat, k < Len(msgs), NEW port, NEW s, NEW b, NEW d,
           Arrived(msgs, k, d), NEW j, InFrame(port, msgs[k + 1], j, b),
           s = Cat(Incoming(msgs[k + 1])[j], FramesFrom(msgs)[k + 2])
    PROVE  InStep(msgs, port, s, b, d)
<1>1. j \in 1 .. Len(msgs[k + 1]) + 6
  BY DEF InFrame
<1>2. Within(msgs, k, port, s, b)
  BY <1>1 DEF Within
<1>3. k \in 0 .. Len(msgs)
  BY AtMessage
<1> QED BY <1>2, <1>3 DEF InStep

\* What get_next_octet gives in a frame.
LEMMA NextInFrame ==
    ASSUME NEW msgs, Sent(msgs), NEW port, NEW q \in Seq(Octets), NEW l \in Seq(Octets),
           NEW b, NEW d, NEW k \in Nat, NEW j \in Nat, AtOctet(msgs, port, Cat(q, l), b, d, k, j),
           NEW got, got = get_next_octet(q)
    PROVE  /\ got.rv =>
                 /\ got.octet = Body(Remote, Local, msgs[k + 1])[j]
                 /\ Cat(got.rest, l) =
                       Cat(Incoming(msgs[k + 1])[j + 1], FramesFrom(msgs)[k + 2])
           /\ ~got.rv => got.octet # Begin /\ got.rest = q
<1> DEFINE m == msgs[k + 1]
           f == FramesFrom(msgs)[k + 2]
           o == Body(Remote, Local, m)[j]
           r == Incoming(m)[j]
           u == Incoming(m)[j + 1]
           e == EscapeOctet(o)
<1>0. k < Len(msgs) /\ Cat(q, l) = Cat(r, f) /\ j \in 1 .. Len(m) + 6
  BY DEF AtOctet
<1>1. m \in Seq(Octets) /\ f \in Seq(Octets)
  BY <1>0, AtMessage
<1>2. Cat(q, l) = Cat(r, f) /\ j \in 1 .. Len(m) + 6
  BY <1>0
<1> HIDE DEF m, f
<1>3. o \in Octets /\ r = Cat(e, u)
  BY <1>1, <1>2, IncomingIs
<1>4. u \in Seq(Octets)
  <2>1. j + 1 \in 1 .. Len(m) + 7
    <3>1. Len(m) \in Nat
      BY <1>1
    <3> DEFINE n == Len(m)
    <3> HIDE DEF n
    <3>2. n \in Nat /\ j \in 1 .. n + 6
      BY <1>2, <3>1 DEF n
    <3>3. j + 1 \in 1 .. n + 7
      BY <3>2
    <3> QED BY <3>3 DEF n
  <2>2. \A i \in 1 .. Len(m) + 7 : Incoming(m)[i] \in Seq(Octets)
    BY <1>1, IncomingIs
  <2> QED BY <2>1, <2>2
<1>5. e \in Seq(Octets)
  BY <1>3, EscapeOctetIs
<1> HIDE DEF o, r, u, e
<1>6. Cat(q, l) = Cat(e, Cat(u, f)) /\ Cat(u, f) \in Seq(Octets)
  BY <1>1, <1>2, <1>3, <1>4, <1>5, CatAssociative, CatIs
<1> DEFINE t == Cat(u, f)
<1> HIDE DEF t
<1>7. t \in Seq(Octets) /\ Cat(q, l) = Cat(EscapeOctet(o), t)
  BY <1>6 DEF t, e
<1>8. IF got.rv THEN got.octet = o /\ Cat(got.rest, l) = t
      ELSE got.octet # Begin /\ got.rest = q
  BY <1>3, <1>7, NextOctetIs
<1> QED BY <1>8 DEF t, u, o, m, f

LEMMA ReadingKeeps ==
    ASSUME NEW q \in Seq(Octets), NEW l \in Seq(Octets), NEW n \in Nat, n <= Len(l)
    PROVE  Cat(Cat(q, SubSeq(l, 1, n)), SubSeq(l, n + 1, Len(l))) = Cat(q, l)
<1> DEFINE s == SubSeq(l, 1, n)
           t == SubSeq(l, n + 1, Len(l))
<1>1. s \in Seq(Octets) /\ t \in Seq(Octets) /\ Cat(s, t) = l
  BY PartIs
<1> HIDE DEF s, t
<1>2. Cat(Cat(q, s), t) = Cat(q, Cat(s, t))
  BY <1>1, CatAssociative
<1> QED BY <1>1, <1>2 DEF s, t

\* Reading more of the line, and the queue, are nothing to InStep.
LEMMA OtherQueueInStep ==
    ASSUME NEW msgs, Sent(msgs), NEW port \in IOs, NEW s, NEW b, NEW d, NEW q,
           InStep(msgs, port, s, b, d)
    PROVE  InStep(msgs, [port EXCEPT !.queue = q], s, b, d)
<1> DEFINE t == [port EXCEPT !.queue = q]
<1>1. CASE port.state = "UNINITIALIZED"
  <2>1. PICK k \in 0 .. Len(msgs) : Arrived(msgs, k, d) /\ Between(msgs, k, port, s)
    BY <1>1 DEF InStep, Within, InFrame
  <2>2. t.state = "UNINITIALIZED"
    BY <1>1 DEF IOs
  <2> HIDE DEF t
  <2>3. Between(msgs, k, t, s)
    BY <2>1, <2>2 DEF Between
  <2> QED BY <2>1, <2>3 DEF InStep, t
<1>2. CASE port.state # "UNINITIALIZED"
  <2>1. PICK k, j \in Nat : AtOctet(msgs, port, s, b, d, k, j)
    BY <1>2, WhereInFrame
  <2>2. /\ k < Len(msgs) /\ Arrived(msgs, k, d) /\ InFrame(port, msgs[k + 1], j, b)
        /\ s = Cat(Incoming(msgs[k + 1])[j], FramesFrom(msgs)[k + 2])
    BY <2>1 DEF AtOctet
  <2>3. InFrame(t, msgs[k + 1], j, b)
    BY <2>2, OtherQueueInFrame
  <2> HIDE DEF t
  <2>4. InStep(msgs, t, s, b, d)
    BY <2>2, <2>3, StaysInFrame
  <2> QED BY <2>4 DEF t
<1> QED BY <1>1, <1>2

\* What FindBegin does to the FramingIO when the queue starts with the flag.
FrameBegun(port, q, t) == t = [port EXCEPT !.state = "SRC_ADDR", !.queue = Tail(q)]

\* Between frames what comes in begins with a begin flag, and the next frame is
\* the next message's.
LEMMA BeginsFrame ==
    ASSUME NEW msgs, Sent(msgs), NEW port \in IOs, port.state = "UNINITIALIZED",
           NEW q \in Seq(Octets), q # << >>, NEW l \in Seq(Octets), NEW b, NEW d,
           InStep(msgs, port, Cat(q, l), b, d),
           NEW t, FrameBegun(port, q, t)
    PROVE  Head(q) = Begin /\ InStep(msgs, t, Cat(Tail(q), l), b, d)
<1>1. PICK k \in 0 .. Len(msgs) : Arrived(msgs, k, d) /\ Between(msgs, k, port, Cat(q, l))
  BY DEF InStep, Within, InFrame
<1>2. Cat(q, l) = FramesFrom(msgs)[k + 1]
  BY <1>1 DEF Between
<1>3. Head(Cat(q, l)) = Head(q) /\ Tail(Cat(q, l)) = Cat(Tail(q), l) /\ Cat(q, l) # << >>
  BY FirstOfCat
<1>4. k \in Nat /\ k < Len(msgs)
  <2>1. Len(msgs) \in Nat /\ msgs \in Seq(Seq(Octets))
    BY DEF Sent
  <2>2. FramesFrom(msgs)[Len(msgs) + 1] = << >>
    BY <2>1, FramesFromIs
  <2>3. k # Len(msgs)
    BY <1>2, <1>3, <2>2
  <2> DEFINE n == Len(msgs)
  <2> HIDE DEF n
  <2>4. n \in Nat /\ k \in 0 .. n /\ k # n
    BY <2>1, <2>3 DEF n
  <2>5. k \in Nat /\ k < n
    BY <2>4
  <2> QED BY <2>5 DEF n
<1> DEFINE m == msgs[k + 1]
           f == FramesFrom(msgs)[k + 2]
           r == Incoming(m)[1]
           y == <<Begin>>
<1>5. m \in Seq(Octets) /\ f \in Seq(Octets) /\ Cat(q, l) = Cat(Frame(Remote, Local, m), f)
  BY <1>2, <1>4, AtMessage
<1>6. y \in Seq(Octets) /\ y # << >> /\ Head(y) = Begin /\ Tail(y) = << >>
  <2>1. Begin \in Octets
    BY OctetsIs DEF Begin
  <2> QED BY <2>1
<1>7. Len(m) \in Nat
  BY <1>5
<1> HIDE DEF m, f, y
<1>8. Frame(Remote, Local, m) = Cat(y, r) /\ r \in Seq(Octets)
  <2>1. 1 \in 1 .. Len(m) + 7
    BY <1>7
  <2> QED BY <1>5, <2>1, IncomingIs DEF y
<1> HIDE DEF r
<1>9. Cat(q, l) = Cat(y, Cat(r, f)) /\ Cat(r, f) \in Seq(Octets)
  BY <1>5, <1>6, <1>8, CatAssociative, CatIs
<1> DEFINE u == Cat(r, f)
<1> HIDE DEF u
<1>10. Head(Cat(y, u)) = Begin /\ Tail(Cat(y, u)) = u
  <2>1. u \in Seq(Octets)
    BY <1>9 DEF u
  <2>2. Head(Cat(y, u)) = Head(y) /\ Tail(Cat(y, u)) = Cat(Tail(y), u)
    BY <1>6, <2>1, FirstOfCat
  <2>3. Cat(<< >>, u) = u
    BY <2>1, CatEmpty
  <2> QED BY <1>6, <2>2, <2>3
<1>11. Head(q) = Begin /\ Cat(Tail(q), l) = u
  BY <1>3, <1>9, <1>10 DEF u
<1>12. InFrame(t, m, 1, b)
  <2>1. t.state = "SRC_ADDR"
    BY DEF IOs, FrameBegun
  <2>2. 1 \in 1 .. Len(m) + 6
    BY <1>7
  <2> QED BY <2>1, <2>2 DEF InFrame
<1>13. InStep(msgs, t, Cat(Tail(q), l), b, d)
  <2>1. Cat(Tail(q), l) = Cat(Incoming(msgs[k + 1])[1], FramesFrom(msgs)[k + 2])
    BY <1>11 DEF u, r, f, m
  <2>2. InFrame(t, msgs[k + 1], 1, b)
    BY <1>12 DEF m
  <2> QED BY <1>1, <1>4, <2>1, <2>2, StaysInFrame
<1> QED BY <1>11, <1>13

\* In a frame: no octet is no begin flag, and an octet is the next of the body.
LEMMA MissedInFrame ==
    ASSUME NEW msgs, Sent(msgs), NEW port, port.state # "UNINITIALIZED", NEW q \in Seq(Octets),
           NEW l \in Seq(Octets), NEW b, NEW d, InStep(msgs, port, Cat(q, l), b, d),
           ~get_next_octet(q).rv
    PROVE  get_next_octet(q).octet # Begin /\ get_next_octet(q).rest = q
<1>1. PICK k, j \in Nat : AtOctet(msgs, port, Cat(q, l), b, d, k, j)
  BY WhereInFrame
<1> QED BY <1>1, NextInFrame

LEMMA TakenQueue ==
    ASSUME NEW fio \in IOs, fio.state \in HeaderStates, NEW o
    PROVE  OctetTaken(fio, o).queue = fio.queue
<1> DEFINE t == OctetTaken(fio, o)
<1>1. \E s, r, n, p, c, x : t = Fields(s, fio.queue, r, n, p, c, x)
  BY OctetTakenIs DEF HeaderStates
<1>2. PICK s, r, n, p, c, x : t = Fields(s, fio.queue, r, n, p, c, x)
  BY <1>1
<1> HIDE DEF t
<1>3. t.queue = fio.queue
  BY <1>2 DEF Fields
<1> QED BY <1>3 DEF t

\* An octet of the header, and the first of the CRC.
LEMMA HeaderInStep ==
    ASSUME NEW msgs, Sent(msgs), NEW port \in IOs, port.state \in HeaderStates,
           NEW q \in Seq(Octets), NEW l \in Seq(Octets), NEW b, NEW d,
           InStep(msgs, port, Cat(q, l), b, d), NEW got, got = get_next_octet(q), got.rv,
           NEW fio, fio = [port EXCEPT !.queue = got.rest], got.rest \in Seq(Octets),
           NEW t, t = OctetTaken(fio, got.octet), port.state # "CRC_MSB"
    PROVE  InStep(msgs, t, Cat(t.queue, l), b, d)
<1>1. PICK k, j \in Nat : AtOctet(msgs, port, Cat(q, l), b, d, k, j)
  BY WhereInFrame DEF HeaderStates
<1>2. /\ got.octet = Body(Remote, Local, msgs[k + 1])[j]
      /\ Cat(got.rest, l) = Cat(Incoming(msgs[k + 1])[j + 1], FramesFrom(msgs)[k + 2])
  BY <1>1, NextInFrame
<1>3. fio \in IOs /\ fio.state = port.state /\ fio.queue = got.rest
  BY DEF IOs
<1>4. k < Len(msgs) /\ Arrived(msgs, k, d) /\ InFrame(port, msgs[k + 1], j, b)
  BY <1>1 DEF AtOctet
<1>5. InFrame(fio, msgs[k + 1], j, b)
  BY <1>4, OtherQueueInFrame
<1>6. Fits(msgs[k + 1])
  BY <1>4, AtMessage
<1>7. InFrame(t, msgs[k + 1], j + 1, b)
  BY <1>2, <1>3, <1>5, <1>6, HeaderOctet
<1>8. t.queue = got.rest
  BY <1>3, TakenQueue
<1> QED BY <1>2, <1>4, <1>7, <1>8, StaysInFrame

LEMMA BufferIs ==
    ASSUME NEW m, Fits(m), NEW b \in [1 .. MaxMessage -> Octets],
           \A i \in 1 .. Len(m) : b[i] = m[i]
    PROVE  SubSeq(b, 1, Len(m)) = m
<1> DEFINE n == Len(m)
           s == SubSeq(b, 1, n)
<1>1. m \in Seq(Octets) /\ n \in Nat /\ n <= MaxMessage /\ MaxMessage \in Nat
  BY FrameReaderAssumption DEF Fits
<1>2. b \in Seq(Octets) /\ Len(b) = MaxMessage
  BY <1>1
<1>3. s = [i \in 1 .. n |-> b[i]]
  <2>1. s = [i \in 1 .. (n - 1 + 1) |-> b[1 + i - 1]]
    BY <1>1
  <2>2. n - 1 + 1 = n /\ \A i \in 1 .. n : 1 + i - 1 = i
    BY <1>1
  <2> QED BY <2>1, <2>2
<1>4. m = [i \in 1 .. n |-> m[i]]
  BY <1>1
<1> QED BY <1>3, <1>4

\* The frame of the message after the k-th has been read to its end.
Ended(msgs, t, s, b, d, k) ==
    /\ k < Len(msgs) /\ Arrived(msgs, k, d)
    /\ LastTaken(t, msgs[k + 1], b)
    /\ s = FramesFrom(msgs)[k + 2]

LEMMA LastOctetIs ==
    ASSUME NEW msgs, Sent(msgs), NEW port \in IOs, port.state = "CRC_MSB",
           NEW q \in Seq(Octets), NEW l \in Seq(Octets), NEW b, NEW d,
           InStep(msgs, port, Cat(q, l), b, d), NEW got, got = get_next_octet(q), got.rv,
           NEW fio, fio = [port EXCEPT !.queue = got.rest], got.rest \in Seq(Octets),
           NEW t, t = OctetTaken(fio, got.octet)
    PROVE  \E k \in Nat : Ended(msgs, t, Cat(t.queue, l), b, d, k)
<1>1. PICK k, j \in Nat : AtOctet(msgs, port, Cat(q, l), b, d, k, j)
  BY WhereInFrame
<1> DEFINE m == msgs[k + 1]
           f == FramesFrom(msgs)[k + 2]
<1>2. /\ got.octet = Body(Remote, Local, m)[j]
      /\ Cat(got.rest, l) = Cat(Incoming(m)[j + 1], f)
  BY <1>1, NextInFrame
<1>3. fio \in IOs /\ fio.state = port.state /\ fio.queue = got.rest
  BY DEF IOs
<1>9. k < Len(msgs) /\ Arrived(msgs, k, d) /\ InFrame(port, m, j, b)
  BY <1>1 DEF AtOctet
<1>4. InFrame(fio, m, j, b)
  BY <1>9, OtherQueueInFrame
<1>5. Fits(m) /\ m \in Seq(Octets) /\ f \in Seq(Octets)
  BY <1>9, AtMessage
<1> HIDE DEF m, f
<1>6. j = Len(m) + 6 /\ LastTaken(t, m, b)
  <2>1. fio.state \in HeaderStates /\ fio.state = "CRC_MSB"
    BY <1>3 DEF HeaderStates
  <2>2. t = OctetTaken(fio, got.octet)
    OBVIOUS
  <2> DEFINE o == got.octet
  <2>3. o = Body(Remote, Local, m)[j]
    BY <1>2
  <2> HIDE DEF o
  <2>4. fio.state = "CRC_MSB" => j = Len(m) + 6 /\ LastTaken(OctetTaken(fio, o), m, b)
    BY <1>3, <1>4, <1>5, <2>1, <2>3, HeaderOctet
  <2> QED BY <2>1, <2>2, <2>4 DEF o
<1>7. t.queue = got.rest
  BY <1>3, TakenQueue DEF HeaderStates
<1>8. Cat(t.queue, l) = f
  <2> DEFINE n == Len(m)
             i == j + 1
  <2>1. n \in Nat
    BY <1>5
  <2> HIDE DEF n
  <2>2. i = n + 7
    BY <1>6, <2>1 DEF n
  <2> HIDE DEF i
  <2>3. Incoming(m)[n + 7] = << >>
    BY <1>5, IncomingIs DEF n
  <2>4. Cat(got.rest, l) = Cat(Incoming(m)[i], f)
    BY <1>2 DEF i
  <2>5. Cat(<< >>, f) = f
    BY <1>5, CatEmpty
  <2> QED BY <1>7, <2>2, <2>3, <2>4, <2>5
<1> QED BY <1>6, <1>8, <1>9 DEF m, f, Ended

LEMMA OneMoreArrived ==
    ASSUME NEW msgs, Sent(msgs), NEW k \in Nat, k < Len(msgs), NEW R, NEW d \in Seq(R),
           Arrived(msgs, k, d), NEW e, e.msg = msgs[k + 1], e.remote = Remote
    PROVE  Arrived(msgs, k + 1, Append(d, e))
<1> DEFINE a == Append(d, e)
           n == k + 1
<1>1. n \in 0 .. Len(msgs)
  BY AtMessage
<1>2. Len(d) = k /\ \A i \in 1 .. k : d[i].msg = msgs[i] /\ d[i].remote = Remote
  BY DEF Arrived
<1>3. Len(a) = n /\ a[n] = e /\ \A i \in 1 .. k : a[i] = d[i]
  BY <1>2
<1>4. \A i \in 1 .. n : i = n \/ i \in 1 .. k
  OBVIOUS
<1>5. e.msg = msgs[n] /\ e.remote = Remote
  OBVIOUS
<1> HIDE DEF a, n
<1>6. \A i \in 1 .. n : a[i].msg = msgs[i] /\ a[i].remote = Remote
  BY <1>2, <1>3, <1>4, <1>5
<1>7. Arrived(msgs, n, a)
  BY <1>1, <1>3, <1>6 DEF Arrived
<1> QED BY <1>7 DEF a, n

\* The element that Deliver appends.
HandedOn(t, b, e) == e = [remote |-> t.remote, msg |-> SubSeq(b, 1, t.len)]

\* What ReadOctet does to the FramingIO.
LastRead(port, q, t) ==
    LET got == get_next_octet(q)
    IN  /\ got.rv /\ got.rest \in Seq(Octets)
        /\ t = OctetTaken([port EXCEPT !.queue = got.rest], got.octet)

\* The last octet of a frame: its message has arrived, and is handed on.
LEMMA LastOctetInStep ==
    ASSUME NEW msgs, Sent(msgs), NEW port \in IOs, port.state = "CRC_MSB",
           NEW q \in Seq(Octets), NEW l \in Seq(Octets),
           NEW b \in [1 .. MaxMessage -> Octets], NEW R, NEW d \in Seq(R),
           InStep(msgs, port, Cat(q, l), b, d), NEW t, LastRead(port, q, t), NEW e, HandedOn(t, b, e)
    PROVE  t.cmp = t.crc /\ t.len > 0 /\ InStep(msgs, t, Cat(t.queue, l), b, Append(d, e))
<1> DEFINE s == Cat(t.queue, l)
           a == Append(d, e)
<1> HIDE DEF s, a
<1>0. PICK k \in Nat : Ended(msgs, t, s, b, d, k)
  <2> DEFINE got == get_next_octet(q)
             fio == [port EXCEPT !.queue = got.rest]
  <2>1. /\ got = get_next_octet(q) /\ got.rv /\ fio = [port EXCEPT !.queue = got.rest]
        /\ got.rest \in Seq(Octets) /\ t = OctetTaken(fio, got.octet)
    BY DEF LastRead
  <2> HIDE DEF got, fio
  <2>2. InStep(msgs, port, Cat(q, l), b, d)
    OBVIOUS
  <2> QED BY <2>1, <2>2, LastOctetIs DEF s
<1>1. /\ k < Len(msgs) /\ Arrived(msgs, k, d)
      /\ t.state = "UNINITIALIZED" /\ t.cmp = t.crc
      /\ t.len = Len(msgs[k + 1]) /\ t.remote = Remote
      /\ \A i \in 1 .. Len(msgs[k + 1]) : b[i] = msgs[k + 1][i]
      /\ s = FramesFrom(msgs)[k + 2]
  BY <1>0 DEF Ended, LastTaken
<1>2. Fits(msgs[k + 1]) /\ k + 1 \in 0 .. Len(msgs)
  BY <1>1, AtMessage
<1>3. SubSeq(b, 1, Len(msgs[k + 1])) = msgs[k + 1]
  BY <1>1, <1>2, BufferIs, Zenon
<1>4. e.remote = Remote /\ e.msg = msgs[k + 1]
  BY <1>1, <1>3 DEF HandedOn
<1>5. Arrived(msgs, k + 1, a)
  BY <1>1, <1>4, OneMoreArrived DEF a
<1>6. Between(msgs, k + 1, t, s)
  <2> DEFINE i == k + 1
  <2>1. i + 1 = k + 2
    OBVIOUS
  <2> HIDE DEF i
  <2>2. Between(msgs, i, t, s)
    BY <1>1, <2>1 DEF Between
  <2> QED BY <2>2 DEF i
<1>7. InStep(msgs, t, s, b, a)
  BY <1>2, <1>5, <1>6 DEF InStep
<1>8. t.len > 0
  <2> DEFINE n == Len(msgs[k + 1])
  <2>1. n \in Nat /\ n >= 1
    BY <1>2 DEF Fits
  <2> HIDE DEF n
  <2>2. n > 0
    BY <2>1
  <2> QED BY <1>1, <2>2 DEF n
<1> QED BY <1>1, <1>7, <1>8 DEF s, a

\* An octet of the payload.
LEMMA PayloadInStep ==
    ASSUME NEW msgs, Sent(msgs), NEW port \in IOs, port.state = "PAYLOAD", port.pos < port.len,
           NEW q \in Seq(Octets), NEW l \in Seq(Octets),
           NEW b \in [1 .. MaxMessage -> Octets], NEW d,
           InStep(msgs, port, Cat(q, l), b, d), NEW got, got = get_next_octet(q), got.rv,
           NEW t, NEW b1, PayloadTaken(port, got.rest, got.octet, t, b, b1)
    PROVE  InStep(msgs, t, Cat(t.queue, l), b1, d)
<1>1. PICK k, j \in Nat : AtOctet(msgs, port, Cat(q, l), b, d, k, j)
  BY WhereInFrame
<1>2. /\ got.octet = Body(Remote, Local, msgs[k + 1])[j]
      /\ Cat(got.rest, l) = Cat(Incoming(msgs[k + 1])[j + 1], FramesFrom(msgs)[k + 2])
  BY <1>1, NextInFrame
<1>3. k < Len(msgs) /\ Arrived(msgs, k, d) /\ InFrame(port, msgs[k + 1], j, b)
  BY <1>1 DEF AtOctet
<1>4. Fits(msgs[k + 1])
  BY <1>3, AtMessage
<1>5. InFrame(t, msgs[k + 1], j + 1, b1)
  BY <1>2, <1>3, <1>4, PayloadOctet
<1>6. t.queue = got.rest
  BY DEF IOs, PayloadTaken
<1> QED BY <1>2, <1>3, <1>5, <1>6, StaysInFrame

\* After the payload.
LEMMA PayloadEndInStep ==
    ASSUME NEW msgs, Sent(msgs), NEW port \in IOs, port.state = "PAYLOAD", port.pos = port.len,
           NEW s, NEW b, NEW d, InStep(msgs, port, s, b, d),
           NEW t, t = [port EXCEPT !.state = "CRC_LSB"]
    PROVE  InStep(msgs, t, s, b, d)
<1>1. PICK k, j \in Nat : AtOctet(msgs, port, s, b, d, k, j)
  BY WhereInFrame
<1>2. /\ k < Len(msgs) /\ Arrived(msgs, k, d) /\ InFrame(port, msgs[k + 1], j, b)
      /\ s = Cat(Incoming(msgs[k + 1])[j], FramesFrom(msgs)[k + 2])
  BY <1>1 DEF AtOctet
<1>3. Fits(msgs[k + 1])
  BY <1>2, AtMessage
<1>4. InFrame(t, msgs[k + 1], j, b)
  BY <1>2, <1>3, PayloadEnds
<1> QED BY <1>2, <1>4, StaysInFrame

LEMMA PortMoves ==
    ASSUME NEW p \in Ports, script' = script, NEW port, NEW l, framing_io'[p] = port, line'[p] = l,
           script[p].noise = << >> =>
               InStep(script[p].msgs, port, Cat(port.queue, l), buf', delivered'[p])
    PROVE  PortInStep(p)'
BY DEF PortInStep, Unread

LEMMA SetMoves ==
    ASSUME ReaderTypes, NEW p \in Ports, NEW port, Set(p, port)
    PROVE  framing_io'[p] = port /\ line'[p] = line[p]
<1>1. framing_io \in [Ports -> IOs]
  BY DEF ReaderTypes
<1> QED BY <1>1 DEF Set

\* The port, as far as it is in step.
LEMMA InStepIs ==
    ASSUME ReaderTypes, NEW p \in Ports, PortInStep(p), script[p].noise = << >>
    PROVE  /\ Sent(script[p].msgs)
           /\ InStep(script[p].msgs, framing_io[p], Cat(framing_io[p].queue, line[p]), buf,
                     delivered[p])
BY ScriptIs DEF PortInStep, Unread, Sent

LEMMA ReadToInStep ==
    ASSUME ReaderTypes, NEW p \in Ports, PortInStep(p), script' = script, buf' = buf,
           delivered' = delivered, NEW n \in Nat, n <= Len(line[p]),
           ReadTo(p, n, framing_io[p], framing_io[p].queue)
    PROVE  PortInStep(p)'
<1> DEFINE q == framing_io[p].queue
           s == SubSeq(line[p], 1, n)
           l == SubSeq(line[p], n + 1, Len(line[p]))
           u == Cat(q, s)
           port == [framing_io[p] EXCEPT !.queue = u]
<1>1. /\ framing_io \in [Ports -> IOs] /\ line \in [Ports -> Seq(Octets)]
      /\ q \in Seq(Octets) /\ line[p] \in Seq(Octets) /\ framing_io[p] \in IOs
  BY PortIs DEF ReaderTypes
<1>2. framing_io'[p] = port /\ line'[p] = l
  BY <1>1 DEF ReadTo, Cat
<1>3. port.queue = u
  BY <1>1 DEF IOs
<1>4. Cat(u, l) = Cat(q, line[p])
  BY <1>1, ReadingKeeps
<1> HIDE DEF u, l
<1>5. ASSUME script[p].noise = << >>
      PROVE  InStep(script[p].msgs, port, Cat(port.queue, l), buf', delivered'[p])
  <2>1. Sent(script[p].msgs) /\ InStep(script[p].msgs, framing_io[p], Cat(q, line[p]), buf, delivered[p])
    BY <1>5, InStepIs
  <2>2. InStep(script[p].msgs, port, Cat(q, line[p]), buf, delivered[p])
    BY <1>1, <2>1, OtherQueueInStep
  <2> QED BY <1>3, <1>4, <2>2
<1> HIDE DEF port
<1> QED BY <1>2, <1>5, PortMoves

LEMMA CallInStep ==
    ASSUME ReaderTypes, NEW p \in Ports, PortInStep(p), Call(p) PROVE PortInStep(p)'
<1> DEFINE q == framing_io[p].queue
<1>1. script' = script /\ buf' = buf /\ delivered' = delivered
  BY DEF Call
<1>2. CASE q # << >>
  <2>1. framing_io' = framing_io /\ line' = line
    BY <1>2 DEF Call
  <2> QED BY <1>1, <2>1 DEF PortInStep, Unread
<1>3. CASE q = << >>
  <2>1. PICK n \in Readable(p, q, 5) : ReadTo(p, n, framing_io[p], q)
    BY <1>3 DEF Call
  <2>2. n \in Nat /\ n <= Len(line[p])
    <3>1. q \in Seq(Octets) /\ line[p] \in Seq(Octets) /\ Len(q) < ReadBuffer
      BY PortIs
    <3> HIDE DEF q
    <3> QED BY <2>1, <3>1, ReadableIs
  <2> QED BY <1>1, <2>1, <2>2, ReadToInStep
<1> QED BY <1>2, <1>3

LEMMA FindBeginInStep ==
    ASSUME ReaderTypes, NEW p \in Ports, PortInStep(p), FindBegin(p) PROVE PortInStep(p)'
<1> DEFINE port == framing_io[p]
           q == port.queue
           i == BeginIn(q)
<1>1. /\ port \in IOs /\ q \in Seq(Octets) /\ line[p] \in Seq(Octets)
  BY PortIs
<1>2. port.state = "UNINITIALIZED" /\ script' = script /\ buf' = buf /\ delivered' = delivered
  BY DEF FindBegin
<1>3. CASE script[p].noise # << >>
  BY <1>2, <1>3 DEF PortInStep
<1>4. CASE script[p].noise = << >>
  <2>1. /\ Sent(script[p].msgs)
        /\ InStep(script[p].msgs, port, Cat(q, line[p]), buf, delivered[p])
    BY <1>4, InStepIs
  <2>2. CASE q = << >>
    <3>1. i = 0
      BY <1>1, <2>2, BeginInIs
    <3>2. Set(p, [port EXCEPT !.queue = << >>])
      BY <3>1 DEF FindBegin, BeginIn
    <3>3. [port EXCEPT !.queue = << >>] = port
      <4>1. [port EXCEPT !.queue = port.queue] = port
        BY <1>1 DEF IOs
      <4> QED BY <2>2, <4>1
    <3>4. framing_io'[p] = port /\ line'[p] = line[p]
      BY <3>2, <3>3, SetMoves
    <3> QED BY <1>2, <2>1, <3>4, PortMoves
  <2>3. CASE q # << >>
    <3> DEFINE t == [port EXCEPT !.state = "SRC_ADDR", !.queue = Tail(q)]
    <3>1. Head(q) = Begin /\ InStep(script[p].msgs, t, Cat(Tail(q), line[p]), buf, delivered[p])
      <4> DEFINE a == script[p].msgs
                 d == delivered[p]
                 l == line[p]
      <4>1. /\ Sent(a) /\ InStep(a, port, Cat(q, l), buf, d)
            /\ port \in IOs /\ q \in Seq(Octets) /\ l \in Seq(Octets)
            /\ port.state = "UNINITIALIZED" /\ q # << >>
            /\ FrameBegun(port, q, t)
        BY <1>1, <1>2, <2>1, <2>3 DEF FrameBegun
      <4> HIDE DEF a, d, l, port, q, t
      <4>2. Head(q) = Begin /\ InStep(a, t, Cat(Tail(q), l), buf, d)
        BY <4>1, BeginsFrame
      <4> QED BY <4>2 DEF a, d, l
    <3>2. i = 1
      BY <1>1, <2>3, <3>1, BeginInIs
    <3>3. Set(p, [port EXCEPT !.state = "SRC_ADDR", !.queue = SubSeq(q, i + 1, Len(q))])
      <4> DEFINE v == [port EXCEPT !.state = "SRC_ADDR", !.queue = SubSeq(q, i + 1, Len(q))]
      <4>1. i > 0
        BY <3>2
      <4>2. i > 0 => Set(p, v)
        BY DEF FindBegin, BeginIn
      <4> HIDE DEF v, i
      <4>3. Set(p, v)
        BY <4>1, <4>2
      <4> QED BY <4>3 DEF v
    <3>4. SubSeq(q, i + 1, Len(q)) = Tail(q)
      <4>1. 1 + 1 = 2
        OBVIOUS
      <4> HIDE DEF q, i
      <4> QED BY <1>1, <2>3, <3>2, <4>1, TailIsSubSeq
    <3>5. Set(p, t)
      BY <3>3, <3>4
    <3>6. t.queue = Tail(q)
      BY <1>1 DEF IOs
    <3> HIDE DEF t
    <3>7. framing_io'[p] = t /\ line'[p] = line[p]
      BY <3>5, SetMoves
    <3> QED BY <1>2, <3>1, <3>6, <3>7, PortMoves
  <2> QED BY <2>2, <2>3
<1> QED BY <1>3, <1>4

LEMMA MissIs ==
    ASSUME ReaderTypes, NEW p \in Ports, PortInStep(p), script[p].noise = << >>,
           framing_io[p].state # "UNINITIALIZED", ~get_next_octet(framing_io[p].queue).rv
    PROVE  /\ get_next_octet(framing_io[p].queue).octet # Begin
           /\ get_next_octet(framing_io[p].queue).rest = framing_io[p].queue
<1> DEFINE port == framing_io[p]
           q == port.queue
           l == line[p]
           d == delivered[p]
           a == script[p].msgs
<1>1. /\ Sent(a) /\ InStep(a, port, Cat(q, l), buf, d) /\ q \in Seq(Octets) /\ l \in Seq(Octets)
      /\ port.state # "UNINITIALIZED" /\ ~get_next_octet(q).rv
  BY InStepIs, PortIs
<1> HIDE DEF port, q, l, d, a
<1>2. get_next_octet(q).octet # Begin /\ get_next_octet(q).rest = q
  BY <1>1, MissedInFrame
<1> QED BY <1>2 DEF port, q

LEMMA MissOctetInStep ==
    ASSUME ReaderTypes, NEW p \in Ports, PortInStep(p), MissOctet(p) PROVE PortInStep(p)'
<1> DEFINE port == framing_io[p]
           got == get_next_octet(port.queue)
           max == Wanted[port.state]
<1>1. /\ port.state \in HeaderStates /\ ~got.rv
      /\ script' = script /\ buf' = buf /\ delivered' = delivered
  BY WantedIs DEF MissOctet
<1>2. CASE script[p].noise # << >>
  BY <1>1, <1>2 DEF PortInStep
<1>3. CASE script[p].noise = << >>
  <2>1. got.octet # Begin /\ got.rest = port.queue
    BY <1>1, <1>3, MissIs DEF HeaderStates
  <2>2. PICK n \in Readable(p, got.rest, max) :
          LET restart == n = 0 /\ got.octet = Begin
          IN  ReadTo(p, n, [port EXCEPT !.state = IF restart THEN "SRC_ADDR" ELSE @], got.rest)
    BY DEF MissOctet
  <2>3. [port EXCEPT !.state = port.state] = port
    BY PortIs DEF IOs
  <2>4. ReadTo(p, n, port, port.queue)
    BY <2>1, <2>2, <2>3
  <2>5. n \in Nat /\ n <= Len(line[p])
    <3>1. /\ port.queue \in Seq(Octets) /\ line[p] \in Seq(Octets) /\ Len(port.queue) < ReadBuffer
          /\ max \in Nat
      BY <1>1, PortIs, WantedIs
    <3>2. n \in Readable(p, port.queue, max)
      BY <2>1
    <3> HIDE DEF max, got, port
    <3> QED BY <3>1, <3>2, ReadableIs
  <2> HIDE DEF port, got, max
  <2> QED BY <1>1, <2>4, <2>5, ReadToInStep DEF port
<1> QED BY <1>2, <1>3

LEMMA MissPayloadInStep ==
    ASSUME ReaderTypes, NEW p \in Ports, PortInStep(p), MissPayload(p) PROVE PortInStep(p)'
<1> DEFINE port == framing_io[p]
           got == get_next_octet(port.queue)
           max == port.len - port.pos + 2
<1>1. /\ port.state = "PAYLOAD" /\ port.pos < port.len /\ ~got.rv
      /\ script' = script /\ buf' = buf /\ delivered' = delivered
  BY DEF MissPayload
<1>2. CASE script[p].noise # << >>
  BY <1>1, <1>2 DEF PortInStep
<1>3. CASE script[p].noise = << >>
  <2>1. got.octet # Begin /\ got.rest = port.queue
    BY <1>1, <1>3, MissIs
  <2>2. PICK n \in Readable(p, got.rest, max) : ReadTo(p, n, port, got.rest)
    BY <2>1 DEF MissPayload
  <2>4. ReadTo(p, n, port, port.queue)
    BY <2>1, <2>2
  <2>5. n \in Nat /\ n <= Len(line[p])
    <3>1. /\ port.queue \in Seq(Octets) /\ line[p] \in Seq(Octets) /\ Len(port.queue) < ReadBuffer
          /\ port.pos \in Nat /\ port.len \in Nat
      BY PortIs
    <3>2. max \in Nat
      BY <1>1, <3>1
    <3>3. n \in Readable(p, port.queue, max)
      BY <2>1
    <3> HIDE DEF max, got, port
    <3> QED BY <3>1, <3>2, <3>3, ReadableIs
  <2> HIDE DEF port, got, max
  <2> QED BY <1>1, <2>4, <2>5, ReadToInStep DEF port
<1> QED BY <1>2, <1>3

LEMMA ReadPayloadInStep ==
    ASSUME ReaderTypes, NEW p \in Ports, PortInStep(p), ReadPayload(p) PROVE PortInStep(p)'
<1> DEFINE port == framing_io[p]
           q == port.queue
           got == get_next_octet(q)
           t == [port EXCEPT !.queue = got.rest, !.pos = @ + 1,
                           !.cmp = update_crc(@, got.octet)]
           l == line[p]
           d == delivered[p]
           a == script[p].msgs
<1>1. /\ port.state = "PAYLOAD" /\ port.pos < port.len /\ got.rv
      /\ script' = script /\ delivered' = delivered
      /\ buf' = [buf EXCEPT ![port.pos + 1] = got.octet] /\ Set(p, t)
  BY DEF ReadPayload
<1>2. framing_io'[p] = t /\ line'[p] = l
  BY <1>1, SetMoves
<1>3. ASSUME script[p].noise = << >>
      PROVE  InStep(a, t, Cat(t.queue, l), buf', delivered'[p])
  <2>1. /\ Sent(a) /\ InStep(a, port, Cat(q, l), buf, d) /\ q \in Seq(Octets) /\ l \in Seq(Octets)
        /\ port \in IOs
    BY <1>3, InStepIs, PortIs
  <2>2. buf \in [1 .. MaxMessage -> Octets]
    BY DEF ReaderTypes
  <2>3. PayloadTaken(port, got.rest, got.octet, t, buf, buf')
    BY <1>1 DEF PayloadTaken
  <2>4. delivered'[p] = d
    BY <1>1
  <2> HIDE DEF port, q, l, d, a, t
  <2>5. InStep(a, t, Cat(t.queue, l), buf', d)
    BY <1>1, <2>1, <2>2, <2>3, PayloadInStep
  <2> QED BY <2>4, <2>5
<1> HIDE DEF t
<1> QED BY <1>1, <1>2, <1>3, PortMoves

LEMMA EndPayloadInStep ==
    ASSUME ReaderTypes, NEW p \in Ports, PortInStep(p), EndPayload(p) PROVE PortInStep(p)'
<1> DEFINE port == framing_io[p]
           q == port.queue
           t == [port EXCEPT !.state = "CRC_LSB"]
           l == line[p]
           d == delivered[p]
           a == script[p].msgs
<1>1. /\ port.state = "PAYLOAD" /\ port.pos = port.len
      /\ script' = script /\ delivered' = delivered /\ buf' = buf /\ Set(p, t)
  BY DEF EndPayload
<1>2. framing_io'[p] = t /\ line'[p] = l
  BY <1>1, SetMoves
<1>3. port \in IOs /\ t.queue = q
  BY PortIs DEF IOs
<1>4. ASSUME script[p].noise = << >>
      PROVE  InStep(a, t, Cat(t.queue, l), buf', delivered'[p])
  <2>1. Sent(a) /\ InStep(a, port, Cat(q, l), buf, d)
    BY <1>4, InStepIs
  <2> DEFINE s == Cat(q, l)
  <2> HIDE DEF port, d, a, s
  <2>2. InStep(a, t, s, buf, d)
    BY <1>1, <1>3, <2>1, PayloadEndInStep DEF s
  <2> QED BY <1>1, <1>3, <2>2 DEF s, d
<1> HIDE DEF t
<1> QED BY <1>1, <1>2, <1>4, PortMoves

LEMMA ReadOctetInStep ==
    ASSUME ReaderTypes, NEW p \in Ports, PortInStep(p), ReadOctet(p) PROVE PortInStep(p)'
<1> DEFINE port == framing_io[p]
           q == port.queue
           got == get_next_octet(q)
           fio == [port EXCEPT !.queue = got.rest]
           t == OctetTaken(fio, got.octet)
           l == line[p]
           d == delivered[p]
           a == script[p].msgs
<1>1. /\ port.state \in HeaderStates /\ got.rv
      /\ script' = script /\ buf' = buf /\ Set(p, t)
      /\ IF port.state = "CRC_MSB" THEN Deliver(p, t) ELSE delivered' = delivered
  BY WantedIs DEF ReadOctet
<1>2. framing_io'[p] = t /\ line'[p] = l
  BY <1>1, SetMoves
<1>3. ASSUME script[p].noise = << >>
      PROVE  InStep(a, t, Cat(t.queue, l), buf', delivered'[p])
  <2>1. /\ Sent(a) /\ InStep(a, port, Cat(q, l), buf, d) /\ q \in Seq(Octets) /\ l \in Seq(Octets)
        /\ port \in IOs
    BY <1>3, InStepIs, PortIs
  <2>2. got.rest \in Seq(Octets)
    BY <2>1, GotIs
  <2>3. CASE port.state # "CRC_MSB"
    <3>1. delivered'[p] = d
      BY <1>1, <2>3
    <3> HIDE DEF port, q, l, d, a, t, fio, got
    <3>2. got = get_next_octet(q) /\ fio = [port EXCEPT !.queue = got.rest] /\ t = OctetTaken(fio, got.octet)
      BY DEF got, fio, t
    <3>3. InStep(a, t, Cat(t.queue, l), buf, d)
      BY <1>1, <2>1, <2>2, <2>3, <3>2, HeaderInStep
    <3> QED BY <1>1, <3>1, <3>3
  <2>4. CASE port.state = "CRC_MSB"
    <3> DEFINE R == [remote : Octets, msg : Seq(Octets)]
               e == [remote |-> t.remote, msg |-> SubSeq(buf, 1, t.len)]
    <3>1. buf \in [1 .. MaxMessage -> Octets] /\ delivered \in [Ports -> Seq(R)]
      BY DEF ReaderTypes
    <3> HIDE DEF R
    <3>2. d \in Seq(R)
      BY <3>1
    <3>3. Deliver(p, t)
      BY <1>1, <2>4
    <3>4. HandedOn(t, buf, e) /\ LastRead(port, q, t)
      BY <1>1, <2>2 DEF HandedOn, LastRead
    <3> HIDE DEF port, q, l, d, a, t, e
    <3>5. t.cmp = t.crc /\ t.len > 0 /\ InStep(a, t, Cat(t.queue, l), buf, Append(d, e))
      BY <2>1, <2>4, <3>1, <3>2, <3>4, LastOctetInStep
    <3>6. delivered' = [delivered EXCEPT ![p] = Append(@, e)]
      BY <3>3, <3>5 DEF Deliver, e
    <3>7. delivered'[p] = Append(d, e)
      BY <3>1, <3>6 DEF d
    <3> QED BY <1>1, <3>5, <3>7
  <2> QED BY <2>3, <2>4
<1> HIDE DEF t
<1> QED BY <1>1, <1>2, <1>3, PortMoves

LEMMA InStepInit == ASSUME FrameReaderInit PROVE ReaderInStep
<1> SUFFICES ASSUME NEW p \in Ports, script[p].noise = << >>
             PROVE  InStep(script[p].msgs, framing_io[p], Unread(p), buf, delivered[p])
  BY DEF ReaderInStep, PortInStep
<1> DEFINE a == script[p].msgs
           port == framing_io[p]
           d == delivered[p]
           s == Unread(p)
<1>1. script[p] \in Scripts /\ line[p] = Sequence(script[p]) /\ port = NewIO /\ d = << >>
  BY DEF FrameReaderInit
<1>2. /\ a \in Seq(Seq(Octets)) /\ Sequence(script[p]) = FramesFrom(a)[1]
      /\ Sequence(script[p]) \in Seq(Octets)
  BY <1>1, SequenceIs
<1>3. port.state = "UNINITIALIZED" /\ port.queue = << >>
  BY <1>1 DEF NewIO
<1>4. s = FramesFrom(a)[1]
  BY <1>1, <1>2, <1>3, CatEmpty DEF Unread
<1>5. Len(a) \in Nat /\ Len(d) = 0
  BY <1>1, <1>2
<1> HIDE DEF a, port, d, s
<1>6. 0 \in 0 .. Len(a) /\ 0 + 1 = 1 /\ 1 .. 0 = {}
  BY <1>5
<1>7. Arrived(a, 0, d)
  BY <1>5, <1>6 DEF Arrived
<1>8. Between(a, 0, port, s)
  BY <1>3, <1>4, <1>6 DEF Between
<1>9. InStep(a, port, s, buf, d)
  BY <1>6, <1>7, <1>8 DEF InStep
<1> QED BY <1>9 DEF a, port, d, s

LEMMA InStepNext ==
    ASSUME \A p, q \in Ports : p = q, ReaderTypes, ReaderInStep,
           [FrameReaderNext]_frame_reader_vars
    PROVE  ReaderInStep'
<1>1. CASE UNCHANGED frame_reader_vars
  <2> SUFFICES ASSUME NEW p \in Ports PROVE PortInStep(p)'
    BY DEF ReaderInStep
  <2>1. PortInStep(p)
    BY DEF ReaderInStep
  <2> QED BY <1>1, <2>1 DEF frame_reader_vars, PortInStep, Unread
<1>2. ASSUME NEW p \in Ports, Call(p) \/ Turn(p) PROVE ReaderInStep'
  <2>1. PortInStep(p)
    BY DEF ReaderInStep
  <2>2. PortInStep(p)'
    BY <1>2, <2>1, CallInStep, FindBeginInStep, ReadOctetInStep, MissOctetInStep,
       ReadPayloadInStep, MissPayloadInStep, EndPayloadInStep DEF Turn
  <2> QED BY <2>2 DEF ReaderInStep
<1> QED BY <1>1, <1>2 DEF FrameReaderNext

\* When nothing is left of what was sent, all messages have arrived.
LEMMA NothingLeft ==
    ASSUME NEW msgs, Sent(msgs), NEW port, NEW s, s = << >>, NEW b, NEW d,
           InStep(msgs, port, s, b, d)
    PROVE  Arrived(msgs, Len(msgs), d)
<1>1. PICK k \in 0 .. Len(msgs) :
         Arrived(msgs, k, d) /\ (Between(msgs, k, port, s) \/ Within(msgs, k, port, s, b))
  BY DEF InStep
<1> DEFINE n == Len(msgs)
<1>2. n \in Nat /\ msgs \in Seq(Seq(Octets))
  BY DEF Sent
<1> HIDE DEF n
<1>3. k \in 0 .. n
  BY <1>1 DEF n
<1>4. k \in Nat /\ (k < n \/ k = n)
  BY <1>2, <1>3
<1>5. CASE k = n
  BY <1>1, <1>5 DEF n
<1>6. CASE k < n
  <2> DEFINE m == msgs[k + 1]
             f == FramesFrom(msgs)[k + 2]
  <2>1. /\ m \in Seq(Octets) /\ f \in Seq(Octets)
        /\ FramesFrom(msgs)[k + 1] = Cat(Frame(Remote, Local, m), f)
    BY <1>4, <1>6, AtMessage DEF n
  <2> HIDE DEF f
  <2>2. ~Between(msgs, k, port, s)
    <3> DEFINE y == <<Begin>>
               r == Incoming(m)[1]
    <3>1. Len(m) \in Nat
      BY <2>1
    <3>2. 1 \in 1 .. Len(m) + 7
      BY <3>1
    <3> HIDE DEF m
    <3>3. Frame(Remote, Local, m) = Cat(y, r) /\ r \in Seq(Octets)
      BY <2>1, <3>2, IncomingIs
    <3>4. y \in Seq(Octets) /\ y # << >>
      <4>1. Begin \in Octets
        BY OctetsIs DEF Begin
      <4> QED BY <4>1
    <3> HIDE DEF y, r
    <3>5. FramesFrom(msgs)[k + 1] = Cat(Cat(y, r), f)
      BY <2>1, <3>3
    <3>6. Cat(y, r) # << >> /\ Cat(y, r) \in Seq(Octets)
      BY <3>3, <3>4, FirstOfCat, CatIs
    <3>7. Cat(Cat(y, r), f) # << >>
      BY <2>1, <3>6, FirstOfCat
    <3> QED BY <3>5, <3>7 DEF Between
  <2>3. ~Within(msgs, k, port, s, b)
    <3> SUFFICES ASSUME NEW j \in 1 .. Len(m) + 6, s = Cat(Incoming(m)[j], f)
                 PROVE  FALSE
      BY DEF Within, f
    <3> HIDE DEF m
    <3> DEFINE e == EscapeOctet(Body(Remote, Local, m)[j])
               u == Incoming(m)[j + 1]
               l == Len(m)
               i == j + 1
    <3>1. Body(Remote, Local, m)[j] \in Octets /\ Incoming(m)[j] = Cat(e, u)
      BY <2>1, IncomingIs
    <3>2. u \in Seq(Octets)
      <4>1. l \in Nat
        BY <2>1
      <4>2. \A h \in 1 .. l + 7 : Incoming(m)[h] \in Seq(Octets)
        BY <2>1, IncomingIs
      <4>3. j \in 1 .. l + 6
        OBVIOUS
      <4> HIDE DEF l
      <4>4. i \in 1 .. l + 7
        BY <4>1, <4>3
      <4> HIDE DEF i
      <4>5. Incoming(m)[i] \in Seq(Octets)
        BY <4>2, <4>4
      <4> QED BY <4>5 DEF i
    <3>3. e \in Seq(Octets) /\ e # << >>
      BY <3>1, EscapedIsSome
    <3> HIDE DEF e, u
    <3>4. Cat(e, u) # << >> /\ Cat(e, u) \in Seq(Octets)
      BY <3>2, <3>3, FirstOfCat, CatIs
    <3>5. Cat(Cat(e, u), f) # << >>
      BY <2>1, <3>4, FirstOfCat
    <3> QED BY <3>1, <3>5
  <2> QED BY <1>1, <2>2, <2>3
<1> QED BY <1>4, <1>5, <1>6

\* The messages that arrived.
LEMMA ReceivedIs ==
    ASSUME NEW p, NEW msgs, Sent(msgs), NEW k, Arrived(msgs, k, delivered[p]),
           NEW R, delivered[p] \in Seq(R)
    PROVE  /\ IsPrefix(Received(p), msgs)
           /\ k = Len(msgs) => Received(p) = msgs
<1> DEFINE d == delivered[p]
           n == Len(msgs)
           r == Received(p)
<1>1. /\ msgs \in Seq(Seq(Octets)) /\ n \in Nat /\ k \in 0 .. n /\ d \in Seq(R) /\ Len(d) = k
      /\ \A i \in 1 .. k : d[i].msg = msgs[i]
  BY DEF Sent, Arrived
<1>2. k \in Nat /\ k <= n
  BY <1>1
<1>3. DOMAIN d = 1 .. k
  BY <1>1
<1>4. r = [i \in 1 .. k |-> d[i].msg]
  BY <1>3 DEF Received
<1>5. \A i \in 1 .. k : i \in 1 .. n /\ msgs[i] \in Seq(Octets)
  <2>1. \A i \in 1 .. k : i \in 1 .. n
    BY <1>1, <1>2
  <2> QED BY <1>1, <2>1
<1> HIDE DEF d, n, r
<1>6. r \in Seq(Seq(Octets)) /\ Len(r) = k /\ \A i \in 1 .. k : r[i] = msgs[i]
  <2>1. r = [i \in 1 .. k |-> msgs[i]]
    BY <1>1, <1>4
  <2> QED BY <1>2, <1>5, <2>1
<1>7. r = SubSeq(msgs, 1, k) /\ SubSeq(r, 1, k) = r
  <2>1. SubSeq(msgs, 1, k) \in Seq(Seq(Octets)) /\ Len(SubSeq(msgs, 1, k)) = k
        /\ \A i \in 1 .. k : SubSeq(msgs, 1, k)[i] = msgs[i]
    BY <1>1, <1>2, <1>5 DEF n
  <2>2. SubSeq(r, 1, k) = r
    BY <1>6
  <2> QED BY <1>6, <2>1, <2>2, SeqEqual
<1>8. IsPrefix(r, msgs)
  BY <1>2, <1>6, <1>7 DEF IsPrefix, n
<1>9. ASSUME k = n PROVE r = msgs
  BY <1>1, <1>6, <1>9, SeqEqual DEF n
<1> QED BY <1>8, <1>9 DEF r, n

LEMMA InStepArrives == ASSUME ReaderTypes, ReaderInStep PROVE CleanLineArrives
<1> SUFFICES ASSUME NEW p \in Ports, script[p].noise = << >>
             PROVE  /\ IsPrefix(Received(p), script[p].msgs)
                    /\ Drained(p) => Received(p) = script[p].msgs
  BY DEF CleanLineArrives
<1> DEFINE a == script[p].msgs
           d == delivered[p]
           R == [remote : Octets, msg : Seq(Octets)]
<1>1. Sent(a) /\ InStep(a, framing_io[p], Cat(framing_io[p].queue, line[p]), buf, d)
  BY InStepIs DEF ReaderInStep
<1>2. d \in Seq(R)
  BY DEF ReaderTypes
<1> HIDE DEF R
<1>3. IsPrefix(Received(p), a)
  <2>1. PICK k \in 0 .. Len(a) : Arrived(a, k, d)
    BY <1>1 DEF InStep
  <2> QED BY <1>1, <1>2, <2>1, ReceivedIs
<1>4. ASSUME Drained(p) PROVE Received(p) = a
  <2>1. Cat(framing_io[p].queue, line[p]) = << >>
    <3>1. framing_io[p].queue = << >> /\ line[p] = << >>
      BY <1>4 DEF Drained
    <3>2. << >> \in Seq(Octets)
      OBVIOUS
    <3> QED BY <3>1, <3>2, CatEmpty
  <2>2. Arrived(a, Len(a), d)
    <3> DEFINE s == Cat(framing_io[p].queue, line[p])
               port == framing_io[p]
    <3>1. s = << >> /\ Sent(a) /\ InStep(a, port, s, buf, d)
      BY <1>1, <2>1
    <3> HIDE DEF s, port, a, d
    <3> QED BY <3>1, NothingLeft
  <2> QED BY <1>1, <1>2, <2>2, ReceivedIs
<1> QED BY <1>3, <1>4

(* With one port, whatever the messages are and however reads and calls    *)
(* cut the line: on a line without noise every message arrives, once, in   *)
(* order and as it was sent, and none is missing when the line is read.    *)
THEOREM CleanLineIsRead ==
    ASSUME \A p, q \in Ports : p = q
    PROVE  FrameReaderSpec => []CleanLineArrives
<1>1. FrameReaderInit => ReaderInStep
  BY InStepInit
<1>2. ReaderTypes /\ ReaderInStep /\ [FrameReaderNext]_frame_reader_vars => ReaderInStep'
  BY InStepNext
<1>3. ReaderTypes /\ ReaderInStep => CleanLineArrives
  BY InStepArrives
<1> QED BY <1>1, <1>2, <1>3, ReaderTyped, PTL DEF FrameReaderSpec

LEMMA TailIsSuffix == ASSUME NEW S, NEW m \in Seq(S), m # << >> PROVE IsSuffix(Tail(m), m)
<1> DEFINE n == Len(m)
           t == Tail(m)
           a == Reverse(t)
           b == Reverse(m)
<1>1. /\ n \in Nat /\ n >= 1 /\ t \in Seq(S) /\ Len(t) = n - 1
      /\ \A i \in 1 .. n - 1 : t[i] = m[i + 1]
  OBVIOUS
<1>2. a = [i \in 1 .. n - 1 |-> t[(n - 1 - i) + 1]] /\ b = [i \in 1 .. n |-> m[(n - i) + 1]]
  BY <1>1 DEF Reverse
<1>3. ASSUME NEW i \in 1 .. n - 1
      PROVE  a[i] \in S /\ a[i] = b[i] /\ i \in 1 .. n
  <2> DEFINE j == (n - 1 - i) + 1
  <2>1. j \in 1 .. n - 1 /\ j + 1 = (n - i) + 1 /\ j + 1 \in 1 .. n /\ i \in 1 .. n
    BY <1>1
  <2>2. a[i] = t[j] /\ b[i] = m[(n - i) + 1]
    BY <1>2, <2>1
  <2> HIDE DEF j, a, b, t
  <2>3. t[j] = m[j + 1]
    BY <1>1, <2>1
  <2>4. m[j + 1] \in S
    BY <2>1
  <2> QED BY <2>1, <2>2, <2>3, <2>4
<1>4. ASSUME NEW i \in 1 .. n PROVE b[i] \in S
  <2>1. (n - i) + 1 \in 1 .. n
    BY <1>1
  <2> QED BY <1>2, <2>1
<1> HIDE DEF a, b, t, n
<1>5. a \in Seq(S) /\ Len(a) = n - 1 /\ b \in Seq(S) /\ Len(b) = n
  <2>1. n - 1 \in Nat
    BY <1>1
  <2>2. a \in [1 .. n - 1 -> S] /\ b \in [1 .. n -> S]
    BY <1>2, <1>3, <1>4
  <2> QED BY <1>1, <2>1, <2>2
<1>6. SubSeq(a, 1, n - 1) = a
  <2>1. n - 1 \in Nat
    BY <1>1
  <2> QED BY <1>5, <2>1
<1>7. SubSeq(b, 1, n - 1) = a
  <2>1. n - 1 \in Nat /\ n - 1 <= n
    BY <1>1
  <2>2. /\ SubSeq(b, 1, n - 1) \in Seq(S) /\ Len(SubSeq(b, 1, n - 1)) = n - 1
        /\ \A i \in 1 .. n - 1 : SubSeq(b, 1, n - 1)[i] = b[i]
    BY <1>3, <1>5, <2>1
  <2> QED BY <1>3, <1>5, <2>2, SeqEqual
<1>8. Len(a) <= Len(b)
  BY <1>1, <1>5
<1>9. IsPrefix(a, b)
  BY <1>5, <1>6, <1>7, <1>8 DEF IsPrefix
<1> QED BY <1>9 DEF IsSuffix, a, b, t

LEMMA InStepWasSent ==
    ASSUME ReaderTypes, ReaderInStep, \A s \in Scripts : s.noise = << >>
    PROVE  DeliveredWasSent
<1> SUFFICES ASSUME NEW p \in Ports, NEW i \in DOMAIN delivered[p]
             PROVE  /\ delivered[p][i].remote = Remote
                    /\ delivered[p][i].msg \in Range(script[p].msgs)
  BY DEF DeliveredWasSent
<1> DEFINE msgs == script[p].msgs
           d == delivered[p]
           R == [remote : Octets, msg : Seq(Octets)]
<1>1. Sent(msgs) /\ InStep(msgs, framing_io[p], Cat(framing_io[p].queue, line[p]), buf, d)
  BY ScriptIs, InStepIs DEF ReaderInStep
<1>2. PICK k \in 0 .. Len(msgs) : Arrived(msgs, k, d)
  BY <1>1 DEF InStep
<1>3. d \in Seq(R)
  BY DEF ReaderTypes
<1> HIDE DEF R
<1>4. msgs \in Seq(Seq(Octets)) /\ Len(msgs) \in Nat
  BY <1>1 DEF Sent
<1>5. i \in DOMAIN d
  OBVIOUS
<1> HIDE DEF msgs, d
<1>6. i \in 1 .. k
  BY <1>2, <1>3, <1>5 DEF Arrived
<1>7. d[i].msg = msgs[i] /\ d[i].remote = Remote
  BY <1>2, <1>6 DEF Arrived
<1>8. i \in 1 .. Len(msgs)
  BY <1>2, <1>4, <1>6
<1>9. i \in DOMAIN msgs
  BY <1>4, <1>8
<1> QED BY <1>7, <1>9 DEF Range, d, msgs

(* On clean lines the reader keeps everything it promises: with one port,  *)
(* and at least one message, it takes nothing for a message that is none,  *)
(* from nobody but its sender, and loses none.                             *)
THEOREM CleanReaderIsSafe ==
    ASSUME \A p, q \in Ports : p = q, \A s \in Scripts : s.noise = << >> /\ s.msgs # << >>
    PROVE  FrameReaderSpec => []FrameReaderInv
<1>1. FrameReaderInit => ReaderInStep
  BY InStepInit
<1>2. ReaderTypes /\ ReaderInStep /\ [FrameReaderNext]_frame_reader_vars => ReaderInStep'
  BY InStepNext
<1>3. ReaderTypes /\ ReaderInStep => DeliveredWasSent /\ CleanLineArrives
  BY InStepArrives, InStepWasSent
<1>4. ReaderTypes /\ CleanLineArrives => BackInStep
  <2> SUFFICES ASSUME ReaderTypes, CleanLineArrives, NEW p \in Ports, Drained(p)
               PROVE  IsSuffix(Tail(script[p].msgs), Received(p))
    BY DEF BackInStep
  <2> DEFINE msgs == script[p].msgs
  <2>1. msgs \in Seq(Seq(Octets)) /\ script[p].noise = << >> /\ msgs # << >>
    BY ScriptIs
  <2>2. Received(p) = msgs
    BY <2>1 DEF CleanLineArrives
  <2> HIDE DEF msgs
  <2>3. IsSuffix(Tail(msgs), msgs)
    BY <2>1, TailIsSuffix
  <2> QED BY <2>2, <2>3 DEF msgs
<1> QED BY <1>1, <1>2, <1>3, <1>4, ReaderTyped, ReaderStaysTyped, PTL
        DEF FrameReaderSpec, FrameReaderInv
=============================================================================
