--------------------------- MODULE OsvCache_proofs ---------------------------
(***************************************************************************)
(* Proofs about OsvCache: for any number of processes, any lifetimes and   *)
(* any contents of the cache directory, the canonical snapshot never goes  *)
(* back and a 304 resets the time of the right data.                       *)
(***************************************************************************)
EXTENDS OsvCache, FiniteSetTheorems, TLAPS

\* A non-empty set of dates has a latest one: of the sets of later dates, one
\* is minimal under inclusion.
LEMMA LatestDay ==
    ASSUME NEW D \in SUBSET Days, D # {}
    PROVE  \E d \in D : \A e \in D : e <= d
  <1> DEFINE Later(d) == {e \in Days : e > d}
             T == {Later(d) : d \in D}
             R == StrictSubsetOrdering(Days)
  <1>1. IsFiniteSet(Days)
    BY FS_Interval, BoundAssumption DEF Days
  <1>2. T \subseteq FiniteSubsetsOf(Days) /\ T # {}
    <2>1. FiniteSubsetsOf(Days) = SUBSET Days
      BY <1>1, FS_FiniteSubsetsOfFinite
    <2>2. \A d \in D : Later(d) \in SUBSET Days
      OBVIOUS
    <2> HIDE DEF Later
    <2> QED BY <2>1, <2>2
  <1>3. IsWellFoundedOn(R, FiniteSubsetsOf(Days))
    BY FS_StrictSubsetOrderingWellFounded
  <1>4. \E x \in T : \A y \in T : ~ (<<y, x>> \in R)
    <2> HIDE DEF T, R
    <2> QED BY <1>2, <1>3, WFMin
  <1>5. PICK d \in D : \A e \in D : ~ (<<Later(e), Later(d)>> \in R)
    BY <1>4
  <1>6. ASSUME NEW e \in D, ~(e <= d) PROVE FALSE
    <2>1. d \in Nat /\ e \in Nat /\ d < e
      BY <1>6, BoundAssumption DEF Days
    <2>2. Later(e) \subseteq Later(d) /\ e \in Later(d) /\ e \notin Later(e)
      BY <2>1, BoundAssumption DEF Days
    <2>3. <<Later(e), Later(d)>> \in R
      <3>1. Later(e) \in SUBSET Days /\ Later(d) \in SUBSET Days
        OBVIOUS
      <3>2. Later(e) # Later(d)
        BY <2>2
      <3> HIDE DEF Later
      <3> QED BY <2>2, <3>1, <3>2 DEF StrictSubsetOrdering
    <2> QED BY <1>5, <2>3
  <1> QED BY <1>5, <1>6

\* If there is any cache file, the one that is located exists: the canonical
\* file, or the dated file with the latest date.
LEMMA LocateFound ==
    ASSUME Located
    PROVE  /\ LocateCacheFile \in Names
           /\ Present(LocateCacheFile)
           /\ Present(Canonical) => LocateCacheFile = Canonical
           /\ ~Present(Canonical) =>
                /\ LocateCacheFile \in Dated
                /\ \A e \in Dated : e <= LocateCacheFile
  <1>1. CASE Present(Canonical)
    BY <1>1 DEF LocateCacheFile, Names
  <1>2. CASE ~Present(Canonical)
    <2>1. Dated \in SUBSET Days /\ Dated # {}
      BY <1>2 DEF Located, Dated
    <2>2. \E d \in Dated : \A e \in Dated : e <= d
      BY <2>1, LatestDay
    <2>3. LatestCacheFile \in Dated /\ \A e \in Dated : e <= LatestCacheFile
      BY <2>2 DEF LatestCacheFile
    <2> QED BY <1>2, <2>1, <2>3 DEF LocateCacheFile, Names, Dated
  <1> QED BY <1>1, <1>2

\* The file a call reads after one file was written: the same as before, or
\* the one that was written.
LEMMA LocateAfterWrite ==
    ASSUME Located, NEW n \in Names, NEW f \in Files,
           file \in [Names -> Files \cup {NoFile}],
           file' = [file EXCEPT ![n] = f]
    PROVE  /\ Located'
           /\ LocateCacheFile' \in Names
           /\ Present(LocateCacheFile)'
           /\ LocateCacheFile' = LocateCacheFile \/ LocateCacheFile' = n
  <1>1. \A m \in Names : Present(m)' <=> (Present(m) \/ m = n)
    BY SentinelAssumption DEF Present
  <1>2. Dated' = IF n \in Days THEN Dated \cup {n} ELSE Dated
    BY <1>1 DEF Dated, Names
  <1>3. Located'
    BY <1>1, <1>2 DEF Located, Names
  <1>4. /\ Present(Canonical) => LocateCacheFile = Canonical
        /\ ~Present(Canonical) =>
             LocateCacheFile \in Dated /\ \A e \in Dated : e <= LocateCacheFile
    BY LocateFound
  <1>5. /\ Present(Canonical)' => LocateCacheFile' = Canonical
        /\ ~Present(Canonical)' =>
             LocateCacheFile' \in Dated' /\ \A e \in Dated' : e <= LocateCacheFile'
    <2>1. CASE Present(Canonical)'
      BY <2>1 DEF LocateCacheFile
    <2>2. CASE ~Present(Canonical)'
      <3>1. Dated' \in SUBSET Days /\ Dated' # {}
        BY <1>3, <2>2 DEF Located, Dated
      <3>2. \E d \in Dated' : \A e \in Dated' : e <= d
        BY <3>1, LatestDay
      <3>3. LatestCacheFile' \in Dated' /\ \A e \in Dated' : e <= LatestCacheFile'
        BY <3>2 DEF LatestCacheFile
      <3> QED BY <2>2, <3>3 DEF LocateCacheFile
    <2> QED BY <2>1, <2>2
  <1>9. LocateCacheFile' \in Names /\ Present(LocateCacheFile)'
    <2>1. CASE Present(Canonical)'
      BY <1>5, <2>1 DEF Names
    <2>2. CASE ~Present(Canonical)'
      BY <1>5, <2>2 DEF Dated, Names
    <2> QED BY <2>1, <2>2
  <1>6. CASE Present(Canonical)
    BY <1>1, <1>9, <1>3, <1>4, <1>5, <1>6 DEF Names
  <1>7. CASE ~Present(Canonical) /\ n = Canonical
    BY <1>1, <1>3, <1>5, <1>7, <1>9 DEF Names
  <1>8. CASE ~Present(Canonical) /\ n # Canonical
    <2>1. n \in Days /\ ~Present(Canonical)' /\ Dated' = Dated \cup {n}
      BY <1>1, <1>2, <1>8 DEF Names
    <2>2. Dated \subseteq Nat /\ n \in Nat
      BY <2>1, BoundAssumption DEF Dated, Days
    <2>3. LocateCacheFile' \in Dated \cup {n} /\ LocateCacheFile \in Dated
      BY <1>4, <1>5, <1>8, <2>1
    <2>4. ASSUME LocateCacheFile' # n PROVE LocateCacheFile' = LocateCacheFile
      <3>1. LocateCacheFile' \in Nat /\ LocateCacheFile \in Nat
        BY <2>2, <2>3
      <3>2. LocateCacheFile' <= LocateCacheFile
        BY <1>4, <1>8, <2>3, <2>4
      <3>3. LocateCacheFile <= LocateCacheFile'
        BY <1>5, <2>1, <2>3
      <3> QED BY <3>1, <3>2, <3>3
    <2> QED BY <1>3, <1>9, <2>4
  <1> QED BY <1>6, <1>7, <1>8, <1>3
\* Steps that leave the directory alone leave what is located alone.
LEMMA SameFiles ==
    ASSUME file' = file
    PROVE  /\ \A n \in Names : Present(n)' <=> Present(n)
           /\ Located' <=> Located
           /\ LocateCacheFile' = LocateCacheFile
  BY DEF Present, Located, Dated, LocateCacheFile, LatestCacheFile

\* A call's part of the invariant survives a step that changes neither the call
\* nor the directory; time and upstream only move forward.
LEMMA CallFrame ==
    ASSUME NEW c \in Calls, CallInv(c), now \in Nat, feed \in Nat,
           file \in [Names -> Files \cup {NoFile}],
           file' = file, now' \in Nat, now' >= now, feed' \in Nat, feed' >= feed
    PROVE  /\ c.out = Canonical <=> c.why # "update"
           /\ PresentInv(c)'
           /\ VersionInv(c)'
           /\ FreshInv(c)'
  <1>1. c.start \in Nat /\ c.ver \in Nat /\ c.src \in Names /\ c.out \in Names
    BY DEF Calls
  <1>2. Canonical \in Names
    BY DEF Names
  <1>3. ReadFrom(c)' = ReadFrom(c)
    BY SameFiles DEF ReadFrom
  <1>4. PresentInv(c)'
    BY <1>1, <1>3, SameFiles DEF CallInv, PresentInv, Present
  <1>5. VersionInv(c)'
    BY <1>1, <1>2, SameFiles DEF CallInv, VersionInv
  <1>6. FreshInv(c)'
    BY <1>1, <1>3, SameFiles DEF CallInv, FreshInv
  <1> QED BY <1>4, <1>5, <1>6 DEF CallInv, TargetInv
\* A step that gives process p the call c and leaves the directory alone keeps
\* the invariant if c satisfies its part of it and the lock goes along.
LEMMA CallStep ==
    ASSUME CacheInv, NEW p \in Procs, NEW c \in Calls, CallInv(c),
           call' = [call EXCEPT ![p] = c],
           file' = file, now' = now, feed' = feed,
           meta' \in [Names -> Nat \cup {NoMeta}], SnapshotInv',
           lock' \in Procs \cup {Free},
           LockHeld(c) <=> lock' = p,
           \A q \in Procs \ {p} : lock' = q <=> lock = q
    PROVE  CacheInv'
  <1>1. TypeOK /\ \A q \in Procs : CallInv(call[q])
    BY DEF CacheInv
  <1>2. call' \in [Procs -> Calls] /\ call'[p] = c
        /\ \A q \in Procs \ {p} : call'[q] = call[q]
    BY <1>1 DEF TypeOK
  <1>3. \A q \in Procs : LockHeld(call'[q]) <=> lock' = q
    BY <1>1, <1>2 DEF TypeOK
  <1>4. TypeOK'
    BY <1>1, <1>2, <1>3 DEF TypeOK, LockHeld
  <1>5. ASSUME NEW q \in Procs PROVE CallInv(call[q])'
    <2>1. PICK d \in Calls : d = call'[q] /\ CallInv(d)
      BY <1>1, <1>2 DEF TypeOK
    <2>2. now \in Nat /\ feed \in Nat /\ file \in [Names -> Files \cup {NoFile}]
      BY <1>1, BoundAssumption DEF TypeOK
    <2>3. /\ d.out = Canonical <=> d.why # "update"
          /\ PresentInv(d)' /\ VersionInv(d)' /\ FreshInv(d)'
      BY <2>1, <2>2, CallFrame
    <2> QED BY <2>1, <2>3 DEF CallInv, TargetInv
  <1> QED BY <1>4, <1>5 DEF CacheInv
\* The answer of a finished call promises nothing about the directory.
LEMMA RestingOK ==
    ASSUME CacheInv, NEW st \in {"idle", "nodir", "cold", "error", "updated"}
    PROVE  /\ Resting(st) \in Calls /\ CallInv(Resting(st))
           /\ ~LockHeld(Resting(st))
  BY BoundAssumption
     DEF CacheInv, TypeOK, Resting, Call, Calls, Names, Purposes, LockHeld, CallInv,
         TargetInv, PresentInv, VersionInv, FreshInv, Steps

\* The snapshot part of the invariant depends on files, sidecars and upstream.
LEMMA SnapshotFrame ==
    ASSUME CacheInv, file' = file, meta' = meta, feed' = feed
    PROVE  SnapshotInv'
  BY DEF CacheInv, SnapshotInv, Present

\* A failed call is at rest, or reads an existing file that it calls stale; in
\* both cases it does not hold the lock.
LEMMA FailedOK ==
    ASSUME CacheInv, NEW c \in Calls, CallInv(c), c.pc \in Steps
    PROVE  Failed(c) \in Calls /\ CallInv(Failed(c)) /\ ~LockHeld(Failed(c))
  <1>1. CASE c.why = "replace"
    <2>1. Failed(c) = Call("read", c.start, c.promised, c.src, c.out, c.why, c.ver,
                           c.at, TRUE)
      BY <1>1 DEF Failed
    <2>2. Located
      BY <1>1 DEF CallInv, PresentInv
    <2>3. Failed(c) \in Calls
      BY <2>1 DEF Call, Calls, Steps
    <2>4. Present(LocateCacheFile)
      BY <2>2, LocateFound
    <2> QED BY <1>1, <2>1, <2>2, <2>3, <2>4
            DEF Call, CallInv, TargetInv, PresentInv, VersionInv, FreshInv, ReadFrom,
                LockHeld
  <1>2. CASE c.why # "replace"
    BY <1>2, RestingOK DEF Failed
  <1> QED BY <1>1, <1>2

\* Refused and starting calls, and calls that die, are as the invariant asks.
LEMMA StartStep ==
    ASSUME CacheInv, NEW p \in Procs,
           ScanNoDir(p) \/ BeginScan(p) \/ BeginUpdate(p) \/ Crash(p)
    PROVE  CacheInv'
  <1>1. TypeOK /\ CallInv(call[p]) /\ call[p] \in Calls /\ now \in Nat /\ Canonical \in Names
    BY BoundAssumption DEF CacheInv, TypeOK, Names
  <1>2. AtRest(p) => lock # p
    BY <1>1 DEF TypeOK, AtRest, LockHeld
  <1>3. CASE ScanNoDir(p)
    BY <1>1, <1>2, <1>3, CallStep, RestingOK, SnapshotFrame DEF ScanNoDir, TypeOK
  <1>4. CASE Crash(p)
    <2>1. lock' \in Procs \cup {Free} /\ lock' # p
          /\ \A q \in Procs \ {p} : lock' = q <=> lock = q
      BY <1>1, <1>4, SentinelAssumption DEF Crash, TypeOK
    <2> QED BY <1>1, <1>4, <2>1, CallStep, RestingOK, SnapshotFrame DEF Crash, TypeOK
  <1>5. CASE BeginUpdate(p)
    <2> DEFINE c == Call("fetch", 0, 0, Canonical, now \div DayLength, "update", 0, 0, FALSE)
    <2>1. now \div DayLength \in Days
      <3>1. now \in 0..MaxTime
        BY <1>1 DEF TypeOK
      <3> QED BY <3>1, BoundAssumption DEF Days
    <2>2. c \in Calls /\ CallInv(c) /\ ~LockHeld(c)
      BY <1>1, <2>1, NamesAssumption
         DEF Call, Calls, Steps, Names, Purposes, LockHeld, CallInv, TargetInv,
             PresentInv, VersionInv, FreshInv
    <2> HIDE DEF c
    <2>3. call' = [call EXCEPT ![p] = c]
      BY <1>5 DEF BeginUpdate, c
    <2> QED BY <1>1, <1>2, <1>5, <2>2, <2>3, CallStep, SnapshotFrame DEF BeginUpdate, TypeOK
  <1>6. CASE BeginScan(p)
    <2>1. NewestDated \in Nat
      <3>1. CASE Dated = {}
        BY <3>1 DEF NewestDated
      <3>2. CASE Dated # {}
        <4>1. \E d \in Dated : \A e \in Dated : e <= d
          BY <3>2, LatestDay DEF Dated
        <4>2. LatestCacheFile \in Dated
          BY <4>1 DEF LatestCacheFile
        <4>3. file[LatestCacheFile] \in Files
          BY <1>1, <4>2 DEF Dated, Present, TypeOK, Names
        <4> QED BY <3>2, <4>3 DEF NewestDated, Files
      <3> QED BY <3>1, <3>2
    <2>2. CASE Located
      <3> DEFINE c == Call(Tier(Age(LocateCacheFile)), now, NewestDated, LocateCacheFile,
                           Canonical, "replace", 0, 0, FALSE)
      <3>1. LocateCacheFile \in Names /\ Present(LocateCacheFile)
        BY <2>2, LocateFound
      <3>2. file[LocateCacheFile].at \in Int /\ file[LocateCacheFile].data \in Nat
        BY <1>1, <3>1 DEF TypeOK, Present, Files
      <3>3. /\ Tier(Age(LocateCacheFile)) \in {"read", "lock", "cond"}
            /\ Tier(Age(LocateCacheFile)) = "read" =>
                 now - file[LocateCacheFile].at < FreshTTL
        BY <1>1, <3>2, TTLAssumption DEF Tier, Age
      <3>4. c \in Calls /\ ~LockHeld(c)
        BY <1>1, <2>1, <3>1, <3>3 DEF Call, Calls, Steps, Purposes, LockHeld
      <3>5. CallInv(c)
        BY <1>1, <2>2, <3>1, <3>3
           DEF Call, CallInv, TargetInv, PresentInv, VersionInv, FreshInv, ReadFrom
      <3> HIDE DEF c
      <3>6. call' = [call EXCEPT ![p] = c]
        BY <1>6, <2>2 DEF BeginScan, c
      <3> QED BY <1>1, <1>2, <1>6, <3>4, <3>5, <3>6, CallStep, SnapshotFrame
              DEF BeginScan, TypeOK
    <2>3. CASE ~Located
      <3> DEFINE c == Call("lock", now, NewestDated, Canonical, Canonical, "fill", 0, 0,
                           FALSE)
      <3>1. c \in Calls /\ ~LockHeld(c) /\ CallInv(c)
        BY <1>1, <2>1
           DEF Call, Calls, Steps, Purposes, LockHeld, CallInv, TargetInv, PresentInv,
               VersionInv, FreshInv
      <3> HIDE DEF c
      <3>2. call' = [call EXCEPT ![p] = c]
        BY <1>6, <2>3 DEF BeginScan, c
      <3> QED BY <1>1, <1>2, <1>6, <3>1, <3>2, CallStep, SnapshotFrame
              DEF BeginScan, TypeOK
    <2> QED BY <2>2, <2>3
  <1> QED BY <1>3, <1>4, <1>5, <1>6
\* Revalidation and the lock: an ETag that is sent is not newer than the data,
\* and whoever gets the lock finds nobody else between Lock and Unlock.
LEMMA RefreshStep ==
    ASSUME CacheInv, NEW p \in Procs,
           \/ CondSend(p) \/ CondReply(p) \/ CondError(p)
           \/ Lock(p) \/ LockTimeout(p) \/ Unlock(p)
    PROVE  CacheInv'
  <1> DEFINE b == call[p]
  <1>1. /\ TypeOK /\ SnapshotInv /\ CallInv(b) /\ b \in Calls /\ now \in Nat
        /\ feed \in Nat /\ Canonical \in Names
    BY BoundAssumption DEF CacheInv, TypeOK, Names
  <1>2. b.pc \notin {"fetch", "install", "meta", "unlock"} => lock # p
    BY <1>1 DEF TypeOK, LockHeld
  <1>3. CASE CondError(p) \/ LockTimeout(p)
    <2>1. b.pc \in Steps /\ lock # p
      BY <1>2, <1>3 DEF CondError, LockTimeout, Steps
    <2> QED BY <1>1, <1>3, <2>1, FailedOK, CallStep, SnapshotFrame
            DEF CondError, LockTimeout, TypeOK
  <1>4. CASE CondReply(p)
    <2> DEFINE c == Goto(b, IF b.ver = feed THEN "touch" ELSE "lock")
    <2>1. c \in Calls /\ ~LockHeld(c)
      BY <1>1 DEF Goto, Call, Calls, Steps, LockHeld
    <2>2. CallInv(c)
      BY <1>1, <1>4 DEF CondReply, Goto, Call, CallInv, TargetInv, PresentInv,
                        VersionInv, FreshInv, Steps
    <2> HIDE DEF c
    <2>3. call' = [call EXCEPT ![p] = c] /\ lock # p
      BY <1>2, <1>4 DEF CondReply, c
    <2> QED BY <1>1, <1>4, <2>1, <2>2, <2>3, CallStep, SnapshotFrame DEF CondReply, TypeOK
  <1>5. CASE CondSend(p)
    <2> DEFINE v == IF meta[b.src] = NoMeta THEN 0 ELSE meta[b.src]
               c == GotoWith(b, "reply", v)
    <2>1. v \in Nat /\ b.src \in Names
      BY <1>1 DEF TypeOK, Calls
    <2>2. b.src = Canonical => v <= file[Canonical].data
      <3>1. ASSUME b.src = Canonical PROVE file[Canonical].data \in Nat
        BY <1>1, <1>5, <3>1 DEF CondSend, CallInv, PresentInv, Present, TypeOK, Files
      <3> QED BY <1>1, <2>1, <3>1 DEF SnapshotInv
    <2> HIDE DEF v
    <2>3. c \in Calls /\ ~LockHeld(c)
      BY <1>1, <2>1 DEF GotoWith, Call, Calls, Steps, LockHeld
    <2>4. CallInv(c)
      BY <1>1, <1>5, <2>2 DEF CondSend, GotoWith, Call, CallInv, TargetInv, PresentInv,
                              VersionInv, FreshInv, Steps
    <2> HIDE DEF c
    <2>5. call' = [call EXCEPT ![p] = c] /\ lock # p
      BY <1>2, <1>5 DEF CondSend, c, v
    <2> QED BY <1>1, <1>5, <2>3, <2>4, <2>5, CallStep, SnapshotFrame DEF CondSend, TypeOK
  <1>6. CASE Lock(p)
    <2> DEFINE c == Goto(b, IF SkipIfPresent(b) THEN "unlock" ELSE "fetch")
    <2>1. b.why # "update" /\ b.out = Canonical
      BY <1>1, <1>6 DEF Lock, CallInv, TargetInv, PresentInv
    <2>2. c \in Calls /\ LockHeld(c)
      BY <1>1, <2>1 DEF Goto, Call, Calls, Steps, LockHeld
    <2>3. SkipIfPresent(b) => Present(Canonical) /\ b.start - file[Canonical].at < FreshTTL
      <3>1. ASSUME SkipIfPresent(b) PROVE file[Canonical].at \in Int
        BY <1>1, <3>1 DEF SkipIfPresent, Present, TypeOK, Files
      <3> QED BY <1>1, <3>1, TTLAssumption
              DEF SkipIfPresent, Age, CallInv, FreshInv, Calls
    <2>4. CallInv(c)
      BY <1>1, <1>6, <2>1, <2>3
         DEF Lock, Goto, Call, CallInv, TargetInv, PresentInv, VersionInv, FreshInv, Steps
    <2> HIDE DEF c
    <2>5. call' = [call EXCEPT ![p] = c]
      BY <1>6 DEF Lock, c
    <2>6. lock' = p /\ \A q \in Procs \ {p} : lock' = q <=> lock = q
      BY <1>6, SentinelAssumption DEF Lock
    <2> QED BY <1>1, <1>6, <2>2, <2>4, <2>5, <2>6, CallStep, SnapshotFrame DEF Lock, TypeOK
  <1>7. CASE Unlock(p)
    <2> DEFINE c == Goto(b, "read")
    <2>1. c \in Calls /\ ~LockHeld(c)
      BY <1>1 DEF Goto, Call, Calls, Steps, LockHeld
    <2>2. b.why # "update" /\ b.out = Canonical /\ Present(Canonical)
      BY <1>1, <1>7 DEF Unlock, CallInv, TargetInv, PresentInv
    <2>3. LocateCacheFile = Canonical /\ Located
      BY <2>2 DEF LocateCacheFile, Located
    <2>4. CallInv(c)
      BY <1>1, <1>7, <2>2, <2>3
         DEF Unlock, Goto, Call, CallInv, TargetInv, PresentInv, VersionInv, FreshInv,
             Steps, ReadFrom
    <2> HIDE DEF c
    <2>5. call' = [call EXCEPT ![p] = c]
      BY <1>7 DEF Unlock, c
    <2>6. lock = p
      BY <1>1, <1>7, <2>2 DEF Unlock, TypeOK, LockHeld
    <2>7. lock' = Free /\ lock' # p /\ \A q \in Procs \ {p} : lock' = q <=> lock = q
      BY <1>7, <2>6, SentinelAssumption DEF Unlock
    <2> QED BY <1>1, <1>7, <2>1, <2>4, <2>5, <2>7, CallStep, SnapshotFrame DEF Unlock, TypeOK
  <1> QED BY <1>3, <1>4, <1>5, <1>6, <1>7

\* Downloads and their sidecars: what is received is what upstream serves, not
\* older than what is in place, and the sidecar names the data next to it.
LEMMA DownloadStep ==
    ASSUME CacheInv, NEW p \in Procs,
           Fetch(p) \/ FetchError(p) \/ \E m \in Sidecars(call[p]) : SaveMeta(p, m)
    PROVE  CacheInv'
  <1> DEFINE b == call[p]
  <1>1. /\ TypeOK /\ SnapshotInv /\ CallInv(b) /\ b \in Calls /\ now \in Nat
        /\ feed \in Nat /\ Canonical \in Names
    BY BoundAssumption DEF CacheInv, TypeOK, Names
  <1>2. LockHeld(b) <=> lock = p
    BY <1>1 DEF TypeOK
  <1>3. CASE Fetch(p)
    <2> DEFINE c == GotoWith(b, "install", feed)
    <2>1. c \in Calls /\ (LockHeld(c) <=> LockHeld(b))
      BY <1>1, <1>3 DEF Fetch, GotoWith, Call, Calls, Steps, LockHeld
    <2>2. CallInv(c)
      BY <1>1, <1>3 DEF Fetch, GotoWith, Call, CallInv, TargetInv, PresentInv,
                        VersionInv, FreshInv, SnapshotInv, Steps
    <2> HIDE DEF c
    <2>3. call' = [call EXCEPT ![p] = c]
      BY <1>3 DEF Fetch, c
    <2> QED BY <1>1, <1>2, <1>3, <2>1, <2>2, <2>3, CallStep, SnapshotFrame DEF Fetch, TypeOK
  <1>4. CASE FetchError(p)
    <2>1. b.pc \in Steps
      BY <1>4 DEF FetchError, Steps
    <2>2. lock' # p /\ lock' \in Procs \cup {Free}
          /\ \A q \in Procs \ {p} : lock' = q <=> lock = q
      BY <1>1, <1>2, <1>4, SentinelAssumption DEF FetchError, LockHeld, TypeOK
    <2> QED BY <1>1, <1>4, <2>1, <2>2, FailedOK, CallStep, SnapshotFrame
            DEF FetchError, TypeOK
  <1>5. ASSUME NEW m \in Sidecars(call[p]), SaveMeta(p, m) PROVE CacheInv'
    <2>1. /\ b.out \in Names /\ b.ver \in Nat
          /\ m = b.ver \/ m = meta[b.out] \/ m = NoMeta
      BY <1>1, <1>5 DEF Calls, Sidecars
    <2>2. meta' \in [Names -> Nat \cup {NoMeta}]
      BY <1>1, <1>5, <2>1 DEF SaveMeta, TypeOK
    <2>3. \/ meta'[Canonical] = meta[Canonical]
          \/ meta'[Canonical] = NoMeta
          \/ meta'[Canonical] = file[Canonical].data /\ Present(Canonical)
      BY <1>1, <1>5, <2>1
         DEF SaveMeta, TypeOK, CallInv, TargetInv, PresentInv, VersionInv
    <2>4. Present(Canonical) => file[Canonical].data \in Nat
      BY <1>1 DEF Present, TypeOK, Files
    <2>5. SnapshotInv'
      BY <1>1, <1>5, <2>3, <2>4 DEF SaveMeta, SnapshotInv, Present
    <2>6. CASE b.why = "update"
      BY <1>1, <1>2, <1>5, <2>2, <2>5, <2>6, RestingOK, CallStep
         DEF SaveMeta, LockHeld, TypeOK
    <2>7. CASE b.why # "update"
      <3> DEFINE c == Goto(b, "unlock")
      <3>1. c \in Calls /\ LockHeld(c) /\ LockHeld(b)
        BY <1>1, <1>5, <2>7 DEF SaveMeta, Goto, Call, Calls, Steps, LockHeld
      <3>2. CallInv(c)
        BY <1>1, <1>5, <2>7 DEF SaveMeta, Goto, Call, CallInv, TargetInv, PresentInv,
                                VersionInv, FreshInv, Steps
      <3> HIDE DEF c
      <3>3. call' = [call EXCEPT ![p] = c]
        BY <1>5, <2>7 DEF SaveMeta, c
      <3> QED BY <1>1, <1>2, <1>5, <2>2, <2>5, <3>1, <3>2, <3>3, CallStep
              DEF SaveMeta, TypeOK
    <2> QED BY <2>6, <2>7
  <1> QED BY <1>3, <1>4, <1>5

\* Reading: the file is there, and it is fresh or called stale.
LEMMA ReadStep ==
    ASSUME CacheInv, NEW p \in Procs, ReadCache(p) \/ ReadCorrupt(p)
    PROVE  CacheInv'
  <1> DEFINE b == call[p]
             n == ReadFrom(b)
  <1>1. /\ TypeOK /\ SnapshotInv /\ CallInv(b) /\ b \in Calls /\ now \in Nat
        /\ Canonical \in Names /\ b.pc = "read"
    BY BoundAssumption DEF CacheInv, TypeOK, Names, ReadCache, ReadCorrupt
  <1>2. lock # p
    BY <1>1 DEF TypeOK, LockHeld
  <1>3. CASE ReadCache(p)
    <2> DEFINE c == Call("data", b.start, b.promised, Canonical, Canonical, "replace",
                         file[n].data, file[n].at, b.stale)
    <2>1. n \in Names
      <3>1. CASE b.why = "repair"
        BY <1>1, <3>1 DEF ReadFrom
      <3>2. CASE b.why # "repair"
        <4>1. Present(LocateCacheFile)
          BY <1>1, <3>2 DEF CallInv, PresentInv, ReadFrom
        <4>2. Located
          BY <1>1, <3>2 DEF CallInv, PresentInv, Steps
        <4> QED BY <3>2, <4>2, LocateFound DEF ReadFrom
      <3> QED BY <3>1, <3>2
    <2>2. file[n].data \in Nat /\ file[n].at \in Int
      BY <1>1, <2>1 DEF CallInv, PresentInv, Present, TypeOK, Files
    <2>3. b.start - file[n].at < FreshTTL \/ b.stale
      BY <1>1 DEF CallInv, FreshInv
    <2> HIDE DEF n
    <2>4. c \in Calls /\ ~LockHeld(c)
      BY <1>1, <2>2 DEF Call, Calls, Purposes, LockHeld
    <2>5. CallInv(c)
      BY <1>1, <2>3 DEF Call, CallInv, TargetInv, PresentInv, VersionInv, FreshInv, Steps
    <2> HIDE DEF c
    <2>6. call' = [call EXCEPT ![p] = c]
      BY <1>3 DEF ReadCache, c, n
    <2> QED BY <1>1, <1>2, <1>3, <2>4, <2>5, <2>6, CallStep, SnapshotFrame
            DEF ReadCache, TypeOK
  <1>4. CASE ReadCorrupt(p)
    <2> DEFINE c == Call("lock", b.start, b.promised, Canonical, Canonical, "repair",
                         0, 0, b.stale)
    <2>1. c \in Calls /\ ~LockHeld(c)
      BY <1>1 DEF Call, Calls, Steps, Purposes, LockHeld
    <2>2. CallInv(c)
      BY <1>1 DEF Call, CallInv, TargetInv, PresentInv, VersionInv, FreshInv
    <2> HIDE DEF c
    <2>3. call' = [call EXCEPT ![p] = c]
      BY <1>4 DEF ReadCorrupt, c
    <2> QED BY <1>1, <1>2, <1>4, <2>1, <2>2, <2>3, CallStep, SnapshotFrame
            DEF ReadCorrupt, TypeOK
  <1> QED BY <1>3, <1>4
\* Another call's part of the invariant survives that the file n is written
\* now: under the canonical name the data grows, and if it really changes no
\* other call is between its download and its sidecar.
LEMMA OtherCall ==
    ASSUME NEW c \in Calls, CallInv(c), NEW n \in Names, NEW f \in Files,
           file \in [Names -> Files \cup {NoFile}], file' = [file EXCEPT ![n] = f],
           now \in Nat, now' = now, feed \in Nat, feed' = feed, f.at = now,
           n = Canonical /\ Present(Canonical) => file[Canonical].data <= f.data,
           n = Canonical =>
             \/ ~LockHeld(c)
             \/ Present(Canonical) /\ file[Canonical].data = f.data
    PROVE  PresentInv(c)' /\ VersionInv(c)' /\ FreshInv(c)'
  <1>1. /\ c.start \in Nat /\ c.ver \in Nat /\ c.src \in Names /\ c.out \in Names
        /\ Canonical \in Names /\ f.data \in Nat
    BY DEF Calls, Names, Files
  <1>2. \A m \in Names : /\ Present(m)' <=> (Present(m) \/ m = n)
                         /\ m # n => file'[m] = file[m]
    BY SentinelAssumption DEF Present
  <1>3. file'[n] = f
    OBVIOUS
  <1>4. Located => Located' /\ LocateCacheFile \in Names
    BY LocateAfterWrite, LocateFound
  <1>5. c.pc = "read" => /\ ReadFrom(c) \in Names
                         /\ ReadFrom(c)' = ReadFrom(c) \/ ReadFrom(c)' = n
    BY <1>1, <1>4, LocateAfterWrite DEF ReadFrom, CallInv, PresentInv
  <1>6. PresentInv(c)'
    BY <1>1, <1>2, <1>4, <1>5 DEF CallInv, PresentInv
  <1>7. Present(Canonical) => file[Canonical].data \in Nat
    BY <1>1 DEF Present, Files
  <1>8. VersionInv(c)'
    <2>1. CASE n # Canonical
      BY <1>1, <1>2, <2>1 DEF CallInv, VersionInv
    <2>2. CASE n = Canonical
      <3>1. c.pc \in {"reply", "touch"} /\ c.src = Canonical => Present(Canonical)
        BY DEF CallInv, PresentInv
      <3> QED BY <1>1, <1>3, <1>7, <2>2, <3>1 DEF CallInv, VersionInv, LockHeld
    <2> QED BY <2>1, <2>2
  <1>9. FreshInv(c)'
    <2>1. c.start - f.at < FreshTTL
      BY <1>1, TTLAssumption DEF CallInv, FreshInv
    <2>2. \A m \in Names : file'[m] = file[m] \/ file'[m] = f
      BY <1>2, <1>3
    <2>3. c.pc \in {"cond", "reply", "touch"} =>
            LocateCacheFile' = c.src \/ c.start - file'[LocateCacheFile'].at < FreshTTL
      <3> SUFFICES ASSUME c.pc \in {"cond", "reply", "touch"}
                   PROVE  LocateCacheFile' = c.src
                            \/ c.start - file'[LocateCacheFile'].at < FreshTTL
        OBVIOUS
      <3>1. Located /\ LocateCacheFile \in Names
        BY <1>4 DEF CallInv, PresentInv, Steps
      <3>2. LocateCacheFile' = LocateCacheFile \/ LocateCacheFile' = n
        BY <3>1, LocateAfterWrite
      <3> QED BY <1>3, <2>1, <2>2, <3>1, <3>2 DEF CallInv, FreshInv
    <2> QED BY <1>1, <1>5, <2>1, <2>2, <2>3, <1>3 DEF CallInv, FreshInv
  <1> QED BY <1>6, <1>8, <1>9

\* Resetting a file's time after a 304, and renaming a download into place.
LEMMA WriteStep ==
    ASSUME CacheInv, NEW p \in Procs, Touch(p) \/ Install(p)
    PROVE  /\ CacheInv'
           /\ Present(Canonical) =>
                Present(Canonical)' /\ file'[Canonical].data >= file[Canonical].data
  <1> DEFINE b == call[p]
             n == IF b.pc = "touch" THEN b.src ELSE b.out
             f == [data |-> IF b.pc = "touch" THEN file[b.src].data ELSE b.ver, at |-> now]
             c == Goto(b, IF b.pc = "touch" THEN "read" ELSE "meta")
  <1>1. /\ TypeOK /\ SnapshotInv /\ CallInv(b) /\ b \in Calls /\ now \in Nat
        /\ feed \in Nat /\ Canonical \in Names
        /\ file \in [Names -> Files \cup {NoFile}]
    BY BoundAssumption DEF CacheInv, TypeOK, Names
  <1>2. n \in Names /\ b.ver \in Nat /\ b.start \in Nat
    BY <1>1 DEF Calls
  <1>3. f \in Files
    BY <1>1, <1>2 DEF Touch, Install, Files, CallInv, PresentInv, Present, TypeOK
  <1>4. /\ file' = [file EXCEPT ![n] = f] /\ call' = [call EXCEPT ![p] = c]
        /\ now' = now /\ feed' = feed /\ meta' = meta /\ lock' = lock
    BY DEF Touch, Install
  <1>5. b.pc = "touch" \/ b.pc = "install"
    BY DEF Touch, Install
  <1>6. LockHeld(b) <=> lock = p
    BY <1>1 DEF TypeOK
  <1>7. n = Canonical /\ Present(Canonical) =>
          file[Canonical].data <= f.data /\ f.data <= feed
    BY <1>1, <1>2, <1>3, <1>5
       DEF CallInv, TargetInv, VersionInv, SnapshotInv, Present, TypeOK, Files
  <1>8. n = Canonical => \/ Present(Canonical) /\ file[Canonical].data = f.data
                         \/ lock = p /\ f.data <= feed
    BY <1>1, <1>5, <1>6 DEF CallInv, TargetInv, PresentInv, VersionInv, LockHeld
  <1>9. c \in Calls /\ (LockHeld(c) <=> LockHeld(b))
    BY <1>1, <1>5 DEF Goto, Call, Calls, Steps, LockHeld, CallInv, PresentInv
  <1>10. f.at = now
    OBVIOUS
  <1>11. file'[n] = f /\ \A m \in Names : Present(m)' <=> (Present(m) \/ m = n)
    BY <1>1, <1>2, <1>3, <1>4, SentinelAssumption DEF Present
  <1>12. /\ c.start = b.start /\ c.ver = b.ver /\ c.out = b.out /\ c.why = b.why
         /\ c.stale = b.stale
         /\ c.pc = (IF b.pc = "touch" THEN "read" ELSE "meta")
    BY DEF Goto, Call
  <1>13. b.pc = "touch" => f.data = file[b.src].data
    OBVIOUS
  <1>14. b.pc = "install" => n = b.out /\ f.data = b.ver
    OBVIOUS
  <1>15. b.pc = "touch" => n = b.src
    OBVIOUS
  <1> HIDE DEF n, f, c
  <1>16. call' \in [Procs -> Calls] /\ call'[p] = c
         /\ \A q \in Procs \ {p} : call'[q] = call[q]
    BY <1>1, <1>4, <1>9 DEF TypeOK
  <1>17. TypeOK'
    <2>1. \A q \in Procs : LockHeld(call'[q]) <=> lock' = q
      BY <1>1, <1>4, <1>6, <1>9, <1>16 DEF TypeOK
    <2> QED BY <1>1, <1>2, <1>3, <1>4, <1>16, <2>1 DEF TypeOK, LockHeld
  <1>18. SnapshotInv'
    <2>1. Present(Canonical) => file[Canonical].data \in Nat
      BY <1>1 DEF Present, Files
    <2>2. meta[Canonical] # NoMeta => meta[Canonical] \in Nat
      BY <1>1 DEF TypeOK
    <2>3. CASE n # Canonical
      BY <1>1, <1>2, <1>4, <1>11, <2>3 DEF SnapshotInv
    <2>4. CASE n = Canonical
      <3>1. f.data \in Nat /\ f.data <= feed
        BY <1>3, <1>7, <1>8, <2>4 DEF Files
      <3> QED BY <1>1, <1>4, <1>7, <1>11, <2>1, <2>2, <2>4, <3>1 DEF SnapshotInv
    <2> QED BY <2>3, <2>4
  <1>19. ASSUME NEW q \in Procs \ {p} PROVE CallInv(call[q])'
    <2>1. PICK d \in Calls : d = call[q] /\ CallInv(d) /\ (LockHeld(d) <=> lock = q)
      BY <1>1 DEF CacheInv, TypeOK
    <2>2. n = Canonical => \/ ~LockHeld(d)
                           \/ Present(Canonical) /\ file[Canonical].data = f.data
      <3>1. lock = p => ~LockHeld(d)
        BY <2>1
      <3> QED BY <1>8, <3>1
    <2>3. PresentInv(d)' /\ VersionInv(d)' /\ FreshInv(d)'
      BY <1>1, <1>2, <1>3, <1>4, <1>7, <1>10, <2>1, <2>2, OtherCall
    <2> QED BY <1>16, <2>1, <2>3 DEF CallInv, TargetInv
  <1>20. CallInv(call[p])'
    <2>1. PICK d \in Calls : d = c
      BY <1>9
    <2>2. b.pc = "touch" => Located /\ b.why = "replace" /\ Present(b.src)
      BY <1>1 DEF CallInv, PresentInv, Steps
    <2>3. b.pc = "touch" => /\ Located' /\ LocateCacheFile' \in Names
                            /\ Present(LocateCacheFile)'
                            /\ LocateCacheFile' = LocateCacheFile \/ LocateCacheFile' = n
      BY <1>1, <1>2, <1>3, <1>4, <2>2, LocateAfterWrite
    <2>8. b.why = "replace" => Located'
      <3>1. b.pc \in Steps
        BY <1>5 DEF Steps
      <3> QED BY <1>1, <1>2, <1>3, <1>4, <3>1, LocateAfterWrite DEF CallInv, PresentInv
    <2>4. PresentInv(d)'
      <3>1. CASE b.pc = "touch"
        BY <1>12, <2>1, <2>2, <2>3, <3>1 DEF PresentInv, ReadFrom
      <3>2. CASE b.pc = "install"
        <4>1. d.pc = "meta" /\ d.why = b.why /\ d.out = n
          BY <1>12, <1>14, <2>1, <3>2
        <4>2. Present(d.out)'
          BY <1>2, <1>11, <4>1
        <4> QED BY <2>8, <4>1, <4>2 DEF PresentInv
      <3> QED BY <1>5, <3>1, <3>2
    <2>5. VersionInv(d)'
      BY <1>1, <1>5, <1>11, <1>12, <1>14, <2>1 DEF CallInv, TargetInv, VersionInv
    <2>6. FreshInv(d)'
      <3>1. b.start - f.at < FreshTTL /\ b.start <= now'
        BY <1>1, <1>2, <1>4, <1>10, TTLAssumption DEF CallInv, FreshInv
      <3>2. CASE b.pc = "install"
        BY <1>1, <1>11, <1>12, <1>14, <2>1, <3>1, <3>2 DEF CallInv, TargetInv, FreshInv
      <3>3. CASE b.pc = "touch"
        <4>1. d.pc = "read" /\ d.start = b.start /\ d.why = "replace"
          BY <1>12, <2>1, <2>2, <3>3
        <4>2. ReadFrom(d)' = LocateCacheFile'
          BY <4>1 DEF ReadFrom
        <4>3. b.start - file'[LocateCacheFile'].at < FreshTTL
          <5>1. CASE LocateCacheFile' = n
            BY <1>11, <3>1, <5>1
          <5>2. CASE LocateCacheFile' # n
            <6>1. LocateCacheFile' = LocateCacheFile /\ LocateCacheFile # b.src
              BY <1>15, <2>3, <3>3, <5>2
            <6>2. file'[LocateCacheFile'] = file[LocateCacheFile]
              BY <1>1, <1>2, <1>4, <2>3, <3>3, <5>2, <6>1
            <6> QED BY <1>1, <3>3, <6>1, <6>2 DEF CallInv, FreshInv
          <5> QED BY <5>1, <5>2
        <4> QED BY <3>1, <4>1, <4>2, <4>3 DEF FreshInv
      <3> QED BY <1>5, <3>2, <3>3
    <2>7. d.out = Canonical <=> d.why # "update"
      BY <1>1, <1>12, <2>1 DEF CallInv, TargetInv
    <2> QED BY <1>16, <2>1, <2>4, <2>5, <2>6, <2>7 DEF CallInv, TargetInv
  <1>21. CacheInv'
    BY <1>17, <1>18, <1>19, <1>20 DEF CacheInv
  <1>22. Present(Canonical) =>
           Present(Canonical)' /\ file'[Canonical].data >= file[Canonical].data
    BY <1>1, <1>2, <1>3, <1>4, <1>7, <1>11 DEF Present, Files
  <1> QED BY <1>21, <1>22

\* Time passes and upstream publishes: no call's knowledge becomes wrong.
LEMMA TimeStep ==
    ASSUME CacheInv, Tick \/ Publish
    PROVE  CacheInv'
  <1>1. /\ TypeOK /\ SnapshotInv /\ now \in Nat /\ feed \in Nat
        /\ file \in [Names -> Files \cup {NoFile}]
    BY BoundAssumption DEF CacheInv, TypeOK
  <1>2. /\ file' = file /\ meta' = meta /\ lock' = lock /\ call' = call
        /\ now' \in 0..MaxTime /\ now' >= now /\ feed' \in Nat /\ feed' >= feed
    BY <1>1, BoundAssumption DEF Tick, Publish, TypeOK
  <1>3. TypeOK'
    BY <1>1, <1>2 DEF TypeOK, LockHeld
  <1>4. SnapshotInv'
    <2>1. Present(Canonical) => file[Canonical].data \in Nat
      BY <1>1 DEF Present, Files, Names
    <2> QED BY <1>1, <1>2, <2>1 DEF SnapshotInv, Present
  <1>5. ASSUME NEW q \in Procs PROVE CallInv(call[q])'
    <2>1. PICK d \in Calls : d = call[q] /\ CallInv(d)
      BY <1>1 DEF CacheInv, TypeOK
    <2>2. now' \in Nat
      BY <1>2, BoundAssumption
    <2>3. /\ d.out = Canonical <=> d.why # "update"
          /\ PresentInv(d)' /\ VersionInv(d)' /\ FreshInv(d)'
      BY <1>1, <1>2, <2>1, <2>2, CallFrame
    <2> QED BY <1>2, <2>1, <2>3 DEF CallInv, TargetInv
  <1> QED BY <1>3, <1>4, <1>5 DEF CacheInv

\* An idle start satisfies the invariant, whatever files are found.
LEMMA InitInv == Init => CacheInv
  <1> SUFFICES ASSUME Init PROVE CacheInv
    OBVIOUS
  <1>1. file \in [Names -> Files \cup {NoFile}] /\ Canonical \in Names
        /\ (Present(Canonical) => file[Canonical].data <= 1)
    BY InitAssumption DEF Init, Names, Present
  <1>2. \A p \in Procs : call[p] = Resting("idle")
    BY DEF Init
  <1>3. /\ Resting("idle") \in Calls
        /\ ~LockHeld(Resting("idle")) /\ CallInv(Resting("idle"))
    BY BoundAssumption
       DEF Init, Resting, Call, Calls, Names, Purposes, LockHeld, CallInv, TargetInv,
           PresentInv, VersionInv, FreshInv, Steps
  <1>4. TypeOK
    <2>1. call \in [Procs -> Calls] /\ meta \in [Names -> Nat \cup {NoMeta}]
      BY <1>3 DEF Init
    <2>2. \A p \in Procs : LockHeld(call[p]) <=> lock = p
      BY <1>2, <1>3, SentinelAssumption DEF Init
    <2> QED BY <1>1, <2>1, <2>2, BoundAssumption DEF Init, TypeOK
  <1>5. SnapshotInv
    BY <1>1 DEF Init, SnapshotInv
  <1> QED BY <1>2, <1>3, <1>4, <1>5 DEF CacheInv

\* A step that changes no variable keeps the invariant.
LEMMA StutterStep == CacheInv /\ UNCHANGED vars => CacheInv'
  BY DEF vars, CacheInv, TypeOK, LockHeld, SnapshotInv, CallInv, TargetInv, PresentInv,
     VersionInv, FreshInv, Present, Located, Dated, LocateCacheFile, LatestCacheFile,
     ReadFrom

\* Every step keeps the invariant, and no step takes the canonical file back.
LEMMA NextStep ==
    ASSUME CacheInv, Next
    PROVE  /\ CacheInv'
           /\ Present(Canonical) =>
                Present(Canonical)' /\ file'[Canonical].data >= file[Canonical].data
  <1>1. Present(Canonical) => file[Canonical].data \in Nat
    BY DEF CacheInv, TypeOK, Present, Files, Names
  <1>2. CASE Tick \/ Publish
    BY <1>1, <1>2, TimeStep DEF Tick, Publish, Present
  <1>3. ASSUME NEW p \in Procs,
               ScanNoDir(p) \/ BeginScan(p) \/ BeginUpdate(p) \/ Crash(p)
        PROVE  CacheInv' /\ file' = file
    BY <1>3, StartStep DEF ScanNoDir, BeginScan, BeginUpdate, Crash
  <1>4. ASSUME NEW p \in Procs,
               \/ CondSend(p) \/ CondReply(p) \/ CondError(p)
               \/ Lock(p) \/ LockTimeout(p) \/ Unlock(p)
        PROVE  CacheInv' /\ file' = file
    BY <1>4, RefreshStep DEF CondSend, CondReply, CondError, Lock, LockTimeout, Unlock
  <1>5. ASSUME NEW p \in Procs,
               Fetch(p) \/ FetchError(p) \/ \E m \in Sidecars(call[p]) : SaveMeta(p, m)
        PROVE  CacheInv' /\ file' = file
    BY <1>5, DownloadStep DEF Fetch, FetchError, SaveMeta
  <1>6. ASSUME NEW p \in Procs, ReadCache(p) \/ ReadCorrupt(p)
        PROVE  CacheInv' /\ file' = file
    BY <1>6, ReadStep DEF ReadCache, ReadCorrupt
  <1>7. ASSUME file' = file
        PROVE  Present(Canonical) =>
                 Present(Canonical)' /\ file'[Canonical].data >= file[Canonical].data
    BY <1>1, <1>7 DEF Present
  <1> QED BY <1>2, <1>3, <1>4, <1>5, <1>6, <1>7, WriteStep
          DEF Next, Refresh, Download, Read

\* CacheInv holds in every reachable state.
THEOREM CacheInvariant == Spec => []CacheInv
  <1>1. CacheInv /\ [Next]_vars => CacheInv'
    BY NextStep, StutterStep
  <1> QED BY InitInv, <1>1, PTL DEF Spec

\* Every reachable state of the cache is well typed, and the lock file is held
\* by the one process that is between Lock and Unlock.
THEOREM TypeCorrect == Spec => []TypeOK
  BY CacheInvariant, PTL DEF CacheInv

\* A 304 never vouches for data older than what upstream confirmed.
THEOREM TouchIsHonest == Spec => []TouchHonest
  <1>1. CacheInv => TouchHonest
    <2> SUFFICES ASSUME CacheInv, NEW p \in Procs, call[p].pc = "touch",
                        call[p].src = Canonical
                 PROVE  file[Canonical] # NoFile /\ file[Canonical].data >= call[p].ver
      BY DEF TouchHonest
    <2>1. Present(Canonical) /\ call[p].ver <= file[Canonical].data
      BY DEF CacheInv, CallInv, PresentInv, VersionInv
    <2>2. call[p].ver \in Nat /\ file[Canonical].data \in Nat
      BY <2>1 DEF CacheInv, TypeOK, Calls, Present, Files, Names
    <2> QED BY <2>1, <2>2 DEF Present
  <1> QED BY CacheInvariant, <1>1, PTL

\* An answer without DEP-CACHE-STALE never stands on a file older than the
\* fresh lifetime.
THEOREM FreshOrAnnounced == Spec => []FreshUnlessAnnounced
  <1>1. CacheInv => FreshUnlessAnnounced
    BY DEF CacheInv, CallInv, FreshInv, FreshUnlessAnnounced
  <1> QED BY CacheInvariant, <1>1, PTL

\* The canonical snapshot never goes back to an older one.
THEOREM CanonicalNeverRegresses == Spec => NeverRegress
  <1>1. CacheInv /\ [Next]_vars =>
          [file[Canonical] # NoFile =>
             /\ file'[Canonical] # NoFile
             /\ file'[Canonical].data >= file[Canonical].data]_vars
    BY NextStep DEF Present
  <1> QED BY CacheInvariant, <1>1, PTL DEF Spec, NeverRegress
==============================================================================
