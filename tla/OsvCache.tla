------------------------------ MODULE OsvCache ------------------------------
(***************************************************************************)
(* The OSV vulnerability cache of scanner/depscanner: check_dependencies   *)
(* calls (ensureCacheFresh, then scanFromCache) and update_vulnerability_db *)
(* calls, in any number of server processes that share a cache directory.  *)
(*                                                                         *)
(* Upstream publishes numbered snapshots and its ETag is the number. A     *)
(* cache file is a snapshot number and a modification time; 0 stands for   *)
(* content that does not parse. The network may fail at every request and  *)
(* a process may die between any two steps.                                *)
(***************************************************************************)
EXTENDS Integers

CONSTANTS
    Procs,      \* calls in progress, one per process
    Canonical,  \* go-osv.json
    FreshTTL,   \* cacheFreshTTL
    StaleTTL,   \* cacheStaleTTL
    DayLength,  \* clock units per date of a dated file name
    MaxFeed,    \* bound: snapshots that upstream publishes
    MaxTime,    \* bound: clock
    InitFiles,  \* what may be in the cache directory at the start
    NoFile,     \* a file that does not exist
    NoMeta,     \* a cache file without .meta.json sidecar
    Free        \* the lock file is not locked

Days == 0..MaxTime
Names == {Canonical} \cup Days
Files == [data : Nat, at : Int]
Purposes == {"replace", "fill", "repair", "update"}

ASSUME TTLAssumption ==
    FreshTTL \in Nat \ {0} /\ StaleTTL \in Nat /\ FreshTTL <= StaleTTL
ASSUME BoundAssumption ==
    MaxFeed \in Nat /\ MaxTime \in Nat /\ DayLength \in Nat \ {0}
ASSUME NamesAssumption == Canonical \notin Days
ASSUME SentinelAssumption == NoFile \notin Files /\ NoMeta \notin Nat /\ Free \notin Procs

\* A directory as it is found: no sidecar, no snapshot from the future.
ASSUME InitAssumption ==
    \A d \in InitFiles :
        /\ d \in [Names -> Files \cup {NoFile}]
        /\ \A n \in Names : d[n] # NoFile => d[n].data <= 1 /\ d[n].at <= 0

VARIABLES
    now,     \* clock
    feed,    \* the snapshot upstream serves
    file,    \* the cache directory
    meta,    \* the ETag in each file's sidecar
    lock,    \* holder of go-osv.json.lock
    call     \* per process: the call in progress, or the answer of the last one

vars == <<now, feed, file, meta, lock, call>>

\* A call: where it is, when it started and which snapshot the update calls had
\* put into the directory by then ("promised"), the file ensureCacheFresh looked
\* at, the file it is going to write and what for, the ETag sent or snapshot
\* received, whether cacheState.staleFallback is set; of an answered scan "ver"
\* and "at" describe the file it stands on.
Call(pc, start, promised, src, out, why, ver, at, stale) ==
    [pc |-> pc, start |-> start, promised |-> promised, src |-> src, out |-> out,
     why |-> why, ver |-> ver, at |-> at, stale |-> stale]

Resting(st) == Call(st, 0, 0, Canonical, Canonical, "replace", 0, 0, FALSE)

\* The call c one step on, at pc, possibly with a new purpose or snapshot.
Goto(c, pc) ==
    Call(pc, c.start, c.promised, c.src, c.out, c.why, c.ver, c.at, c.stale)
GotoWith(c, pc, ver) ==
    Call(pc, c.start, c.promised, c.src, c.out, c.why, ver, c.at, c.stale)

AtRest(p) == call[p].pc \in {"idle", "data", "nodir", "cold", "error", "updated"}

Present(n) == file[n] # NoFile
Age(n) == now - file[n].at

\* latestCacheFile: the newest date in a name, whatever the file's own time.
Dated == {d \in Days : Present(d)}
LatestCacheFile == CHOOSE d \in Dated : \A e \in Dated : e <= d

NewestDated == IF Dated = {} THEN 0 ELSE file[LatestCacheFile].data

\* locateCacheFile: the canonical name first.
LocateCacheFile == IF Present(Canonical) THEN Canonical ELSE LatestCacheFile

Located == Present(Canonical) \/ Dated # {}

-----------------------------------------------------------------------------
(* ensureCacheFresh *)

\* Where a call goes with a cache file of this age.
Tier(age) ==
    IF age < FreshTTL THEN "read" ELSE IF age > StaleTTL THEN "lock" ELSE "cond"

\* No cache directory, or one that fails the write probe.
ScanNoDir(p) ==
    /\ AtRest(p)
    /\ call' = [call EXCEPT ![p] = Resting("nodir")]
    /\ UNCHANGED <<now, feed, file, meta, lock>>

\* The first stat decides on the canonical file, or on the latest dated one if
\* there is none, or on filling an empty cache.
BeginScan(p) ==
    /\ AtRest(p)
    /\ call' = [call EXCEPT ![p] =
                  IF Located
                  THEN Call(Tier(Age(LocateCacheFile)), now, NewestDated, LocateCacheFile,
                            Canonical, "replace", 0, 0, FALSE)
                  ELSE Call("lock", now, NewestDated, Canonical, Canonical, "fill",
                            0, 0, FALSE)]
    /\ UNCHANGED <<now, feed, file, meta, lock>>

\* loadMeta, and the request with If-None-Match is on its way.
CondSend(p) ==
    /\ call[p].pc = "cond"
    /\ call' = [call EXCEPT ![p] =
                  GotoWith(call[p], "reply", IF meta[call[p].src] = NoMeta
                                             THEN 0 ELSE meta[call[p].src])]
    /\ UNCHANGED <<now, feed, file, meta, lock>>

\* 304 if upstream still serves the snapshot of the ETag, 200 otherwise; the
\* body of the 200 is thrown away and downloaded again under the lock.
CondReply(p) ==
    /\ call[p].pc = "reply"
    /\ call' = [call EXCEPT ![p] =
                  Goto(call[p], IF call[p].ver = feed THEN "touch" ELSE "lock")]
    /\ UNCHANGED <<now, feed, file, meta, lock>>

\* Chtimes after a 304, on whatever the name holds by now.
Touch(p) ==
    /\ call[p].pc = "touch"
    /\ file' = [file EXCEPT ![call[p].src] = [data |-> file[call[p].src].data,
                                              at |-> now]]
    /\ call' = [call EXCEPT ![p] = Goto(call[p], "read")]
    /\ UNCHANGED <<now, feed, meta, lock>>

\* Mutant of Failed: a failed refresh is not remembered.
FailedSilently(c) ==
    IF c.why = "replace" THEN Goto(c, "read")
    ELSE Resting(IF c.why = "fill" THEN "cold" ELSE "error")

\* What a failed request or lock attempt leads to: the old file is used and
\* announced as stale, or there is no data to answer with.
Failed(c) ==
    IF c.why = "replace"
    THEN Call("read", c.start, c.promised, c.src, c.out, c.why, c.ver, c.at, TRUE)
    ELSE Resting(IF c.why = "fill" THEN "cold" ELSE "error")

CondError(p) ==
    /\ call[p].pc = "reply"
    /\ call' = [call EXCEPT ![p] = Failed(call[p])]
    /\ UNCHANGED <<now, feed, file, meta, lock>>

-----------------------------------------------------------------------------
(* withCacheLock, refreshCacheLocked *)

\* refreshCacheIfMissing: somebody else filled the cache while we waited.
SkipIfPresent(c) ==
    c.why = "fill" /\ Present(Canonical) /\ Age(Canonical) < FreshTTL

\* Mutant of Lock: the lock file is not consulted.
LockIgnored(p) ==
    /\ call[p].pc = "lock"
    /\ lock' = p
    /\ call' = [call EXCEPT ![p] =
                  Goto(call[p], IF SkipIfPresent(call[p]) THEN "unlock" ELSE "fetch")]
    /\ UNCHANGED <<now, feed, file, meta>>

Lock(p) ==
    /\ call[p].pc = "lock"
    /\ lock = Free
    /\ lock' = p
    /\ call' = [call EXCEPT ![p] =
                  Goto(call[p], IF SkipIfPresent(call[p]) THEN "unlock" ELSE "fetch")]
    /\ UNCHANGED <<now, feed, file, meta>>

\* Mutant of LockTimeout: the wait has no deadline.
LockNoTimeout(p) == call[p].pc = "lock" /\ lock # Free /\ UNCHANGED vars

\* TryLockContext gives up after 30 seconds, with the expired context's error:
\* errLockBusy, and the second stat that it would lead to, are never reached.
LockTimeout(p) ==
    /\ call[p].pc = "lock"
    /\ lock # Free
    /\ call' = [call EXCEPT ![p] = Failed(call[p])]
    /\ UNCHANGED <<now, feed, file, meta, lock>>

Unlock(p) ==
    /\ call[p].pc = "unlock"
    /\ lock' = Free
    /\ call' = [call EXCEPT ![p] = Goto(call[p], "read")]
    /\ UNCHANGED <<now, feed, file, meta>>

-----------------------------------------------------------------------------
(* downloadAndBuildCache *)

\* Mutant of Fetch: the sidecar is written when the headers arrive.
FetchSavesMeta(p) ==
    /\ call[p].pc = "fetch"
    /\ meta' = [meta EXCEPT ![call[p].out] = feed]
    /\ call' = [call EXCEPT ![p] = GotoWith(call[p], "install", feed)]
    /\ UNCHANGED <<now, feed, file, lock>>

\* The response: snapshot and ETag belong together.
Fetch(p) ==
    /\ call[p].pc = "fetch"
    /\ call' = [call EXCEPT ![p] = GotoWith(call[p], "install", feed)]
    /\ UNCHANGED <<now, feed, file, meta, lock>>

\* Mutant of FetchError: no deferred unlock.
FetchErrorLocked(p) ==
    /\ call[p].pc \in {"fetch", "install"}
    /\ call' = [call EXCEPT ![p] = Failed(call[p])]
    /\ UNCHANGED <<now, feed, file, meta, lock>>

\* The download or one of the steps up to the rename fails; the temporary
\* files go, the cache file stays, the deferred unlock runs.
FetchError(p) ==
    /\ call[p].pc \in {"fetch", "install"}
    /\ lock' = IF call[p].why = "update" THEN lock ELSE Free
    /\ call' = [call EXCEPT ![p] = Failed(call[p])]
    /\ UNCHANGED <<now, feed, file, meta>>

\* os.Rename of the finished temporary file.
Install(p) ==
    /\ call[p].pc = "install"
    /\ file' = [file EXCEPT ![call[p].out] = [data |-> call[p].ver, at |-> now]]
    /\ call' = [call EXCEPT ![p] = Goto(call[p], "meta")]
    /\ UNCHANGED <<now, feed, meta, lock>>

\* What saveMeta, an os.WriteFile, may leave beside the file: the new ETag; the
\* old sidecar if it cannot be opened; or, if the write breaks off, one that
\* does not parse, which counts as none. A failure is logged and nothing more.
Sidecars(c) == {c.ver, meta[c.out], NoMeta}

SaveMeta(p, m) ==
    /\ call[p].pc = "meta"
    /\ meta' = [meta EXCEPT ![call[p].out] = m]
    /\ \/ /\ call[p].why = "update"
          /\ call' = [call EXCEPT ![p] = Resting("updated")]
       \/ /\ call[p].why # "update"
          /\ call' = [call EXCEPT ![p] = Goto(call[p], "unlock")]
    /\ UNCHANGED <<now, feed, file, lock>>

\* update_vulnerability_db: a file named after today, without the lock.
BeginUpdate(p) ==
    /\ AtRest(p)
    /\ call' = [call EXCEPT ![p] =
                  Call("fetch", 0, 0, Canonical, now \div DayLength, "update", 0, 0, FALSE)]
    /\ UNCHANGED <<now, feed, file, meta, lock>>

-----------------------------------------------------------------------------
(* scanFromCache *)

\* After a repair the canonical file is loaded, not located again.
ReadFrom(c) == IF c.why = "repair" THEN Canonical ELSE LocateCacheFile

ReadCache(p) ==
    /\ call[p].pc = "read"
    /\ file[ReadFrom(call[p])].data # 0
    /\ call' = [call EXCEPT ![p] =
                  Call("data", call[p].start, call[p].promised, Canonical, Canonical,
                       "replace", file[ReadFrom(call[p])].data,
                       file[ReadFrom(call[p])].at, call[p].stale)]
    /\ UNCHANGED <<now, feed, file, meta, lock>>

\* The file does not parse: refresh the canonical one and load that.
ReadCorrupt(p) ==
    /\ call[p].pc = "read"
    /\ file[ReadFrom(call[p])].data = 0
    /\ call' = [call EXCEPT ![p] =
                  Call("lock", call[p].start, call[p].promised, Canonical, Canonical,
                       "repair", 0, 0, call[p].stale)]
    /\ UNCHANGED <<now, feed, file, meta, lock>>

-----------------------------------------------------------------------------
(* Environment *)

Tick ==
    /\ now < MaxTime
    /\ now' = now + 1
    /\ UNCHANGED <<feed, file, meta, lock, call>>

Publish ==
    /\ feed < MaxFeed
    /\ feed' = feed + 1
    /\ UNCHANGED <<now, file, meta, lock, call>>

\* The process dies: its call is gone and the system drops its file lock.
Crash(p) ==
    /\ ~AtRest(p)
    /\ call' = [call EXCEPT ![p] = Resting("idle")]
    /\ lock' = IF lock = p THEN Free ELSE lock
    /\ UNCHANGED <<now, feed, file, meta>>

Init ==
    /\ now = 0
    /\ feed = 1
    /\ file \in InitFiles
    /\ meta = [n \in Names |-> NoMeta]
    /\ lock = Free
    /\ call = [p \in Procs |-> Resting("idle")]

Refresh(p) ==
    CondSend(p) \/ CondReply(p) \/ CondError(p) \/ Touch(p) \/ Lock(p)
        \/ LockTimeout(p) \/ Unlock(p)

Download(p) ==
    Fetch(p) \/ FetchError(p) \/ Install(p)
        \/ \E m \in Sidecars(call[p]) : SaveMeta(p, m)

Read(p) == ReadCache(p) \/ ReadCorrupt(p)

Next ==
    \/ Tick
    \/ Publish
    \/ \E p \in Procs :
         \/ ScanNoDir(p) \/ BeginScan(p) \/ BeginUpdate(p)
         \/ Refresh(p) \/ Download(p) \/ Read(p)
         \/ Crash(p)

Spec == Init /\ [][Next]_vars

\* Processes run, but nothing bounds a download: http.DefaultClient has no
\* timeout, so a request that was sent may stay unanswered for ever.
Fairness == \A p \in Procs : WF_vars(Lock(p) \/ LockTimeout(p))

FairSpec == Spec /\ Fairness

-----------------------------------------------------------------------------
(* Properties *)

Steps == {"cond", "reply", "touch", "lock", "fetch", "install", "meta", "unlock", "read"}

Calls ==
    [pc : Steps \cup {"idle", "data", "nodir", "cold", "error", "updated"},
     start : Nat, promised : Nat, src : Names, out : Names, why : Purposes,
     ver : Nat, at : Int, stale : BOOLEAN]

LockHeld(c) == c.why # "update" /\ c.pc \in {"fetch", "install", "meta", "unlock"}

\* Types; the lock is held by the process that is between Lock and Unlock.
TypeOK ==
    /\ now \in 0..MaxTime
    /\ feed \in Nat
    /\ file \in [Names -> Files \cup {NoFile}]
    /\ meta \in [Names -> Nat \cup {NoMeta}]
    /\ lock \in Procs \cup {Free}
    /\ call \in [Procs -> Calls]
    /\ \A p \in Procs :
         LockHeld(call[p]) <=> lock = p

\* docs/check_dependencies.md "Parallel scans against the same cache path are
\* race-free": no interleaving of refreshes, updates and crashes puts an older
\* snapshot in place of a newer one under the canonical name.
NeverRegress ==
    [][file[Canonical] # NoFile =>
         /\ file'[Canonical] # NoFile
         /\ file'[Canonical].data >= file[Canonical].data]_vars

\* httpcache.go 304 branch: the canonical file whose time is reset holds a
\* snapshot at least as new as the one upstream confirmed, also if another
\* process replaced it meanwhile or died between the rename and the sidecar.
TouchHonest ==
    \A p \in Procs :
        call[p].pc = "touch" /\ call[p].src = Canonical =>
            file[Canonical] # NoFile /\ file[Canonical].data >= call[p].ver

\* docs/check_dependencies.md "Stale fallback": an answer that does not carry
\* DEP-CACHE-STALE stands on a file that was written or confirmed less than
\* FreshTTL before the call started.
FreshUnlessAnnounced ==
    \A p \in Procs :
        call[p].pc = "data" /\ ~call[p].stale => call[p].start - call[p].at < FreshTTL

\* filelock.go: a call that waits for the lock goes on, with the lock or
\* without it, even if the holder's download never returns.
WaiterEnds == \A p \in Procs : call[p].pc = "lock" ~> call[p].pc # "lock"

\* depscanner.go "Run update_vulnerability_db to refresh OSV cache": a scan
\* that starts after an update has put a snapshot into the cache directory uses
\* one at least as new.
UpdateTakesEffect ==
    \A p \in Procs : call[p].pc = "data" => call[p].ver >= call[p].promised

-----------------------------------------------------------------------------
(* The inductive invariant behind these properties, call by call *)

\* Only updates write dated files, everything else writes the canonical one.
TargetInv(c) == c.out = Canonical <=> c.why # "update"

\* A call that looks at a file, or will read one, finds it there.
PresentInv(c) ==
    /\ c.pc \in {"cond", "reply", "touch"} => Present(c.src) /\ c.why = "replace"
    /\ c.pc \in Steps /\ c.why = "replace" => Located
    /\ c.pc \in {"meta", "unlock"} => Present(c.out)
    /\ c.pc \in {"lock", "unlock", "read"} => c.why # "update"
    /\ c.pc = "read" => Located /\ Present(ReadFrom(c))

\* What a call knows of a snapshot: an ETag sent for the canonical file is not
\* newer than its data; a download under the lock is not older than it; and
\* until the sidecar is saved nobody else has replaced the file.
VersionInv(c) ==
    /\ c.pc \in {"reply", "touch"} /\ c.src = Canonical =>
         c.ver <= file[Canonical].data
    /\ c.pc = "install" => c.ver <= feed
    /\ c.pc = "install" /\ c.why # "update" /\ Present(Canonical) =>
         file[Canonical].data <= c.ver
    /\ c.pc = "meta" /\ c.why # "update" => c.ver = file[Canonical].data

\* A call that has not given up on freshness is about to read a fresh file.
FreshInv(c) ==
    /\ c.start <= now
    /\ c.pc \in {"cond", "reply", "touch"} =>
         LocateCacheFile = c.src \/ c.start - file[LocateCacheFile].at < FreshTTL
    /\ c.pc \in {"meta", "unlock"} /\ c.why # "update" =>
         c.start - file[Canonical].at < FreshTTL
    /\ c.pc = "read" /\ ~c.stale => c.start - file[ReadFrom(c)].at < FreshTTL
    /\ c.pc = "data" /\ ~c.stale => c.start - c.at < FreshTTL

CallInv(c) == TargetInv(c) /\ PresentInv(c) /\ VersionInv(c) /\ FreshInv(c)

\* The snapshot under the canonical name is one that upstream has served, and
\* the sidecar's ETag is never newer than the data next to it.
SnapshotInv ==
    /\ Present(Canonical) => file[Canonical].data <= feed
    /\ meta[Canonical] # NoMeta =>
         Present(Canonical) /\ meta[Canonical] <= file[Canonical].data

CacheInv == TypeOK /\ SnapshotInv /\ \A p \in Procs : CallInv(call[p])
=============================================================================
