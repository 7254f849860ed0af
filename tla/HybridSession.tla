--------------------------- MODULE HybridSession ---------------------------
(***************************************************************************)
(* The paginated tool calls of the server: scanner/hybridcache (session    *)
(* cache, background evictor), scanner/hybrid (SelectAndExecute) and the   *)
(* tool handlers that call it. The SDK serves tool calls concurrently, so  *)
(* every client below is one call in progress plus the cursor chain that   *)
(* its user is following.                                                  *)
(*                                                                         *)
(* Findings are abstracted to their position: a cached session holds       *)
(* "total" findings and a page is a half-open interval of positions.       *)
(* One unit of the clock is one second, the resolution of the RFC 3339     *)
(* timestamp that goes into the session key.                               *)
(***************************************************************************)
EXTENDS Integers, FiniteSets

CONSTANTS
    Clients,        \* concurrent callers
    Tools,          \* names of the tools that share the cache
    StrictTools,    \* tools that refuse a cursor together with a limit
    Paths,          \* absolute project roots
    Excludes,       \* scope choices that are not hashed into the session key
    DefaultExclude, \* the choice a request makes by leaving the scope alone
    PageSize,       \* flat page size of each tool
    Requests,       \* the requests that clients send
    TTL,            \* SessionTTL in seconds
    MaxTotal,       \* bound: findings of one scan
    MaxTime,        \* bound: clock
    MaxScans,       \* bound: scans started
    MaxRestarts,    \* bound: server restarts
    NoEntry,        \* a call that has not loaded an entry
    NoJob,          \* a call that is not scanning
    NoChain,        \* a client that follows no pagination
    NoCursor        \* a response without next_cursor

RequestFields ==
    [tool : Tools, path : Paths, exclude : Excludes, tests : BOOLEAN,
     quality : BOOLEAN, limit : Int]

\* The inputs of SessionKey; the hash itself is taken to be injective.
Sids ==
    [tool : Tools, path : Paths, quality : BOOLEAN, tests : BOOLEAN, ts : Nat]

\* hybridcache.Entry with its key. "serial" identifies the scan it comes from,
\* "exclude" the scope that scan was asked for; "at" is CreatedAt.
Entries ==
    [sid : Sids, serial : Nat, exclude : Excludes, total : Nat, at : Nat,
     epoch : Nat]

\* hybridcache.CursorPayload
Cursors == [sid : Sids, off : Nat, tool : Tools]

\* A scan in progress: its request, scan timestamp and identity.
Jobs == [req : RequestFields, ts : Nat, serial : Nat]

\* What a client knows of the pagination it follows: the session of its own
\* first response ("own"), how many findings it received ("got"), the sessions
\* they came from ("from"), and the cursor for the next page.
Chains ==
    [st : {"open", "complete", "lost"}, own : Entries, got : Nat,
     from : SUBSET Entries, cursor : Cursors \cup {NoCursor}]

Answers ==
    {"none", "summary", "flat", "SCAN_ERROR", "LIMIT_MINUS_ONE_REMOVED",
     "CURSOR_WITH_FILTER", "LIMIT_EXCEEDS_PAGE_SIZE", "CURSOR_MALFORMED",
     "CURSOR_EXPIRED"}

ASSUME StrictAssumption == StrictTools \subseteq Tools
ASSUME RequestAssumption == Requests \subseteq RequestFields
ASSUME PageSizeAssumption == PageSize \in [Tools -> Nat \ {0}]
ASSUME SentinelAssumption == NoCursor \notin Cursors
ASSUME BoundAssumption ==
    /\ TTL \in Nat
    /\ MaxTotal \in Nat
    /\ MaxTime \in Nat
    /\ MaxScans \in Nat
    /\ MaxRestarts \in Nat

VARIABLES
    now,      \* wall clock, seconds
    epoch,    \* how often the server process was restarted
    cache,    \* the sync.Map, as the set of its entries
    evictor,  \* the evictor goroutine
    started,  \* scans started so far
    pc,       \* per client: where its call is
    job,      \* per client: the scan its call is running
    loaded,   \* per client: the entry Get has loaded and not yet checked
    answer,   \* per client: the last response
    chain,    \* per client: the pagination its user follows
    sessions  \* history: every entry that was ever Put

vars == <<now, epoch, cache, evictor, started, pc, job, loaded, answer,
          chain, sessions>>

-----------------------------------------------------------------------------
(* hybridcache *)

\* Mutant of Expired: !now.Before(ExpiresAt) instead of now.After(ExpiresAt).
ExpiredEarly(e, t) == t >= e.at + TTL

\* now.After(entry.ExpiresAt), with ExpiresAt = CreatedAt + SessionTTL
Expired(e, t) == t > e.at + TTL

\* The timestamp is the second the request arrived in; limit, exclude_patterns
\* and include_untracked are not part of the key (include_taint, which only the
\* PAN tool sets, is left out; it would be one more field like "tests").
SessionKey(r, ts) ==
    [tool |-> r.tool, path |-> r.path, quality |-> r.quality,
     tests |-> r.tests, ts |-> ts]

Holding(s) == {e \in cache : e.sid = s}

Delete(s) == cache' = {e \in cache : e.sid # s}

\* The goroutine: "at" is the clock reading of the sweep, "todo" the keys Range
\* has yet to visit, "key" the key that the callback is about to delete.
Evictor(phase, at, todo, key) ==
    [phase |-> phase, at |-> at, todo |-> todo, key |-> key]
EvictorOff == Evictor("off", 0, {}, {})
EvictorIdle == Evictor("idle", 0, {}, {})

\* Mutants of Put: append instead of Store; the evictor is never started.
PutAppends(e) ==
    /\ cache' = cache \cup {e}
    /\ sessions' = sessions \cup {e}
    /\ evictor' = IF evictor.phase = "off" THEN EvictorIdle ELSE evictor

PutWithoutEvictor(e) ==
    /\ cache' = {x \in cache : x.sid # e.sid} \cup {e}
    /\ sessions' = sessions \cup {e}
    /\ UNCHANGED evictor

\* Put: Store, then startEvictor (sync.Once)
Put(e) ==
    /\ cache' = {x \in cache : x.sid # e.sid} \cup {e}
    /\ sessions' = sessions \cup {e}
    /\ evictor' = IF evictor.phase = "off" THEN EvictorIdle ELSE evictor

\* The ticker fires: evictExpired reads the clock once and starts its Range.
SweepBegin ==
    /\ evictor.phase = "idle"
    /\ evictor' = Evictor("sweep", now, {e.sid : e \in cache}, {})
    /\ UNCHANGED <<now, epoch, cache, started, pc, job, loaded, answer, chain,
                   sessions>>

\* Range hands one key and its present value to the callback.
SweepVisit(s) ==
    /\ evictor.phase = "sweep"
    /\ evictor.key = {}
    /\ s \in evictor.todo
    /\ \/ /\ \E e \in Holding(s) : Expired(e, evictor.at)
          /\ evictor' = Evictor("sweep", evictor.at, evictor.todo \ {s}, {s})
       \/ /\ \A e \in Holding(s) : ~Expired(e, evictor.at)
          /\ evictor' = Evictor("sweep", evictor.at, evictor.todo \ {s}, {})
    /\ UNCHANGED <<now, epoch, cache, started, pc, job, loaded, answer, chain,
                   sessions>>

\* The callback's cache.Delete(k): by key, whatever the key holds by now.
SweepDelete(s) ==
    /\ s \in evictor.key
    /\ Delete(s)
    /\ evictor' = Evictor("sweep", evictor.at, evictor.todo, {})
    /\ UNCHANGED <<now, epoch, started, pc, job, loaded, answer, chain,
                   sessions>>

SweepEnd ==
    /\ evictor.phase = "sweep"
    /\ evictor.key = {}
    /\ evictor.todo = {}
    /\ evictor' = EvictorIdle
    /\ UNCHANGED <<now, epoch, cache, started, pc, job, loaded, answer, chain,
                   sessions>>

-----------------------------------------------------------------------------
(* The handler and SelectAndExecute *)

ScopeSet(r) == r.exclude # DefaultExclude \/ r.tests

\* A scoped request without limit or filter is given the page size as limit.
EffectiveLimit(r, cur) ==
    IF cur = NoCursor /\ ScopeSet(r) /\ r.limit = 0 /\ ~r.quality
    THEN PageSize[r.tool] ELSE r.limit

Flat(r) == EffectiveLimit(r, NoCursor) > 0 \/ r.quality

\* The early returns, in the order of the code; "ok" if none applies.
Verdict(r, cur) ==
    IF r.limit = -1 THEN "LIMIT_MINUS_ONE_REMOVED"
    ELSE IF /\ cur # NoCursor
            /\ \/ ScopeSet(r) \/ r.quality
               \/ r.tool \in StrictTools /\ r.limit > 0
         THEN "CURSOR_WITH_FILTER"
    ELSE IF EffectiveLimit(r, cur) > PageSize[r.tool]
         THEN "LIMIT_EXCEEDS_PAGE_SIZE"
    ELSE IF cur # NoCursor /\ cur.tool # r.tool THEN "CURSOR_MALFORMED"
    ELSE "ok"

PageEnd(off, size, total) == IF off + size > total THEN total ELSE off + size

\* Mutants of NextCursor: the offset of the last finding served plus one page
\* entry too many; the comparison off by one, which drops a one-finding page.
NextCursorSkips(s, end, total) ==
    IF end < total THEN [sid |-> s, off |-> end + 1, tool |-> s.tool] ELSE NoCursor

NextCursorDrops(s, end, total) ==
    IF end + 1 < total THEN [sid |-> s, off |-> end, tool |-> s.tool] ELSE NoCursor

NextCursor(s, end, total) ==
    IF end < total THEN [sid |-> s, off |-> end, tool |-> s.tool] ELSE NoCursor

\* A call that is refused before it scans or looks a session up.
Reject(c, r, cur) ==
    /\ pc[c] = "idle"
    /\ Verdict(r, cur) # "ok"
    /\ answer' = [answer EXCEPT ![c] = Verdict(r, cur)]
    /\ UNCHANGED <<now, epoch, cache, evictor, started, pc, job, loaded, chain,
                   sessions>>

\* A call without cursor: the timestamp is taken, the scan starts. The client
\* gives up the pagination it was following.
Begin(c, r) ==
    /\ pc[c] = "idle"
    /\ started < MaxScans
    /\ Verdict(r, NoCursor) = "ok"
    /\ started' = started + 1
    /\ pc' = [pc EXCEPT ![c] = "scan"]
    /\ job' = [job EXCEPT ![c] = [req |-> r, ts |-> now, serial |-> started + 1]]
    /\ chain' = [chain EXCEPT ![c] = NoChain]
    /\ UNCHANGED <<now, epoch, cache, evictor, loaded, answer, sessions>>

ScanError(c) ==
    /\ pc[c] = "scan"
    /\ pc' = [pc EXCEPT ![c] = "idle"]
    /\ job' = [job EXCEPT ![c] = NoJob]
    /\ answer' = [answer EXCEPT ![c] = "SCAN_ERROR"]
    /\ UNCHANGED <<now, epoch, cache, evictor, started, loaded, chain, sessions>>

NewEntry(j, total) ==
    [sid |-> SessionKey(j.req, j.ts), serial |-> j.serial,
     exclude |-> j.req.exclude, total |-> total, at |-> now, epoch |-> epoch]

\* How far the first response reaches: a flat page of "limit" (or the page
\* size), or nothing (the summary, whose cursor starts at 0).
FirstEnd(r, total) ==
    IF ~Flat(r) THEN 0
    ELSE PageEnd(0, IF EffectiveLimit(r, NoCursor) > 0
                    THEN EffectiveLimit(r, NoCursor) ELSE PageSize[r.tool], total)

FirstCursor(r, s, total) ==
    IF Flat(r) THEN NextCursor(s, FirstEnd(r, total), total)
    ELSE [sid |-> s, off |-> 0, tool |-> s.tool]

\* The scan returns "total" findings (those the filter kept, if one is set);
\* they are Put and the first response is built from the local copy.
ScanDone(c, total) ==
    /\ pc[c] = "scan"
    /\ LET e == NewEntry(job[c], total)
           r == job[c].req
           cur == FirstCursor(r, e.sid, total)
       IN /\ Put(e)
          /\ answer' = [answer EXCEPT ![c] = IF Flat(r) THEN "flat" ELSE "summary"]
          /\ chain' = [chain EXCEPT ![c] =
                         [st |-> IF cur = NoCursor THEN "complete" ELSE "open",
                          own |-> e, got |-> FirstEnd(r, total), from |-> {e},
                          cursor |-> cur]]
    /\ pc' = [pc EXCEPT ![c] = "idle"]
    /\ job' = [job EXCEPT ![c] = NoJob]
    /\ UNCHANGED <<now, epoch, started, loaded>>

Following(c) == pc[c] = "idle" /\ chain[c] # NoChain /\ chain[c].st = "open"

\* Mutant of CursorLost: a missing session is answered like an empty page
\* that can be asked for again.
CursorLostAskAgain(c) ==
    /\ answer' = [answer EXCEPT ![c] = "flat"]
    /\ UNCHANGED chain

CursorLost(c) ==
    /\ answer' = [answer EXCEPT ![c] = "CURSOR_EXPIRED"]
    /\ chain' = [chain EXCEPT ![c] =
                   [st |-> "lost", own |-> chain[c].own, got |-> chain[c].got,
                    from |-> chain[c].from, cursor |-> NoCursor]]

\* A call with the cursor of the last response: Get's Load misses.
GetMiss(c, r) ==
    /\ Following(c)
    /\ Verdict(r, chain[c].cursor) = "ok"
    /\ Holding(chain[c].cursor.sid) = {}
    /\ CursorLost(c)
    /\ UNCHANGED <<now, epoch, cache, evictor, started, pc, job, loaded, sessions>>

\* Get's Load finds an entry; the expiry check comes later.
GetLoad(c, r, e) ==
    /\ Following(c)
    /\ Verdict(r, chain[c].cursor) = "ok"
    /\ e \in Holding(chain[c].cursor.sid)
    /\ pc' = [pc EXCEPT ![c] = "loaded"]
    /\ loaded' = [loaded EXCEPT ![c] = e]
    /\ UNCHANGED <<now, epoch, cache, evictor, started, job, answer, chain, sessions>>

\* The loaded entry is past its TTL: Delete by key, CURSOR_EXPIRED.
GetExpired(c) ==
    /\ pc[c] = "loaded"
    /\ Expired(loaded[c], now)
    /\ Delete(chain[c].cursor.sid)
    /\ CursorLost(c)
    /\ pc' = [pc EXCEPT ![c] = "idle"]
    /\ loaded' = [loaded EXCEPT ![c] = NoEntry]
    /\ UNCHANGED <<now, epoch, evictor, started, job, sessions>>

\* The findings a page adds to what the client has, and the cursor after it.
Served(off, e) ==
    IF off < e.total THEN PageEnd(off, PageSize[e.sid.tool], e.total) - off ELSE 0

PageCursor(off, e) ==
    NextCursor(e.sid, PageEnd(off, PageSize[e.sid.tool], e.total), e.total)

\* The loaded entry is still valid: one page and, if more remain, next_cursor.
GetPage(c) ==
    /\ pc[c] = "loaded"
    /\ ~Expired(loaded[c], now)
    /\ answer' = [answer EXCEPT ![c] = "flat"]
    /\ chain' = [chain EXCEPT ![c] =
         [st |-> IF PageCursor(chain[c].cursor.off, loaded[c]) = NoCursor
                 THEN "complete" ELSE "open",
          own |-> chain[c].own,
          got |-> chain[c].got + Served(chain[c].cursor.off, loaded[c]),
          from |-> chain[c].from \cup {loaded[c]},
          cursor |-> PageCursor(chain[c].cursor.off, loaded[c])]]
    /\ pc' = [pc EXCEPT ![c] = "idle"]
    /\ loaded' = [loaded EXCEPT ![c] = NoEntry]
    /\ UNCHANGED <<now, epoch, cache, evictor, started, job, sessions>>

-----------------------------------------------------------------------------
(* Environment *)

Tick ==
    /\ now < MaxTime
    /\ now' = now + 1
    /\ UNCHANGED <<epoch, cache, evictor, started, pc, job, loaded, answer,
                   chain, sessions>>

\* The server process dies and is started again: memory is gone, the cursors
\* that clients hold are not.
Restart ==
    /\ epoch < MaxRestarts
    /\ epoch' = epoch + 1
    /\ cache' = {}
    /\ evictor' = EvictorOff
    /\ pc' = [c \in Clients |-> "idle"]
    /\ job' = [c \in Clients |-> NoJob]
    /\ loaded' = [c \in Clients |-> NoEntry]
    /\ UNCHANGED <<now, started, answer, chain, sessions>>

Init ==
    /\ now = 0
    /\ epoch = 0
    /\ cache = {}
    /\ evictor = EvictorOff
    /\ started = 0
    /\ pc = [c \in Clients |-> "idle"]
    /\ job = [c \in Clients |-> NoJob]
    /\ loaded = [c \in Clients |-> NoEntry]
    /\ answer = [c \in Clients |-> "none"]
    /\ chain = [c \in Clients |-> NoChain]
    /\ sessions = {}

CursorOf(c) == IF Following(c) THEN chain[c].cursor ELSE NoCursor

Sweep ==
    \/ SweepBegin
    \/ \E s \in evictor.todo : SweepVisit(s)
    \/ \E s \in evictor.key : SweepDelete(s)
    \/ SweepEnd

Scan(c) == ScanError(c) \/ \E total \in 0..MaxTotal : ScanDone(c, total)

Follow(c) ==
    \E r \in Requests : GetMiss(c, r) \/ \E e \in cache : GetLoad(c, r, e)

GetCheck(c) == GetExpired(c) \/ GetPage(c)

Next ==
    \/ Tick
    \/ Restart
    \/ Sweep
    \/ \E c \in Clients :
         \/ \E r \in Requests : Begin(c, r)
         \/ \E r \in Requests, cur \in {NoCursor, CursorOf(c)} : Reject(c, r, cur)
         \/ Scan(c)
         \/ Follow(c)
         \/ GetCheck(c)

Spec == Init /\ [][Next]_vars

\* Goroutines that can run do run; "Follow" says that the user keeps asking
\* for the next page, which is what the pagination promises are made to.
Fairness ==
    /\ WF_vars(Sweep)
    /\ \A c \in Clients :
         WF_vars(Scan(c)) /\ WF_vars(GetCheck(c)) /\ WF_vars(Follow(c))

FairSpec == Spec /\ Fairness

-----------------------------------------------------------------------------
(* Properties *)

\* The session key was used by two different scans.
Reused(s) == \E e1, e2 \in sessions : e1 # e2 /\ e1.sid = s /\ e2.sid = s

\* Some session that was stored under the key is past its TTL.
Outlived(s) == \E e \in sessions : e.sid = s /\ now > e.at + TTL

EvictorTypes ==
    [phase : {"off", "idle", "sweep"}, at : Nat,
     todo : SUBSET Sids, key : SUBSET Sids]

\* Types, and what they leave out: the cache holds one entry per key, and a
\* call holds a job or a loaded entry exactly while it is at that step.
TypeOK ==
    /\ now \in Nat
    /\ epoch \in Nat
    /\ cache \in SUBSET Entries
    /\ \A e1, e2 \in cache : e1.sid = e2.sid => e1 = e2
    /\ evictor \in EvictorTypes
    /\ started \in Nat
    /\ pc \in [Clients -> {"idle", "scan", "loaded"}]
    /\ job \in [Clients -> Jobs \cup {NoJob}]
    /\ \A c \in Clients : pc[c] = "scan" => job[c] \in Jobs
    /\ loaded \in [Clients -> Entries \cup {NoEntry}]
    /\ \A c \in Clients : pc[c] = "loaded" => loaded[c] \in Entries
    /\ answer \in [Clients -> Answers]
    /\ chain \in [Clients -> Chains \cup {NoChain}]
    /\ \A c \in Clients :
         chain[c] # NoChain /\ chain[c].st = "open" => chain[c].cursor \in Cursors
    /\ sessions \in SUBSET Entries

\* selector.go: pages are contiguous and of one scan. A cursor always points
\* just past what its holder has received, so no finding is skipped or repeated
\* across pages, whatever limit the first call used and whoever else uses the
\* cache; and a page of another session is cut for it only when two scans were
\* stored under the one key that its cursor names.
PagesContiguous ==
    \A c \in Clients :
        chain[c] # NoChain /\ chain[c].st = "open" =>
            /\ chain[c].cursor.off = chain[c].got
            /\ chain[c].from = {chain[c].own} \/ Reused(chain[c].own.sid)

\* selector.go: when a response carries no next_cursor, its client holds every
\* finding of its own scan and none of another scan, unless a second scan was
\* stored under the same session key.
CompleteMeansAll ==
    \A c \in Clients :
        chain[c] # NoChain /\ chain[c].st = "complete" =>
            \/ Reused(chain[c].own.sid)
            \/ chain[c].got = chain[c].own.total /\ chain[c].from = {chain[c].own}

\* hybridcache.go, Get and evictExpired: they judge an entry and delete its key
\* in separate steps, so a fresh session that was stored in between goes with
\* the expired one. A client is told CURSOR_EXPIRED only after a restart or once
\* a session of its very key outlived its TTL: sharing a key with scans that
\* were stored within the TTL never costs a client its session.
LostOnlyByExpiry ==
    \A c \in Clients :
        chain[c] # NoChain /\ chain[c].st = "lost" =>
            epoch > chain[c].own.epoch \/ Outlived(chain[c].own.sid)

\* types.go, hintCursorExpired: "Session cache expired or server restarted."
\* Read strictly, of the client's own session, this is false: see README.md.
ExpiredMeansExpired ==
    \A c \in Clients :
        chain[c] # NoChain /\ chain[c].st = "lost" =>
            epoch > chain[c].own.epoch \/ now > chain[c].own.at + TTL

\* tool.go: "resumes pagination from the stored session cache": every page a
\* client receives comes from a scan of the scope it asked for.
ScopeKept ==
    \A c \in Clients :
        chain[c] # NoChain =>
            \A e \in chain[c].from : e.exclude = chain[c].own.exclude

\* hybridcache.go evictor: memory is bounded by the TTL. An entry that has
\* expired is eventually dropped (or replaced by one that has not), also when
\* nobody asks for it again.
ExpiredEvicted ==
    \A t \in 0..MaxTime :
        (\E e \in cache : e.sid.ts = t /\ now > e.at + TTL)
            ~> (\A e \in cache : e.sid.ts = t => now <= e.at + TTL)

\* selector.go: a client that keeps following next_cursor reaches the last
\* page or is told that the session is gone.
PaginationEnds ==
    \A c \in Clients :
        (chain[c] # NoChain /\ chain[c].st = "open")
            ~> (chain[c] = NoChain \/ chain[c].st # "open")

-----------------------------------------------------------------------------
(* The inductive invariant behind CompleteMeansAll and LostOnlyByExpiry *)

\* The past: whatever is cached, loaded or followed was once Put, and not in
\* the future of the clock or of the process.
HistoryInv ==
    /\ \A e \in sessions : e.at <= now /\ e.epoch <= epoch
    /\ cache \subseteq sessions
    /\ \A c \in Clients : pc[c] = "loaded" => loaded[c] \in sessions

\* What a client follows: its cursor names its own session's key, and every
\* page it was shown was stored under that key.
ChainInv ==
    \A c \in Clients : chain[c] # NoChain =>
        /\ chain[c].own \in sessions
        /\ chain[c].from \subseteq sessions
        /\ chain[c].own \in chain[c].from
        /\ \A e \in chain[c].from : e.sid = chain[c].own.sid
        /\ chain[c].st = "open" =>
             /\ chain[c].cursor.sid = chain[c].own.sid
             /\ chain[c].got <= chain[c].own.total \/ Reused(chain[c].own.sid)

\* A call between Load and the check has loaded an entry of its cursor's key.
LoadedInv ==
    \A c \in Clients : pc[c] = "loaded" =>
        /\ chain[c] # NoChain
        /\ chain[c].st = "open"
        /\ loaded[c].sid = chain[c].cursor.sid

\* The evictor deletes a key only after it saw an expired entry under it.
SweepInv ==
    /\ evictor.at <= now
    /\ \A s \in evictor.key : Outlived(s)

\* A key under which this process stored a session is found in the cache until
\* one of its sessions is past its TTL.
LiveCached ==
    \A e \in sessions :
        e.epoch = epoch => Holding(e.sid) # {} \/ Outlived(e.sid)

SessionInv ==
    /\ TypeOK
    /\ HistoryInv
    /\ ChainInv
    /\ LoadedInv
    /\ SweepInv
    /\ LiveCached
    /\ PagesContiguous
    /\ CompleteMeansAll
    /\ LostOnlyByExpiry
=============================================================================
