# pci-dss-mcp in TLA+

A verification project for [pci-dss-mcp](../src/README.md), an MCP server (stdio)
that scans Go payment services for PCI DSS violations. It holds TLA+
specifications of the parts of the server that keep state across calls, combine
results or decide in several passes, TLC configurations that check them on small
instances, and TLAPS proofs of safety properties for every value of the
constants.

`PROJECT.json` is the index: it maps every definition to the lines of `src/` it
translates and lists the runs, the mutants that each checked property is known
to catch, the hazards, the findings and the theorems.

```
tlc -workers 2 -config HybridSession_safety.cfg MCHybridSession   # one run
tlapm OsvCache_proofs.tla                                         # one proof
```

## The system

One process serves tool calls from an MCP client; the SDK runs calls
concurrently, so every piece of package-level state is shared between calls.
Several processes may run on one machine and share the vulnerability cache
directory.

| Part | State it keeps | Operations | Talks to | What makes it correct |
|---|---|---|---|---|
| session cache (`scanner/hybridcache`) | `sync.Map` of sessions with TTL 10 min; evictor goroutine | `Put`, `Get`, `evictExpired` | all paginated tools | a session is available for its TTL and is gone after it |
| page selection (`scanner/hybrid`) | none; the cursor is the state, and the client holds it | `SelectAndExecute` | handlers, session cache | pages are contiguous, complete, of the caller's own scan |
| tool handlers (`scanner/*/tool.go`) | none | argument checks, implicit limit, response | page selection, scanners | refusals precede work; filters mean what they say |
| report generator (`scanner/reportscanner/report.go`) | none across calls | run scanners, exclude, suppress, classify, propagate, summarise | scanners, suppression, SBOM probe | nothing a scanner found is lost; verdicts follow from findings |
| report sessions (`reportscanner/session.go`, `hybrid.go`, `cursor.go`) | the finished report in a session | filter, project, pages, sections | session cache | as for page selection; counts agree with pages |
| suppression (`scanner/suppression`) | none | ignore file, exclude-package, inline comments | report generator, tools | suppressed means visible and accounted for |
| OSV cache (`depscanner/httpcache.go`, `filelock.go`, `update.go`, `cache.go`) | cache files, `.meta.json` sidecars, lock file, file times | freshness tiers, conditional GET, locked refresh, update tool | OSV bucket, other processes | data never goes back; staleness is announced; nobody waits for ever |
| dependency matching (`depscanner/osv.go`, `depscanner.go`) | none | version ranges, deduplication | OSV cache | an affected version is reported once |
| taint engine cache (`internal/taint/engine.go`) | loaded module per project root, for the life of the process | `GetOrInit`, `doLoad` | `go/packages`, PAN and HTTP-input scanners | one load per root, bounded latency, callers agree |
| taint propagation (`internal/taint/propagate.go` and others, `panscanner/taint_bridge.go`) | none across calls | flow search, severity adjustment | taint engine cache | a stored PAN is not downgraded |
| triage engine (`scanner/triagescanner`) | parsed files, middleware evidence, a "scanned" flag, in one engine for all calls | `Triage`, collectors, discovery | source files, session cache | an answer's evidence is that of its own project, now |
| file walkers (`scanner/walker.go`, `gitwalker.go`) | none | walk, git-tracked walk, excludes | all scanners | the same files are seen by all |
| SQL scanner (`scanner/sqlscanner`) | none across calls; findings rewritten by four passes | migrations, structs, hooks, verified types, drops | walkers | a pass excuses, removes or downgrades only what it was made for |
| audit scanner (`scanner/auditscanner`) | three package-level caches, reset by every scan | route groups, middleware, log fields | walkers, go.mod lookup | coverage follows the nesting of groups; the caches do not show |
| authentication scanner (`scanner/authscanner`) | none | length policies, second factors, secrets, webhooks | audit's way of reading routes | one verdict per endpoint; "verified" is real |
| PAN scanner (`scanner/panscanner`) | sources keyed by position of findings | structs, tags, literals, logs, .env; bridge | taint engine | a stored field keeps its severity |
| scanners (crypto, TLS, secret, error, script, retention, HTTP input) | none | pattern and syntax matching, severity rules | walkers | rule tables; requirement mapping |
| SBOM, requirement database, `main.go` | read-only tables | lookup, formatting | | |
| `internal/taint_ssa` | | prototype, not reached from `main.go` | | |

Hard behaviour, and where it is: check-then-delete on a concurrent map against a
re-used key (`hybridcache.go:110`, `:181`); cursors that outlive their session
and their server; a refresh protocol between processes with crashes, a lock with
a timeout and a sidecar written after the data (`httpcache.go`, `update.go`); a
load that cannot be interrupted behind a `sync.Once` (`engine.go:125-177`); an
engine object shared by concurrent calls without a lock (`triage.go:42-46`); map
iteration order in the report (`report.go:345`); passes that rewrite findings by
position (`sqlscanner.go`, `taint_bridge.go`); a fixed point whose steps depend
on the order of files and calls (`propagate.go`); package-level caches that
overlapping audit scans reset (`pkgmiddleware.go:40`). `PROJECT.json` lists every
hazard at its line.

## The modules

Each component has a module with its state, one action per step that other
actors can see, its properties and its inductive invariant; an `MC` module with
the constants for TLC; and, where it is proved about, a `_proofs` module
(`Caches_proofs` for `HybridSession` and `TaintEngineCache`, which therefore name
their specifications `Spec` and `EngineSpec`). The
operators next to a definition that are introduced as "Mutant of ..." are
plausible bugs; no action uses them.

`InOrder` has the two operators by which `ReportPipeline`, `TriageEngine`,
`ToolCall` and `SqlSchema` filter and sort: `Where` (the elements at given indices, in their
order: a loop that appends what it does not skip) and `Ranked` (a set in a given
order: a call of package sort). Both say where an element comes to stand by
counting what precedes it. They give what `SelectSeq` and `SortSeq` would, but
those are defined by recursion over the data, about which TLAPS can prove
nothing; `InOrder_proofs` has the facts that the other proofs cite: length,
membership, order, concatenation and how often an element occurs.

### HybridSession: sessions, cursors, eviction

`SelectAndExecute` and the handler around it, `Put`, `Get` and the evictor. A
call with no cursor is `Begin` (handler up to the scan, which fixes the time
stamp that goes into the key), then `ScanError` or `ScanDone` (filter, `Put`,
first response). A call with a cursor is `GetMiss`, or `GetLoad` followed by
`GetExpired` or `GetPage`: the load from the map and the expiry check are two
steps, as are the evictor's `SweepVisit` and `SweepDelete`. `Reject` covers the
early returns, in the order of the code (`Verdict`). `Restart` loses the
server's memory but not the clients' cursors.

Findings are positions: a session holds `total` findings and a page is an
interval. A session key is the record of what `SessionKey` and `FilterHash` hash
(the hash is taken to be injective), so two scans share a key exactly if the
code gives them the same one: same tool, path, filters and second.
`EncodeCursor` cannot fail on its flat struct; that branch is left out, as are
`Reset` and the other test hooks.

### ReportPipeline: from scanner results to a compliance report

`GenerateWithOptions`, one action per stage. Which findings a scanner returns,
whether it fails, the SBOM probe and the order in which
`propagateCrossReferences` walks its map are nondeterministic. A finding keeps
its severity, requirement, related requirements, matching exclude patterns and
whether it is suppressed. `findings` and `names` are the two parallel slices
that the code filters in separate walks. Titles, texts, the not-checked
explanations and the grouping by rule are left out.

### OsvCache: refresh protocol between processes

A call is a program counter through `ensureCacheFresh`, `refreshCacheLocked`,
`downloadAndBuildCache` and `scanFromCache`. Upstream's snapshots are numbered
and the ETag is the number; 0 is a file that does not parse. Every request can
fail, a sidecar can be written, left alone or torn (`Sidecars`), and a process
can die between any two steps (`Crash`, which frees its lock as the system does).
`BeginUpdate` is `update_vulnerability_db`: a dated file, without the lock.

External: the upstream bucket, the release of a dead process's lock, and
`TryLockContext`, which reports an expired context as an error, so
`errLockBusy` and the branch that checks for it are unreachable. Left out: a
failing `Chtimes` after a 304 (logged only), a directory that stops being
writable during the call (answered like `cold`, without data), the tool's
`output_path` argument, and how dependencies are matched.

### TaintEngineCache: one load per project root

`GetOrInit` and `doLoad`: get-or-create under the mutex (`GetEntry`), the caller
that gets into `once.Do` (`OnceDo`) and those that wait for it (`OnceReturn`),
the goroutine in `packages.Load` (`LoadReturns`, or never), and the two branches
of the select (`SelectResult`, `SelectDone`), between which Go chooses freely if
both are ready. `Cancel` is a client that goes away. Code between two waits takes
no time: the clock stands still while a caller can move.

### TriageEngine: shared caches of triage_findings

`Triage` on the one engine that `RegisterTools` creates. `Begin` replaces the
caches; `CollectContext` and the collectors read and fill them finding by
finding; `EnsureDiscovered`, `Discover`, `Publish` and `MarkScanned` are the
once-per-call middleware discovery, file by file. Maps are kept per call that
created them, since an overlapping call goes on with the map it was handed. A
file either parses or not, and `Edit` changes that at any time. Of the data races
the model keeps the interleavings of these steps and Go's "concurrent map
writes" fault; torn slice headers are left out, as are keyword filters and hints.

### ToolCall and PagedDelivery: a conversation with a tool

`HybridSession` has findings as positions; `ToolCall` has what is in them. One
conversation is a first call, then calls that follow its cursors, repeat an older
one or send a foreign one, while the session may expire and be swept. Each of the
twelve tools that return findings has its own filter, summary and handler
operator, since each has its own copy in the code; nine of them happen to be
equal but for the scope parameters. `SeverityMeets` compares names in string
order, as the scanner tools do; `FilterFindings` compares ranks, as the report
and triage do. `Enriched` leaves out verified-OK markers, and a call cancelled
during enrichment is the `cancelled` branch. A rule filter is the set of rules it
names; a regular expression that does not compile is a kind of its own.

`PagedDelivery` is the abstract specification: the wanted findings come in order,
each once, in chunks of any length, and the end is announced only when all have
been given. `ToolDelivers` is the refinement, with `project.wanted` (what the
tool shows of the list that the request selects: `Shown`, `Listed`), `work.given`
(the pages joined) and `ConversationStatus` as the mapping. `MCTools` gives the
scans and the requests.
`HybridSession` shows separately that cursors, keys and eviction keep to it when
several clients share the cache.

### The scanners: ScanCall, SqlSchema, AuditCoverage, AuthScan, TaintFlow, PanScan

`ScanCall` has the variables that a scan needs (which scanner, its project, its
program counter, its work), and `Scanners` composes the four scanners over that
state. The projects that a scanner may be called on are a constant of its module
(`SqlSources`, `AuditSources`, `AuthSources`, `PanSources`). A project is what
parsing gives: statements, declarations, fields. `PaymentContext` and `DevContext` are the decisions that scanners share.

* `SqlSchema` translates `Scan` of the SQL scanner, one action per pass: SQL
  findings with their parallel metas, structs with hooks, the cross-reference
  that removes or downgrades, verified `Valuer` types, and the drop downgrade.
* `AuditCoverage` is the audit scanner with its caches as state. Scans interleave
  at every cache access, `AuditEdit` changes the sources between and during
  scans, and a context may be stored after another scan's reset. Coverage walks
  groups upwards and up to `MaxParentWalk` directories; log fields are resolved
  through constants and helper methods, scored by category.
* `AuthScan` is the authentication scanner: comparisons of lengths in either
  direction, MFA at routes (strategy A) and handlers (strategy B) in one walk,
  hard-coded passwords with the severity that `DevContext` gives, and webhook
  handlers, whose signature check is looked for in the body, in helpers, at the
  route and in the groups of the directories above.
* `TaintFlow` is `FlowsTo`: one set of tainted objects, grown by rules R1 to R7
  and the tables for user input, file by file in a fixed order, until a sink
  receives one or a sweep adds nothing. Programs are given as the nodes that the
  rules read, in the order in which `ast.Inspect` visits them. `enclosingFunc` is
  the function stack as the code keeps it: empty again by the time a body is
  visited. `Reach` is the reference: what flows where, whatever the order. The
  walks over arguments, elements and nodes are recursive functions of the number
  of steps done, since the proofs go by induction over it.
* `PanScan` is the PAN scanner and the bridge. Each finding comes with the field
  it is about; merging, grouping and concatenation have to keep the two in step;
  the bridge asks `TaintFlow` about one finding at a time. Card numbers are
  sequences of digits, names are looked up in a table of their normal forms.

`SqlProjects`, `RouteProjects` and `PanProjects` hold the small projects that
`MCScanners` runs them on; `Both` of `ProjectSets` joins sets of them without
comparing their members. `Scanners_proofs` is about the SQL scanner, the taint
engine, the PAN scanner and the length policies of the authentication scanner;
`Routes_proofs`, which builds on its facts about lists, about second factors,
verified webhooks, the caches of the audit scanner and the handlers that it takes
to be covered.

## The runs

| Run | Kind | What it shows |
|---|---|---|
| `session_safety` | pass | `PagesContiguous`: pages neither skip nor repeat, and come from one's own scan; `CompleteMeansAll`: no next_cursor means every finding of one's own scan; `LostOnlyByExpiry`: CURSOR_EXPIRED only after a restart, or once a session of the very key outlived its TTL. Whose scan it is, is left open for keys under which a second scan was stored |
| `session_liveness` | pass | `ExpiredEvicted`: expired sessions leave the cache; `PaginationEnds`: following cursors ends. With requests of two tools and every kind of refusal |
| `tools` | pass | `ToolDelivers`: every tool implements `PagedDelivery`; `ToolFilterKeeps`: what a filter must keep and may not admit; `ToolSummaryMatchesPages`: a summary's counts and top lists are those of the pages behind its cursor |
| `tools_severity` | violation | `ToolFloorHonoured`: with minimum MEDIUM the scanner tools return LOW and INFO findings |
| `report` | pass | nothing lost or misattributed, exclusions add up, FAIL exactly if an actionable finding is listed, map order does not show, the summary adds up |
| `report_verified` | violation | `PassMeansVerified`: a scanner that failed is only logged and its requirements are reported PASS |
| `osv` | pass | `NeverRegress`, `TouchHonest`, `FreshUnlessAnnounced`, `WaiterEnds` |
| `taint` | pass | `OneLoadPerRoot`, `SameEngine`, `WaitBounded`, `CallerReturns` |
| `triage` | pass | `FreshWhenAlone`, `SameEvidence`, `Accounted` |
| `triage_concurrent` | violation | `EvidenceCurrent`: overlapping calls give findings no evidence, or that of another project |
| `scanners` | pass | SQL: `SqlHookExcuses` (a column is excused only by a hook or type that encrypts it), `SqlLiveColumnReported`, `GormPlaintextReported`; audit: `AuditCoverageExact` (a handler counts as covered exactly if a group above its route has a logger), `AuditFreshWhenAlone`; authentication: `AuthPolicyExact`, `AuthMfaOncePerHandler`, `AuthVerifiedIsReal`; PAN: `TaintHitJustified` (a taint query does not say yes without a path), `PanStoredKept`, `PanMistypedNotReported` |
| `taint_return` | violation | `TaintReturnFollowed`: a card number returned by a function and stored is not found |

Each violation is a disagreement with a quoted comment, message or document
(`findings` in `PROJECT.json`).

### Other statements that the code does not keep

These come with a configuration, and TLC finds each of them violated:

* `HybridSession_overwritten.cfg`, `ExpiredMeansExpired`: the evictor and `Get`
  judge an entry and delete its key in two steps (`hybridcache.go:110`, `:181`). Of
  two sessions stored under one key, the younger one goes with the expired one,
  and its client is told "Session cache expired or server restarted" though
  neither is so. `LostOnlyByExpiry` shows that this takes a session of the same
  key that outlived its TTL; otherwise sharing a key costs no one a session.
* `HybridSession_scope.cfg`, `ScopeKept`: `SessionKey` (`hybridcache.go:118`)
  leaves out `exclude_patterns`, `include_untracked` and `limit`, so two calls in
  one second that differ only in those share a session, and a cursor serves
  findings of the other scope.
* `OsvCache_update.cfg`, `UpdateTakesEffect`: `locateCacheFile`
  (`depscanner.go:160`) prefers `go-osv.json` whatever its age, and
  `update_vulnerability_db` writes a dated file beside it. If the refresh of
  `go-osv.json` fails, the scan goes on with old data, although its hint says
  "Run update_vulnerability_db to refresh OSV cache" (`depscanner.go:195`).
* `TaintEngineCache_unavailable.cfg`, `UnavailableIsReal`: the load runs under the
  first caller's context and its failure is cached (`engine.go:126`): one client's
  cancellation is remembered as a broken project.
* `TriageEngine_syntax.cfg`, `SyntaxOrError`: a file that stopped parsing after the
  scan is cached as lines, then returned as a parsed file without error
  (`triagescanner/context.go:36`), and a nil syntax tree is dereferenced.
* `Scanners_comments.cfg`, one invariant at a time. `SqlDropMeansGone`: a drop of a
  column of the same name in another table downgrades a live one
  (`migration_drop.go:77`). `AuthNoDuplicateMfa`: a handler that is declared
  before its route is registered is flagged twice (`mfa.go:62`).
  `AuditNilMeansUnread`: middleware that was read and logs no field is taken for
  middleware that could not be read, and is INFO (`logfields.go:717`).

### Bounds, and why they are enough

* Sessions: two clients, two scans, TTL 1, clock to 2, one restart, up to 3
  findings with page size 2. A second scan is needed to overwrite a key; a clock
  of 2 passes the TTL by one; 3 findings give a full and a partial page, and with
  limit 1 a page that ends one short of the total. The liveness run has one
  client and one scan, which is what the evictor and a pagination need, and adds
  a second tool. The proofs lift all of these bounds.
* Report: three scanners with up to two findings each, chosen so that every
  severity class, a suppressed, a doubly excluded and a cross-referencing finding
  occur in every combination and order; two exclude patterns, one of which is
  itself matched by an ignore rule. The proofs lift these bounds.
* OSV: two processes, two snapshots, fresh below age 1, stale above age 2, clock
  to 1, starting from an empty directory, an old canonical file, a dated file, and
  a dated file that does not parse. A file found at age 2 is revalidated at time 0
  and force-refreshed at time 1; one written at 0 is revalidated at 1 against its
  sidecar. The proofs lift these bounds.
* Taint: three callers of one root (loader, waiter, late-comer), timeout 2, clock
  to 3. Roots are independent. The proofs lift these bounds.
* Triage: two clients, two projects (three files and one), two requests that
  between them use every collector, one file broken at the start, one edit. The
  proofs lift these bounds.
* Tools: scans of up to five findings over four rules and all severities, page
  size 2, top lists of 1 or 2, histograms of 2 rules, so that lists are cut,
  shared places occur and pages end on and off a boundary; limits from -2 to 3,
  every minimum severity, blank and unknown ones, and every kind of rule filter
  and refusal. A conversation has as many calls as the client likes; repeated
  cursors come back to states already seen. The proofs lift these bounds.
* SQL: up to three migrations of up to two statements out of seven, so that a
  column is created, dropped, added again and dropped in another table; six sets
  of Go files with hooks, verified types, files that do not parse. The proofs
  lift these bounds.
* Audit and authentication: route bodies of up to three statements out of ten,
  with groups in groups, methods that install routes, up to three directories
  above, `MaxParentWalk` 2 (one less than there are), and two overlapping scans
  with an edit. The proofs lift these bounds.
* PAN and taint: three files with every triple of nineteen statements (indexing,
  concatenation, literals, calls before and after what they use, interfaces, user
  input), struct shapes with and without tags, every one-digit change of four
  card numbers, every answer the engine can give. `MaxDepth` is the code's 5. The proofs
  lift these bounds.
* `MaxTime`, `MaxScans`, `MaxRestarts`, `MaxTotal`, `MaxFeed` and `MaxEdits` only
  bound the environment. `TakeObject` leaves open which object of the worklist is
  taken, which covers Go's map order. Deadlock checking is off for sessions and the OSV cache
  only: their clocks run out, and a client may have nothing left to ask.

### Fairness

* Sessions: weak fairness of the evictor and of calls in progress (goroutines
  that can run do run), and of `Follow`: the promise is made to a client that
  keeps asking for the next page. None on ticks, new requests or restarts.
* OSV: weak fairness only of a waiting call (`Lock` or `LockTimeout`: the poll
  loop of `TryLockContext` and its 30 s deadline). None on downloads:
  `http.DefaultClient` has no timeout, so a holder may keep the lock for ever.
* Taint: weak fairness of callers, strong fairness of the clock (a call that is
  answered at once holds it for a moment, again and again). None on
  `packages.Load`, which may never return.

## What is proved

TLAPS checks the following for every number of clients, processes, callers,
roots, scanners, findings, files and snapshots and every value of the time
constants and page sizes. Liveness alone rests on TLC (`ExpiredEvicted`,
`PaginationEnds`, `WaiterEnds`, `CallerReturns`): with fairness and ENABLED it is
out of the prover's reach.

* **HybridSession** (`SessionInvariant`, then `TypeCorrect`, `Contiguous`,
  `Complete`, `LostOnlyThen`). None of the last two is inductive: that a client
  finds its session needs `LiveCached` (a key under which this process stored
  something is in the cache until one of its sessions outlived its TTL), which in
  turn needs `SweepInv` (a key that the evictor is about to delete held an expired
  session) and `HistoryInv` (nothing cached comes from the future). That the pages
  belong to one's own scan needs `ChainInv` and `LoadedInv`: cursor, loaded entry
  and pages carry the client's own key. Assumed: positive page sizes, natural
  bounds, and that "no cursor" is not a cursor.
* **OsvCache** (`CacheInvariant`, then `TypeCorrect`, `TouchIsHonest`,
  `FreshOrAnnounced`, `CanonicalNeverRegresses`). The invariant speaks of one
  call at a time: what it writes (`TargetInv`), which files exist at each step
  (`PresentInv`), how the snapshot or ETag it carries compares with the file
  (`VersionInv`), and how old the file is that it will read (`FreshInv`); the
  lock is held exactly between `Lock` and `Unlock`; and `SnapshotInv`: the
  sidecar's ETag is never newer than the data beside it. The last is why the code
  renames first and saves the sidecar afterwards, and why a crash in between, or
  a torn sidecar, is harmless. Assumed: 0 < FreshTTL <= StaleTTL, and a directory
  found without snapshots from the future.
* **TaintEngineCache** (`EngineInvariant`, then `EngineTypes`, `OneLoadEver`,
  `CallersAgree`, `LatencyBounded`). `LoaderInv`: one caller is inside `once.Do` exactly while the
  entry is loading; `LoadsInv`: the count of loads follows the entry's state;
  `AnswerInv`: an answer is what the settled entry holds; `DeadlineInv`: who waits
  arrived no earlier than the deadline minus the timeout. Assumed: natural times.
* **TriageEngine** (`TriageInvariant`, then `TriageTypes`, `TriageFresh`,
  `TriageSame`, `TriageAccounts`). `FreshWhenAlone` speaks of finished answers
  and is not inductive: evidence in an answer is as good as the engine's caches
  were when it was copied. `AloneInv` says what a call that nobody overlaps may
  rely on: `OwnEngine` (the current map is the call's own and shows unedited files
  as they are; before the discovery there is no evidence, and once it is published
  it is exactly that of the files that parse now) and `OwnWalk` (what the walk has
  found is there, and what is there has been found or is still to be visited).
  `PointerInv` keeps a call that is under way from using no map; `Progress`
  places a call in its request, from which `Accounted` follows. Assumed: a
  project's files are a sequence, and a request's findings are in its files.
* **ReportPipeline** (`PipelineInvariant`, then `PipelineTypes`, `PipelineFails`,
  `PipelineCrossReference`, `PipelineDropsNothing`, `PipelineSummary`,
  `PipelineExclusions`). The invariant ties every stage to the history of what
  the scanners emitted: `FindingsInv` (findings and names are the two halves of
  the same emissions, before and after the separate walks that exclude),
  `ResultsInv`, `StatusInv` (a requirement that is not covered has its primary's
  verdict or waits for it, and nothing that waits is a primary, so that map
  order cannot show) and `ReportInv`. The properties are then facts about the
  report as a rearrangement (`Drawn`) of the emissions: each occurs as often
  as before, and the counts are those of a partition. Assumed: finitely many
  requirements, a scanner emits no finding that is an audit entry, every
  finding's primary requirement is covered by some scanner, and no scanner
  covers the requirement on the inventory. `ExclusionsAccounted` is about lists
  of patterns without a repeated one.
* **ToolCall** (`ToolInvariant`, then `ToolImplements`, `ToolFilters`,
  `ToolSummaries`). For every handler it is shown once what it may answer
  (`HandleGives`: a refusal, a page of the session, the first page, or a
  summary). `PagesInv` is the heart: what was given is what the tool shows of
  the list up to `Position`, the place that the newest cursor names, and a
  session, while there is one, holds that list (`SessionInv`). It needs
  `ShownConcat`: leaving the markers out page by page is as good as leaving them
  out at once. `ToolImplements` maps each step: a call that ends open or done is
  `Deliver` of the findings that `given` grew by, none for a summary, an older
  cursor, an expiry or a sweep; a refused first call is `Refuse`; an expired
  session or a cancelled first call is `Lose`. `ToolFilters` compares the two notions of severity,
  `ToolSummaries` rests on `OverviewInv` and on the orders of the top lists and
  histograms being strict. Assumed: positive page and list sizes, scans that are
  sequences of findings, and requests of the tools' parameters.

* **SqlSchema** (`SqlInvariant`, then `SqlHookExcusesAlways`,
  `GormPlaintextAlwaysReported`, `SqlLiveColumnAlwaysReported`). The properties
  speak of the end of a scan and depend on what four passes leave of each other's
  work. `SqlMetasAligned`: the first findings are those that the metas describe,
  position by position, also after the cross-reference removed some of both;
  `SqlHooksFound`: a finding marked "hook" is of a column that the struct speaking
  for its table encrypts; `SqlTypesDeclared`: verified types are declared by a
  file that parses; `SqlPlaintextKept` and `SqlColumnsKept`: a finding that must be in the
  report at the end is there, still HIGH, after every pass. The last needs that a
  drop in a later file is the last word on its column, which is a fact about the
  flattened migrations (`FlattenSeq` is given there by its elements and their
  order). Assumed: migrations and structs are sequences of what the parser gives,
  and no keyword of sensitive columns is in either of the two tables of expiry
  columns.
* **TaintFlow** under **PanScan** (`PanFlowInvariant`, then
  `TaintHitAlwaysJustified`, `TaintDirectAlwaysFound`). Soundness: `FlowJustified`
  says that everything marked, and every function whose result is marked, is
  reachable from the field or from input of users. One lemma per rule shows that
  the rule stays within a set that is closed under the flows of its node; the
  walk over a file is an induction over its nodes, and that `Reach` is closed is
  an induction over its rounds (`Climb`: a chain that grows at every round ends,
  since the edges are finitely many). Completeness: `FlowSettled` says that the
  worklist is empty, or about to be, only if a sweep over all files swept so far
  marked nothing. An assignment or literal that such a sweep leaves alone has a
  marked target if its source is marked (`Settled`), so the marks are closed
  under direct flows. It rests on `Requeue`: a file that marks anything puts the
  field back on the worklist. Assumed of a program: files are finite sequences of
  the five kinds of nodes, assignments are to objects, and flows are finitely
  many.
* **PanScan** (`PanScanInvariant`, then `PanStoredAlwaysKept` and
  `PanMistypedNeverReported`). Of one file: every sensitive name of a field has
  the findings of its rules (`FileStructs`), merging with the tag of the line
  keeps them, their source and a severity above INFO (`Deduplicated`), grouping
  takes parameters only (`Grouped`), and what is appended moves nothing
  (`ShownJoin`). Of the scan: a finding and its source stand at the same
  position, since a file's sources are keyed past the findings before it
  (`ScannedGoIs`), and the query under way is about the source at the finding
  that its answer will change (`PanScanInv`). So a verdict that takes a finding
  for transit is about that very field; database tags rule it out at once and
  `TaintDirectAlwaysFound` rules it out for a field that is stored
  (`StoredVerdict`). For card numbers, `LuhnOneDigit`: the running sums of two
  numbers that differ in one place are equal before it and apart by a fixed,
  non-zero amount below ten from it on, so not both end in 0. Assumed of a file
  (`WellFormedFile`): what the parser gives are finite lists, and the digits of
  a literal are digits.
* **AuthScan** (`AuthPolicyInvariant`, then `AuthPolicyAlwaysExact`). The scan
  runs four passes over each file and appends to one list; `PolicyUpTo` says
  that the files which the policy pass is through have a finding for each weak
  check, `PolicyFlaggedWeak` that no other place has one, whatever the passes for
  passwords, second factors and webhooks append (`NoPolicy`). `ThresholdExact` is
  the arithmetic: flipped or not, the operator and the threshold tell whether one
  of the lengths 0 to 11 is accepted. Assumed: files, declarations and bodies are
  finite lists, and a literal carries no sign.
  Second factors (`AuthMfaInvariant`, then `AuthMfaAlwaysOnce`): what the walk
  reports is worked out once and for all as `Missing`, pairs of a place and a
  handler. Places of statements differ (`PlacesApart`), and none is that of a
  declaration, so that the two strategies never report the same pair and the
  walk's list has one finding per pair (`MfaDetected`). The downgrade changes
  severities only (`MfaDowngraded`), the other passes leave such findings alone
  (`NoMfa`, `MfaKept`). The count then comes from two bijections
  (`FlaggedRoutes`, `FlaggedHandlers`): findings at statements with unguarded
  routes, findings at declarations with handlers. The proof failed on an earlier
  form of the property, which allowed a name one finding by itself: two methods of
  one name on different types are flagged one by one, as the code does. Such
  projects are now among those of the run. The property is about a file scanned
  alone, as in the run.
  Verified webhooks (`AuthVerifiedInvariant`, then `AuthVerifiedAlwaysReal`): a
  context is what the last effect of each kind and key says (`CtxFrom`), and every
  effect has a statement behind it (`SigEffectsListed`, `SigCtxFrom`). The chain
  of a group is a walk (`ChainClimbs`); if it comes to a covered group, each group
  on the way down lies in every set that holds the covered groups and is closed
  under making groups (`SigCoverIn`, `SigParentIn`), so in the least one
  (`SigChain`). This is where one name per group is needed: the code looks groups
  up by name over the whole package (`TidyNames`). The invariant says that the
  contexts kept are those of their directories, that the search stays below
  `SigLastDir`, and that each finding rests on one of the three kinds of check.
  Assumed: the walk has a natural bound, directories and files are finite lists,
  no variable is called as the marker of a wrapped handler, and the groups that
  are made, covered or installed have names (the code leaves out the others,
  `webhookmiddleware.go:248-324`). For this the lookup of the cache and the choice of
  the files that parse are written without `@@` and `SelectSeq`, of which the
  provers know nothing.
* **AuditCoverage** (`AuditFreshInvariant`, then `AuditFreshAlwaysWhenAlone`). Any
  number of scans share two caches, start, edit and overwrite each other's
  entries. `AuditSound` says of each of them that, while it has been alone since
  it began and nobody has edited the sources, no other scan is in the middle of
  its work, so that the caches are its own (`OwnScan`): a cached context is one
  that could be built now, cached fields are those of the function of that name,
  and what it holds and has not stored is new. A context depends on the order in
  which Go goes through a map, so that the scan need not agree with a fixed
  choice of contexts; it agrees with every choice that agrees with the cache
  (`Agrees`), because it concludes from cached contexts only. When it ends, some
  choice agrees with the cache (`AgreeingExist`), and its findings, joined file by
  file (`JoinedStep`), are those of a scan without caches. The proof failed on an
  earlier `KeysApart`, which overlooked the package's own functions; TLC then
  found the collision in a small project, which is now among those of the run.
  Assumed: the walk has a natural bound, histories are not empty, and
  directories, files and declarations are finite lists.
  Covered handlers (`AuditCoverInvariant`, then `AuditCoverageAlwaysExact`): any
  number of scans of a tidy project (one version, at most one method that installs
  routes per package, one name per group, `CoverTidy`) share the caches and reset
  them under each other. The invariant says that a cached context is one that the
  statements of its directory build, whoever stored it (`ContextsFresh`), that a
  handler in hand is one of the file being read, at the place the program counter
  says (`CoverPlace`, `CoverKnows`), and that every finding has the verdict of
  the reference (`FindingExact`). The reference is the least set of groups that
  holds those with a logger and is closed under making groups. One direction goes
  down the chain of a group as for webhooks; for the other, the groups above which
  a logger is found are themselves closed in that way, so that the least set lies
  among them. In a method that installs routes the parameter stands for the
  argument of each call (`InstallCalls`), and the context is that of the statements
  written out with the argument put in.

## Observed while modelling, without a run

* `report.go:344-358` copies a primary requirement's verdict to a related one,
  also if the finding that relates them is INFO and another finding made the
  primary fail; the comment speaks of requirements "that share a finding".
* An exclude-package pattern listed twice is reported twice with the full count
  (`suppression.go:87-96`); `ExclusionsAccounted` is checked for distinct patterns.
* `docs/generate_compliance_report.md:61` and `docs/triage_findings.md:60` give a
  loaded engine a TTL of 10 minutes; `engine.go` keeps it until the process ends.
  `docs/taint.md:24` gives the load 30 s; the code gives it 90.
* `depscanner/tool.go:230` calls `update_vulnerability_db` "the ONLY tool that
  makes network requests"; dependency scans make conditional requests and refresh.
* Two updates on one day write the same dated file and sidecar without the lock;
  TouchHonest and NeverRegress are about the canonical file, for which they hold.
* Report: the counts by severity of a filtered page are recomputed over the page's
  list (`hybrid.go:142-164`) while its rule counts are those of the whole scan;
  projection by rule, file and line (`hybrid.go:90-101`) brings back findings of
  severities that were filtered out; filters that come with a cursor are ignored
  where the other tools refuse them. A bad regular expression is an error in the
  report and in triage, and matches nothing in the scanner tools.
* Triage: a cancelled enrichment is returned as a successful empty page without
  cursor, and the branch meant for it (`triagescanner/tool.go:198`) is dead.
* SQL: where several structs or files name one table, the last one wins.
* Audit: log fields are cached by directory and function name
  (`logfields.go:927`), so two packages' functions of one name in a directory
  collide: an import's `Install` in one file, and the package's own `Install`
  that covers the handlers of another. All are scored by the fields of whichever
  came first. AuditFreshWhenAlone is about sources without such a pair
  (`KeysApart`), and the run holds a project with one and one without. Group names
  are shared by the files of a package. A covered parent group covers every child
  package. One file that does not parse fails the scan.
* Authentication: `isTestutilPath` comes before the production override that
  `devcontext.go:87` calls non-negotiable; placeholders in production paths rise
  from INFO to CRITICAL although the comment says that context never upgrades.
* Taint: a callee is marked visited at its first call (`propagate.go:341`), so a
  later call with tainted data is not followed; the depth of a binding is one
  more than that of any object, so that five callees side by side use up
  `maxDepth` as five in a row do; `isExprTainted` does not look into
  concatenations; input of users and card data share one set, so that any user
  input in a query makes FlowsTo say yes for every field. `TaintHitJustified`
  allows for the last, `TaintDirectFound` and `PanStoredKept` are about
  assignments and literals, for which order does not matter.
* PAN: an account number among bank details is INFO, and HIGH again if its json
  tag names it too (`panscanner.go:937`). A struct without a name that is written
  on the line of the field that holds it is given the source of that field if a
  json tag there names the same data (`panscanner.go:944`): its own database tags
  are then not looked at, and the field can be taken for transit data.
  `PanStoredKept` leaves such fields out (`OwnLine`), and the `scanners` run holds
  projects of this shape; the need for it showed in the proof of `MergedShown`.
* Dependencies: an advisory that affects two of the direct dependencies is reported
  for the first only (`depscanner.go:141` deletes it from the set); alias groups
  are not merged when a later advisory bridges two of them (`osv.go:122-150`),
  although the comment there speaks of a union-find; `isAffected` looks at
  `introduced` and `fixed` events and at no others.
* Entries of the advisory archive that do not parse are skipped and the ETag of
  the whole archive is saved (`update.go:112`); content is abstract in OsvCache.

## Not modelled, and the plan

Next:

1. **VulnMatch**: version ranges, deduplication and severity of advisories
   against a reference definition, and skipped archive entries; composed with
   OsvCache through the snapshot's content.
2. **IgnoreRules**: ignore-file parsing and matching, inline comments, against
   the documented meaning; composed with ReportPipeline.
3. **HttpInput**: indirections and validators of the HTTP-input scanner, beside
   TaintFlow.

Not modelled: the crypto, TLS, secret, error, retention and script scanners,
which judge each node or line alone by tables of names and text patterns; the
walkers, which the scanners' projects stand for; SBOM and requirement texts
(formatting); the SDK's transport; `go/packages` itself; and the `taint_ssa`
prototype, which nothing calls.
