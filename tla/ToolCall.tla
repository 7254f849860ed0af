------------------------------ MODULE ToolCall ------------------------------
(***************************************************************************)
(* One conversation with one tool: the first call and the calls that       *)
(* follow its cursors.  What HybridSession leaves out is here: which       *)
(* findings a filter keeps, what a summary, its top lists and its          *)
(* histogram say, and which parameters each tool refuses.  The scanner     *)
(* tools are hand-made copies of one handler; every copy has its operator. *)
(*                                                                         *)
(* scanner  the tool                                                       *)
(* project  [found, fails, request, wanted]: what the scan finds, whether  *)
(*          it fails instead, the parameters of the first call, and which  *)
(*          findings those select                                          *)
(* work     the client's side and the session left behind it, see Start    *)
(*                                                                         *)
(* A finding is [rule, sev, file, line] with rule and file numbered in     *)
(* their string order.  A request is [limit, minSev, rule, scope, mode,    *)
(* path, cursor]; rule is [kind, ids], the ids being those a list names or *)
(* a regular expression matches; scope holds the scope parameters given.   *)
(***************************************************************************)
EXTENDS ScanCall, DevContext, InOrder

CONSTANTS
    ScannerPage, DepPage, TriagePage, ReportPage,   \* findings of one flat page
    ScannerTop, SingleTop, ReportTop,               \* top findings per severity
    MaxByRuleEntries,                               \* rules a histogram names
    VerifiedOKRules,                                \* rules whose findings are verified-OK markers
    Scans,                                          \* what a scan may find
    FirstRequests, FollowRequests                   \* what a client may ask first, and with a cursor

ASSUME PagesAssumption ==
    /\ {ScannerPage, DepPage, TriagePage, ReportPage} \subseteq Nat \ {0}
    /\ {ScannerTop, SingleTop, ReportTop, MaxByRuleEntries} \subseteq Nat \ {0}

Severities == DOMAIN SeverityRank
Findings == [rule : Nat, sev : Severities, file : Nat, line : Nat]
FileScope == {"exclude", "tests", "untracked"}
NoCursor == -1      \* a request without a cursor, an answer without a next one
Foreign == -2       \* a cursor that does not decode, or one of another tool

RuleFilters == [kind : {"none", "list", "regex", "bad"}, ids : SUBSET Nat]
Requests == [limit : Int, minSev : STRING, rule : RuleFilters, scope : SUBSET STRING,
             mode : STRING, path : STRING, cursor : {NoCursor, Foreign}]

ASSUME ScansAssumption == Scans \subseteq Seq(Findings)
ASSUME RequestsAssumption == FirstRequests \subseteq Requests /\ FollowRequests \subseteq Requests

NoFindings == [s \in Severities |-> <<>>]
NoHistogram == [bySev |-> [s \in Severities |-> 0], byRule |-> <<>>, more |-> 0, given |-> FALSE]
Blank == [shape |-> "none", code |-> "", items |-> <<>>, next |-> NoCursor, total |-> 0,
          top |-> NoFindings, hist |-> NoHistogram]
NoSession == [state |-> "none", items |-> <<>>, hist |-> NoHistogram]

(* Nothing is answered yet.  overview is the summary received, given the   *)
(* findings of the flat pages, used the cursors that brought them; cursor  *)
(* is the newest one, asked the one sent last.                             *)
Start == [answer |-> Blank, overview |-> Blank, session |-> NoSession, given |-> <<>>,
          used |-> {}, cursor |-> NoCursor, asked |-> NoCursor, cancelled |-> FALSE]

Trim(s) == IF s = " " THEN "" ELSE s
QualitySet(req) == Trim(req.minSev) # "" \/ req.rule.kind # "none"

-----------------------------------------------------------------------------
(* Counts, histograms and top lists.                                       *)

CountBySeverity(fs) == [s \in Severities |-> Cardinality({i \in DOMAIN fs : fs[i].sev = s})]

RuleCount(fs, r) == Cardinality({i \in DOMAIN fs : fs[i].rule = r})
RulesOf(fs) == {fs[i].rule : i \in DOMAIN fs}

(* The rules of fs, most frequent first, equally frequent ones by name.    *)
MoreFrequent(fs) ==
    {p \in RulesOf(fs) \X RulesOf(fs) :
        \/ RuleCount(fs, p[1]) > RuleCount(fs, p[2])
        \/ RuleCount(fs, p[1]) = RuleCount(fs, p[2]) /\ p[1] < p[2]}

RankedRules(fs) == Ranked(RulesOf(fs), MoreFrequent(fs))

Least(a, b) == IF a < b THEN a ELSE b

BuildHistogram(fs) ==
    LET ranked == RankedRules(fs)
        named == Least(MaxByRuleEntries, Len(ranked))
    IN  [bySev |-> CountBySeverity(fs),
         byRule |-> [k \in 1..named |-> [rule |-> ranked[k], count |-> RuleCount(fs, ranked[k])]],
         more |-> Len(ranked) - named,
         given |-> TRUE]

OfSeverity(fs, sev) == {i \in DOMAIN fs : fs[i].sev = sev}

(* Mutant of PickTopN: the list is cut before it is sorted.               *)
PickFirstN(fs, sev, n) ==
    LET mine == Where(fs, OfSeverity(fs, sev))
    IN  SubSeq(mine, 1, Least(n, Len(mine)))

(* The order by rule and file; the sort is stable.                         *)
Sooner(fs, S) ==
    {p \in S \X S :
        LET f == fs[p[1]]
            g == fs[p[2]]
        IN  \/ f.rule < g.rule
            \/ f.rule = g.rule /\ f.file < g.file
            \/ f.rule = g.rule /\ f.file = g.file /\ p[1] < p[2]}

(* The first n findings of one severity in that order.                     *)
PickTopN(fs, sev, n) ==
    LET mine == OfSeverity(fs, sev)
        sorted == Ranked(mine, Sooner(fs, mine))
    IN  [k \in 1..Least(n, Cardinality(mine)) |-> fs[sorted[k]]]

Summarise(fs, n, total) ==
    [Blank EXCEPT !.shape = "summary", !.next = 0, !.total = total, !.hist = BuildHistogram(fs),
                  !.top = [s \in Severities |-> PickTopN(fs, s, n)]]

-----------------------------------------------------------------------------
(* The filters.                                                            *)

(* The order of the severities' names, which the scanner tools compare.    *)
NameOrder == [CRITICAL |-> 1, HIGH |-> 2, INFO |-> 3, LOW |-> 4, MEDIUM |-> 5]

SeverityMeets(sev, minSev) ==
    minSev \in Severities => NameOrder[sev] <= NameOrder[minSev]

RuleMatches(rule, filter) ==
    CASE filter.kind = "none" -> TRUE
      [] filter.kind \in {"list", "regex"} -> rule \in filter.ids
      [] filter.kind = "bad" -> FALSE

(* Mutant of FilterScannerFindings: the rule filter alone decides.         *)
FilterByRuleOnly(fs, req) ==
    [ok |-> TRUE, items |-> Where(fs, {i \in DOMAIN fs : RuleMatches(fs[i].rule, req.rule)})]

FilterScannerFindings(fs, req) ==
    [ok |-> TRUE,
     items |-> Where(fs, {i \in DOMAIN fs : /\ SeverityMeets(fs[i].sev, req.minSev)
                                            /\ RuleMatches(fs[i].rule, req.rule)})]

(* The filter of the report and of the triage tool compares ranks and      *)
(* reports a bad regular expression.                                       *)
RankMeets(sev, minSev) ==
    minSev \in Severities => SeverityRank[sev] >= SeverityRank[minSev]

FilterFindings(fs, req) ==
    [ok |-> req.rule.kind # "bad",
     items |-> Where(fs, {i \in DOMAIN fs : /\ RankMeets(fs[i].sev, req.minSev)
                                            /\ RuleMatches(fs[i].rule, req.rule)})]

-----------------------------------------------------------------------------
(* The call itself: an answer and the session that is left.                *)

Outcome(answer, session) == [answer |-> answer, session |-> session]

Refused(code, session) ==
    Outcome([Blank EXCEPT !.shape = "error", !.code = code], session)

(* Mutant of PageFrom: the next page starts one finding too late.          *)
PageSkipping(items, off, size, hist) ==
    LET end == Least(off + size, Len(items))
    IN  [Blank EXCEPT !.shape = "flat", !.items = SubSeq(items, off + 1, end),
                      !.next = IF end + 1 < Len(items) THEN end + 1 ELSE NoCursor,
                      !.total = Len(items), !.hist = hist]

(* The page of a list that starts after off.                               *)
PageFrom(items, off, size, hist) ==
    LET end == Least(off + size, Len(items))
    IN  [Blank EXCEPT !.shape = "flat", !.items = SubSeq(items, off + 1, end),
                      !.next = IF end < Len(items) THEN end ELSE NoCursor,
                      !.total = Len(items), !.hist = hist]

(* kept is what the tool's filter makes of the scan, summary what its      *)
(* summary builder does.                                                   *)
SelectAndExecute(in, w, page, kept, summary) ==
    LET hist == BuildHistogram(w.found)
        size == IF in.limit > 0 THEN in.limit ELSE page
    IN  IF in.limit > page THEN Refused("LIMIT_EXCEEDS_PAGE_SIZE", w.session)
        ELSE IF in.cursor = Foreign THEN Refused("CURSOR_MALFORMED", w.session)
        ELSE IF in.cursor # NoCursor /\ w.session.state # "live"
        THEN Refused("CURSOR_EXPIRED", [w.session EXCEPT !.state = "gone"])
        ELSE IF in.cursor # NoCursor
        THEN Outcome(PageFrom(w.session.items, in.cursor, page, w.session.hist), w.session)
        ELSE IF w.fails THEN Refused("SCAN_FAILED", w.session)
        ELSE IF in.limit > 0 \/ in.minSev # "" \/ in.rule.kind # "none"
        THEN IF kept.ok
             THEN Outcome(PageFrom(kept.items, 0, size, hist),
                          [state |-> "live", items |-> kept.items, hist |-> hist])
             ELSE Refused("FILTER_FAILED", w.session)
        ELSE Outcome(summary,
                     [state |-> "live", items |-> w.found, hist |-> NoHistogram])

(* A scanner tool.  A cursor goes with no filter; scope parameters alone   *)
(* ask for a flat page.                                                    *)
ScannerTool(req, w, scopeParams, kept, summary) ==
    LET scoped == req.scope \cap scopeParams # {}
        implicit == scoped /\ req.limit = 0 /\ ~QualitySet(req) /\ req.cursor = NoCursor
        in == [req EXCEPT !.minSev = Trim(@), !.limit = IF implicit THEN ScannerPage ELSE @]
    IN  IF req.limit = -1 THEN Refused("LIMIT_MINUS_ONE_REMOVED", w.session)
        ELSE IF req.cursor # NoCursor /\ (scoped \/ QualitySet(req))
        THEN Refused("cursor_malformed", w.session)
        ELSE SelectAndExecute(in, w, ScannerPage, kept, summary)

-----------------------------------------------------------------------------
(* The tools, each with its own copy of filter, summary and handler.       *)

TlsFilter(fs, req) == FilterScannerFindings(fs, req)
TlsSummary(fs) == Summarise(fs, ScannerTop, Len(fs))
CheckTlsConfig(req, w) == ScannerTool(req, w, FileScope, TlsFilter(w.found, req), TlsSummary(w.found))

CryptoFilter(fs, req) == FilterScannerFindings(fs, req)
CryptoSummary(fs) == Summarise(fs, ScannerTop, Len(fs))
CheckEncryption(req, w) == ScannerTool(req, w, FileScope, CryptoFilter(w.found, req), CryptoSummary(w.found))

ErrorFilter(fs, req) == FilterScannerFindings(fs, req)
ErrorSummary(fs) == Summarise(fs, ScannerTop, Len(fs))
CheckErrorHandling(req, w) == ScannerTool(req, w, FileScope, ErrorFilter(w.found, req), ErrorSummary(w.found))

AuditFilter(fs, req) == FilterScannerFindings(fs, req)
AuditSummary(fs) == Summarise(fs, ScannerTop, Len(fs))
CheckAuditLog(req, w) == ScannerTool(req, w, FileScope, AuditFilter(w.found, req), AuditSummary(w.found))

SecretFilter(fs, req) == FilterScannerFindings(fs, req)
SecretSummary(fs) == Summarise(fs, ScannerTop, Len(fs))
CheckSecrets(req, w) == ScannerTool(req, w, FileScope, SecretFilter(w.found, req), SecretSummary(w.found))

RetentionFilter(fs, req) == FilterScannerFindings(fs, req)
RetentionSummary(fs) == Summarise(fs, ScannerTop, Len(fs))
CheckDataRetention(req, w) == ScannerTool(req, w, FileScope, RetentionFilter(w.found, req), RetentionSummary(w.found))

AuthFilter(fs, req) == FilterScannerFindings(fs, req)
AuthSummary(fs) == Summarise(fs, ScannerTop, Len(fs))
CheckAuthStrength(req, w) == ScannerTool(req, w, FileScope, AuthFilter(w.found, req), AuthSummary(w.found))

(* Taint analysis is a scope parameter of the PAN tool.                    *)
PanFilter(fs, req) == FilterScannerFindings(fs, req)
PanSummary(fs) == Summarise(fs, ScannerTop, Len(fs))
ScanPan(req, w) == ScannerTool(req, w, FileScope \cup {"taint"}, PanFilter(w.found, req), PanSummary(w.found))

(* The script tool alone insists on a path.                                *)
ScriptFilter(fs, req) == FilterScannerFindings(fs, req)
ScriptSummary(fs) == Summarise(fs, ScannerTop, Len(fs))
CheckPaymentPageScripts(req, w) ==
    IF req.path = "" THEN Refused("PATH_REQUIRED", w.session)
    ELSE ScannerTool(req, w, FileScope, ScriptFilter(w.found, req), ScriptSummary(w.found))

(* The dependency tool has no scope parameters, and refuses a limit with a *)
(* cursor.                                                                 *)
DepFilter(fs, req) == FilterScannerFindings(fs, req)
DepSummary(fs) == Summarise(fs, SingleTop, Len(fs))
CheckDependencies(req, w) ==
    IF req.mode \notin {"", "auto"} THEN Refused("INVALID_MODE", w.session)
    ELSE IF req.limit = -1 THEN Refused("LIMIT_MINUS_ONE_REMOVED", w.session)
    ELSE IF req.cursor # NoCursor /\ (QualitySet(req) \/ req.limit > 0)
    THEN Refused("cursor_malformed", w.session)
    ELSE SelectAndExecute([req EXCEPT !.minSev = Trim(@)], w, DepPage,
                          DepFilter(w.found, req), DepSummary(w.found))

(* Triage enriches what it returns, without the verified-OK markers, while *)
(* the totals count them; a cancelled enrichment leaves an empty flat page *)
(* or an empty summary.                                                    *)
Unmarked(fs) == Where(fs, {i \in DOMAIN fs : fs[i].rule \notin VerifiedOKRules})

Enriched(fs, w) == IF w.cancelled THEN <<>> ELSE Unmarked(fs)

TriageSummary(fs, w) == Summarise(Enriched(fs, w), SingleTop, Len(fs))

TriageFlat(answer, w) ==
    IF w.cancelled /\ answer.items # <<>>
    THEN [Blank EXCEPT !.shape = "flat", !.hist = answer.hist]
    ELSE [answer EXCEPT !.items = Enriched(answer.items, w)]

TriageFindings(req, w) ==
    LET r == SelectAndExecute(req, w, TriagePage, FilterFindings(w.found, req), TriageSummary(w.found, w))
        narrowed == \/ req.minSev # "" \/ req.rule.kind # "none" \/ req.limit > 0
                    \/ req.scope \cap {"tests", "taint"} # {} \/ req.mode # ""
    IN  IF req.mode \notin {"", "auto"} THEN Refused("INVALID_MODE", w.session)
        ELSE IF req.limit = -1 THEN Refused("LIMIT_MINUS_ONE_REMOVED", w.session)
        ELSE IF req.cursor # NoCursor /\ narrowed THEN Refused("cursor_malformed", w.session)
        ELSE IF r.answer.shape = "flat" THEN Outcome(TriageFlat(r.answer, w), r.session)
        ELSE r

(* The report's findings are projected back by rule, file and line, so a   *)
(* filtered page also has the findings that share those with a kept one;   *)
(* its severity counts are those of the page's list, its rules those of    *)
(* the whole scan.                                                         *)
Key(f) == <<f.rule, f.file, f.line>>

Projected(fs, kept) ==
    Where(fs, {i \in DOMAIN fs : \E k \in DOMAIN kept : Key(kept[k]) = Key(fs[i])})

RecomputeSeveritySummary(fs, projected) ==
    [BuildHistogram(fs) EXCEPT !.bySev = CountBySeverity(projected)]

ReportPickTopN(fs, sev, n) ==
    LET mine == Where(fs, OfSeverity(fs, sev))
    IN  SubSeq(mine, 1, Least(n, Len(mine)))

(* Only the three upper severities have a top list, in report order.       *)
ReportSummary(fs) ==
    LET First(s) == IF s \in {"LOW", "INFO"} THEN <<>> ELSE ReportPickTopN(fs, s, ReportTop)
    IN  [Blank EXCEPT !.shape = "summary", !.next = 0, !.total = Len(fs),
                      !.hist = [NoHistogram EXCEPT !.bySev = CountBySeverity(fs)],
                      !.top = [s \in Severities |-> First(s)]]

BuildFlatPage(session, off, size) == PageFrom(session.items, off, size, session.hist)

PutSession(items, hist) == [state |-> "live", items |-> items, hist |-> hist]

ReportSelectAndExecute(req, w) ==
    LET kept == FilterFindings(w.found, req)
        projected == Projected(w.found, kept.items)
        hist == RecomputeSeveritySummary(w.found, projected)
        size == IF req.limit > 0 THEN req.limit ELSE ReportPage
        counts == [NoHistogram EXCEPT !.bySev = CountBySeverity(w.found)]
    IN  IF req.cursor = Foreign THEN Refused("CURSOR_MALFORMED", w.session)
        ELSE IF req.cursor # NoCursor /\ w.session.state # "live"
        THEN Refused("CURSOR_EXPIRED", [w.session EXCEPT !.state = "gone"])
        ELSE IF req.cursor # NoCursor
        THEN Outcome(BuildFlatPage(w.session, req.cursor, ReportPage), w.session)
        ELSE IF w.fails THEN Refused("SCAN_FAILED", w.session)
        ELSE IF req.limit > 0 \/ req.minSev # "" \/ req.rule.kind # "none"
        THEN IF kept.ok
             THEN LET entry == PutSession(projected, hist)
                  IN  Outcome(BuildFlatPage(entry, 0, size), entry)
             ELSE Refused("FILTER_FAILED", w.session)
        ELSE Outcome(ReportSummary(w.found), PutSession(w.found, counts))

(* The report tool ignores filters that come with a cursor.                *)
GenerateComplianceReport(req, w) ==
    IF req.mode \notin {"", "auto"} THEN Refused("INVALID_MODE", w.session)
    ELSE IF req.limit = -1 THEN Refused("LIMIT_MINUS_ONE_REMOVED", w.session)
    ELSE IF req.limit > ReportPage THEN Refused("LIMIT_EXCEEDS_PAGE_SIZE", w.session)
    ELSE ReportSelectAndExecute(req, w)

ScannerTools == {"tls", "crypto", "error", "audit", "secret", "retention", "auth", "pan", "script"}
Tools == ScannerTools \cup {"dep", "triage", "report"}

Handle(tool, req, w) ==
    CASE tool = "tls" -> CheckTlsConfig(req, w)
      [] tool = "crypto" -> CheckEncryption(req, w)
      [] tool = "error" -> CheckErrorHandling(req, w)
      [] tool = "audit" -> CheckAuditLog(req, w)
      [] tool = "secret" -> CheckSecrets(req, w)
      [] tool = "retention" -> CheckDataRetention(req, w)
      [] tool = "auth" -> CheckAuthStrength(req, w)
      [] tool = "pan" -> ScanPan(req, w)
      [] tool = "script" -> CheckPaymentPageScripts(req, w)
      [] tool = "dep" -> CheckDependencies(req, w)
      [] tool = "triage" -> TriageFindings(req, w)
      [] tool = "report" -> GenerateComplianceReport(req, w)

(* The list that a session pages through.                                  *)
Listed(tool, found, req) ==
    CASE tool = "triage" -> FilterFindings(found, req).items
      [] tool = "report" -> Projected(found, FilterFindings(found, req).items)
      [] OTHER -> FilterScannerFindings(found, req).items

(* What the tool shows of a list; triage leaves the markers out.           *)
Shown(tool, fs) == IF tool = "triage" THEN Unmarked(fs) ELSE fs

-----------------------------------------------------------------------------
(* The conversation.                                                       *)

Situation(cancelled) == [found |-> project.found, fails |-> project.fails,
                         session |-> work.session, cancelled |-> cancelled]

(* The context of a call may be cancelled while triage enriches.           *)
Cancellations == IF scanner = "triage" THEN BOOLEAN ELSE {FALSE}

(* The client keeps a page it had not received before.                     *)
Received(req, r, cancelled) ==
    LET new == r.answer.shape = "flat" /\ ~cancelled /\ req.cursor = work.cursor
    IN  [work EXCEPT
           !.answer = r.answer, !.session = r.session, !.asked = req.cursor,
           !.cancelled = cancelled,
           !.overview = IF r.answer.shape = "summary" THEN r.answer ELSE @,
           !.given = IF new THEN @ \o r.answer.items ELSE @,
           !.used = IF new THEN @ \cup {req.cursor} ELSE @,
           !.cursor = IF new \/ r.answer.shape = "summary" THEN r.answer.next ELSE @]

FirstCall ==
    \E cancelled \in Cancellations :
      LET r == Handle(scanner, project.request, Situation(cancelled))
      IN  Pass(scanner, "start",
               IF r.answer.shape = "error" \/ cancelled THEN "failed"
               ELSE IF r.answer.next = NoCursor THEN "done" ELSE "open",
               Received(project.request, r, cancelled))

(* The client sends a cursor it holds, the newest or an earlier one, or    *)
(* one that is not this tool's.                                            *)
HeldCursors == ({work.cursor} \cup work.used) \ {NoCursor}

FollowCursor(req) ==
    /\ pc = "open"
    /\ \E off \in HeldCursors \cup {Foreign}, cancelled \in Cancellations :
         LET asked == [req EXCEPT !.cursor = off]
             r == Handle(scanner, asked, Situation(cancelled))
         IN  Pass(scanner, "open",
                  IF r.answer.code = "CURSOR_EXPIRED" THEN "failed"
                  ELSE IF Received(asked, r, cancelled).cursor = NoCursor THEN "done" ELSE "open",
                  Received(asked, r, cancelled))

(* The session's time runs out; the sweep removes it.                      *)
ExpireSession ==
    /\ work.session.state = "live"
    /\ Pass(scanner, "open", "open", [work EXCEPT !.session.state = "expired"])

EvictSession ==
    /\ work.session.state = "expired"
    /\ Pass(scanner, "open", "open", [work EXCEPT !.session.state = "gone"])

Init ==
    \E t \in Tools, found \in Scans, req \in FirstRequests, fails \in BOOLEAN :
        /\ fails => found = <<>>
        /\ Called(t, [found |-> found, fails |-> fails, request |-> req,
                      wanted |-> Shown(t, Listed(t, found, req))], Start)

Next ==
    \/ FirstCall
    \/ \E req \in FollowRequests : FollowCursor(req)
    \/ ExpireSession
    \/ EvictSession
    \/ Returned

Spec == Init /\ [][Next]_callVars

-----------------------------------------------------------------------------
(* Properties.                                                             *)

ConversationStatus ==
    CASE pc = "start" -> "asked"
      [] pc = "open" -> "open"
      [] pc = "done" -> "complete"
      [] pc = "failed" -> IF work.cancelled \/ work.answer.code = "CURSOR_EXPIRED"
                          THEN "lost" ELSE "refused"

Delivery == INSTANCE PagedDelivery
              WITH Items <- Findings,
                   wanted <- project.wanted, delivered <- work.given, status <- ConversationStatus

(* A client that follows the cursors of any tool gets what the request     *)
(* selects, in order and each finding once, whatever the limit, page size, *)
(* retries of older cursors and refused calls in between; a tool returns   *)
(* no further cursor only when everything has been given                   *)
(* (hybrid.SelectAndExecute, reportscanner.SelectAndExecute).              *)
ToolDelivers == Delivery!Spec

(* What the filters mean: a finding meets the request when its severity is *)
(* at least the minimum and its rule is named.                             *)
MeetsRequest(f) ==
    RankMeets(f.sev, project.request.minSev) /\ RuleMatches(f.rule, project.request.rule)

(* The list a session pages through holds every finding that meets the     *)
(* request, except that the scanner tools' string comparison loses MEDIUM  *)
(* findings under the minimums LOW and INFO and LOW ones under INFO; and a *)
(* CRITICAL or HIGH minimum admits nothing below it, except a report       *)
(* finding at the place of one that is admitted.                           *)
ToolFilterKeeps ==
    work.session.state # "none" =>
        \A i \in DOMAIN project.found :
            LET f == project.found[i]
                listed == \E j \in DOMAIN work.session.items : work.session.items[j] = f
                byName == scanner \notin {"triage", "report"}
                coarse == byName /\ project.request.minSev \in {"MEDIUM", "LOW", "INFO"}
            IN  /\ MeetsRequest(f) /\ (coarse => f.sev \in {"CRITICAL", "HIGH"}) => listed
                /\ listed /\ ~coarse =>
                     \/ MeetsRequest(f)
                     \/ scanner = "report"
                        /\ \E k \in DOMAIN project.found :
                              MeetsRequest(project.found[k]) /\ Key(project.found[k]) = Key(f)

(* A summary and the pages behind its cursor speak of the same findings:   *)
(* followed to the end, the pages hold as many of each severity and of     *)
(* each named rule as the summary said, and every top finding is on one of *)
(* them, with no finding of its severity and an earlier rule left out of   *)
(* a full top list.                                                        *)
ToolSummaryMatchesPages ==
    (pc = "done" /\ work.overview.shape = "summary") =>
        LET said == work.overview
            given == work.given
        IN  /\ said.hist.bySev = CountBySeverity(given)
            /\ said.hist.given =>
                 /\ Len(said.hist.byRule) + said.hist.more = Cardinality(RulesOf(given))
                 /\ \A k \in DOMAIN said.hist.byRule :
                        said.hist.byRule[k].count = RuleCount(given, said.hist.byRule[k].rule)
            /\ \A s \in Severities :
                 \A k \in DOMAIN said.top[s] :
                   /\ \E i \in DOMAIN given : given[i] = said.top[s][k] /\ given[i].sev = s
                   /\ scanner # "report" =>
                        \A i \in DOMAIN given :
                          (given[i].sev = s /\ given[i].rule < said.top[s][k].rule) =>
                             \E m \in DOMAIN said.top[s] : said.top[s][m] = given[i]

(* Every finding on a flat page of a scanner tool is at least as severe as *)
(* the minimum asked for: "Filter by minimum severity" in its schema.      *)
ToolFloorHonoured ==
    (scanner \in Tools \ {"triage", "report"} /\ project.request.minSev \in Severities) =>
        \A i \in DOMAIN work.answer.items :
            SeverityRank[work.answer.items[i].sev] >= SeverityRank[project.request.minSev]

-----------------------------------------------------------------------------
(* The inductive invariant behind them.                                    *)

List == Listed(scanner, project.found, project.request)

(* How much of the list has been given: all of it once there is no cursor. *)
Position == IF work.cursor = NoCursor THEN Len(List) ELSE work.cursor

SummaryOf(tool, fs) ==
    CASE tool = "triage" -> Summarise(Unmarked(fs), SingleTop, Len(fs))
      [] tool = "report" -> ReportSummary(fs)
      [] tool = "dep" -> Summarise(fs, SingleTop, Len(fs))
      [] OTHER -> Summarise(fs, ScannerTop, Len(fs))

Sessions == [state : {"none", "live", "expired", "gone"}, items : Seq(Findings),
             hist : {work.session.hist}]

CallInv ==
    /\ scanner \in Tools
    /\ \E found \in Scans, req \in FirstRequests, fails \in BOOLEAN :
         project = [found |-> found, fails |-> fails, request |-> req,
                    wanted |-> Shown(scanner, Listed(scanner, found, req))]
    /\ pc \in {"start", "open", "done", "failed"}
    /\ pc = "start" => work = Start

SessionInv ==
    /\ work = [answer |-> work.answer, overview |-> work.overview, session |-> work.session,
               given |-> work.given, used |-> work.used, cursor |-> work.cursor,
               asked |-> work.asked, cancelled |-> work.cancelled]
    /\ work.session \in Sessions
    /\ work.session.state # "none" => work.session.items = List

(* The newest cursor says how much has been given, and older ones were     *)
(* places in the same list.                                                *)
PagesInv ==
    pc \in {"open", "done"} =>
        /\ work.session.state # "none"
        /\ pc = "open" <=> work.cursor # NoCursor
        /\ work.used \cup {work.cursor} \subseteq (0..Len(List)) \cup {NoCursor}
        /\ work.given = Shown(scanner, SubSeq(List, 1, Position))

OverviewInv ==
    pc \in {"open", "done"} /\ work.overview.shape = "summary" =>
        List = project.found /\ work.overview = SummaryOf(scanner, project.found)

ToolInv == CallInv /\ SessionInv /\ PagesInv /\ OverviewInv
=============================================================================
