--------------------------- MODULE ToolCall_proofs ---------------------------
(***************************************************************************)
(* Every tool implements PagedDelivery, for all page sizes, limits, scans  *)
(* and requests: the newest cursor says how much of the list has been      *)
(* given, and a page takes up where it points.                             *)
(***************************************************************************)
EXTENDS ToolCall, InOrder_proofs

-----------------------------------------------------------------------------
(* Lists                                                                   *)

\* Indices of a sequence are finitely many integers, and have elements at them.
LEMMA IndicesFinite ==
    ASSUME NEW V, NEW fs \in Seq(V), NEW S \in SUBSET (DOMAIN fs)
    PROVE  S \in SUBSET Int /\ IsFiniteSet(S) /\ \A i \in S : fs[i] \in V
  <1>1. DOMAIN fs = 1..Len(fs) /\ Len(fs) \in Nat /\ \A i \in 1..Len(fs) : fs[i] \in V
    OBVIOUS
  <1>2. IsFiniteSet(1..Len(fs))
    BY <1>1, FS_Interval
  <1>3. IsFiniteSet(S)
    BY <1>1, <1>2, FS_Subset
  <1> QED BY <1>1, <1>3

\* A selection from a sequence has its type.
LEMMA SievedType ==
    ASSUME NEW V, NEW fs \in Seq(V), NEW S \in SUBSET (DOMAIN fs)
    PROVE  Where(fs, S) \in Seq(V)
  <1>1. S \in SUBSET Int /\ IsFiniteSet(S) /\ \A i \in S : fs[i] \in V
    BY IndicesFinite
  <1> QED BY <1>1, WhereType

\* Both filters give sequences of findings.
LEMMA FilterTypes ==
    ASSUME NEW found \in Seq(Findings), NEW req
    PROVE  /\ FilterFindings(found, req).items \in Seq(Findings)
           /\ FilterScannerFindings(found, req).items \in Seq(Findings)
  <1> DEFINE S == {i \in DOMAIN found : /\ RankMeets(found[i].sev, req.minSev)
                                        /\ RuleMatches(found[i].rule, req.rule)}
             T == {i \in DOMAIN found : /\ SeverityMeets(found[i].sev, req.minSev)
                                        /\ RuleMatches(found[i].rule, req.rule)}
  <1>1. /\ FilterFindings(found, req).items = Where(found, S)
        /\ FilterScannerFindings(found, req).items = Where(found, T)
    BY DEF FilterFindings, FilterScannerFindings
  <1>2. S \in SUBSET (DOMAIN found) /\ T \in SUBSET (DOMAIN found)
    OBVIOUS
  <1> HIDE DEF S, T
  <1> QED BY <1>1, <1>2, SievedType

\* The list of a session is a sequence of findings.
LEMMA ListedType ==
    ASSUME NEW tool, NEW found \in Seq(Findings), NEW req
    PROVE  Listed(tool, found, req) \in Seq(Findings)
  <1> DEFINE kept == FilterFindings(found, req).items
             S == {i \in DOMAIN found : \E k \in DOMAIN kept : Key(kept[k]) = Key(found[i])}
  <1>1. S \in SUBSET (DOMAIN found) /\ Projected(found, kept) = Where(found, S)
    BY DEF Projected
  <1> HIDE DEF S
  <1>2. Projected(found, kept) \in Seq(Findings)
    BY <1>1, SievedType
  <1> QED BY <1>2, FilterTypes DEF Listed

\* A request without a filter selects everything.
LEMMA ListedAll ==
    ASSUME NEW tool, NEW found \in Seq(Findings), NEW req,
           req.minSev \notin Severities, req.rule.kind = "none"
    PROVE  Listed(tool, found, req) = found
  <1> DEFINE S == {i \in DOMAIN found : /\ RankMeets(found[i].sev, req.minSev)
                                        /\ RuleMatches(found[i].rule, req.rule)}
             T == {i \in DOMAIN found : /\ SeverityMeets(found[i].sev, req.minSev)
                                        /\ RuleMatches(found[i].rule, req.rule)}
             P == {i \in DOMAIN found : \E k \in DOMAIN found : Key(found[k]) = Key(found[i])}
  <1>1. S = 1..Len(found) /\ T = 1..Len(found) /\ P = 1..Len(found)
    BY DEF RankMeets, SeverityMeets, RuleMatches
  <1>2. Where(found, 1..Len(found)) = found
    BY WhereAll
  <1>3. /\ FilterFindings(found, req).items = Where(found, S)
        /\ FilterScannerFindings(found, req).items = Where(found, T)
    BY DEF FilterFindings, FilterScannerFindings
  <1>4. FilterFindings(found, req).items = found /\ FilterScannerFindings(found, req).items = found
    BY <1>1, <1>2, <1>3
  <1>5. Projected(found, found) = Where(found, P)
    BY DEF Projected
  <1> QED BY <1>1, <1>2, <1>4, <1>5 DEF Listed

\* The markers are left out page by page as they are from the whole list.
LEMMA ShownType ==
    ASSUME NEW tool, NEW fs \in Seq(Findings)
    PROVE  Shown(tool, fs) \in Seq(Findings)
  <1> DEFINE S == {i \in DOMAIN fs : fs[i].rule \notin VerifiedOKRules}
  <1>1. S \in SUBSET (DOMAIN fs) /\ Unmarked(fs) = Where(fs, S)
    BY DEF Unmarked
  <1> HIDE DEF S
  <1> QED BY <1>1, SievedType DEF Shown

\* Nothing is shown of an empty list.
LEMMA ShownNone ==
    ASSUME NEW tool
    PROVE  Shown(tool, <<>>) = <<>>
  <1> DEFINE e == <<>>
             S == {i \in DOMAIN e : e[i].rule \notin VerifiedOKRules}
  <1>1. S = {} /\ Unmarked(e) = Where(e, S)
    BY DEF Unmarked
  <1>2. Where(e, {}) = <<>>
    BY WhereNone
  <1> QED BY <1>1, <1>2 DEF Shown

\* What is shown of two lists in a row is what is shown of each: page by page is as
\* good as at once.
LEMMA ShownConcat ==
    ASSUME NEW tool, NEW s \in Seq(Findings), NEW t \in Seq(Findings)
    PROVE  Shown(tool, s \o t) = Shown(tool, s) \o Shown(tool, t)
  <1> DEFINE m == Len(s)
             n == Len(t)
             Plain(fs) == {i \in DOMAIN fs : fs[i].rule \notin VerifiedOKRules}
             u == s \o t
  <1>1. /\ m \in Nat /\ n \in Nat /\ DOMAIN s = 1..m /\ DOMAIN t = 1..n /\ DOMAIN u = 1..(m + n)
        /\ \A i \in 1..m : u[i] = s[i]
        /\ \A i \in 1..n : u[m + i] = t[i]
    OBVIOUS
  <1>2. Plain(u) = Plain(s) \cup Shifted(Plain(t), m)
    <2> HIDE DEF u, m, n
    <2>1. ASSUME NEW i \in Plain(u) PROVE i \in Plain(s) \cup Shifted(Plain(t), m)
      <3>1. CASE i \in 1..m
        BY <1>1, <3>1
      <3>2. CASE i \notin 1..m
        <4>1. i \in 1..(m + n)
          BY <1>1
        <4>2. i - m \in 1..n /\ i = m + (i - m)
          BY <1>1, <3>2, <4>1
        <4>3. PICK j \in 1..n : i = m + j
          BY <4>2
        <4>4. j \in Plain(t)
          BY <1>1, <4>3
        <4> QED BY <4>3, <4>4 DEF Shifted
      <3> QED BY <3>1, <3>2
    <2>2. ASSUME NEW i \in Plain(s) PROVE i \in Plain(u)
      BY <1>1
    <2>3. ASSUME NEW i \in Shifted(Plain(t), m) PROVE i \in Plain(u)
      <3>1. PICK j \in Plain(t) : i = m + j
        BY DEF Shifted
      <3>2. j \in 1..n /\ m + j \in 1..(m + n)
        BY <1>1
      <3> QED BY <1>1, <3>1, <3>2
    <2> QED BY <2>1, <2>2, <2>3
  <1>3. Plain(s) \in SUBSET (1..Len(s)) /\ Plain(t) \in SUBSET (1..Len(t))
    OBVIOUS
  <1>4. Where(u, Plain(s) \cup Shifted(Plain(t), m)) = Where(s, Plain(s)) \o Where(t, Plain(t))
    <2> DEFINE S == Plain(s)
               T == Plain(t)
    <2>1. S \in SUBSET (1..Len(s)) /\ T \in SUBSET (1..Len(t))
      BY <1>3
    <2> HIDE DEF S, T
    <2>2. Where(s \o t, S \cup Shifted(T, Len(s))) = Where(s, S) \o Where(t, T)
      <3> DEFINE W == S \cup Shifted(T, Len(s))
      <3>1. W = S \cup Shifted(T, Len(s)) /\ Joins(u, s, t)
        BY DEF Joins
      <3> HIDE DEF W, u
      <3>2. Joins(Where(u, W), Where(s, S), Where(t, T))
        BY <2>1, <3>1, WhereConcat
      <3> QED BY <3>1, <3>2 DEF Joins
    <2> QED BY <2>2 DEF S, T
  <1>5. Unmarked(u) = Unmarked(s) \o Unmarked(t)
    BY <1>2, <1>4 DEF Unmarked
  <1> QED BY <1>5 DEF Shown

\* What has been given up to an earlier place is the beginning of what has been given
\* up to a later one.
LEMMA ShownPrefix ==
    ASSUME NEW tool, NEW fs \in Seq(Findings), NEW m \in 0..Len(fs), NEW n \in m..Len(fs)
    PROVE  LET a == Shown(tool, SubSeq(fs, 1, m))
               b == Shown(tool, SubSeq(fs, m + 1, n))
               c == Shown(tool, SubSeq(fs, 1, n))
           IN  /\ c = a \o b
               /\ a \in Seq(Findings) /\ c \in Seq(Findings)
               /\ Len(a) \in 0..Len(c) /\ a = SubSeq(c, 1, Len(a))
  <1> DEFINE s == SubSeq(fs, 1, m)
             t == SubSeq(fs, m + 1, n)
             u == SubSeq(fs, 1, n)
             a == Shown(tool, s)
             b == Shown(tool, t)
             c == Shown(tool, u)
  <1>1. s \in Seq(Findings) /\ t \in Seq(Findings) /\ u \in Seq(Findings) /\ u = s \o t
    <2>1. m \in Nat /\ n \in Nat /\ m <= n /\ n <= Len(fs) /\ Len(fs) \in Nat
      OBVIOUS
    <2>2. s \in Seq(Findings) /\ Len(s) = m /\ \A k \in 1..m : s[k] = fs[k]
      BY <2>1, SubSeqProperties
    <2>3. t \in Seq(Findings) /\ Len(t) = n - m /\ \A k \in 1..(n - m) : t[k] = fs[m + k]
      BY <2>1, SubSeqProperties
    <2>4. u \in Seq(Findings) /\ Len(u) = n /\ \A k \in 1..n : u[k] = fs[k]
      BY <2>1, SubSeqProperties
    <2> HIDE DEF s, t, u
    <2>5. s \o t \in Seq(Findings) /\ Len(s \o t) = n
      BY <2>1, <2>2, <2>3, ConcatProperties
    <2>6. \A k \in 1..n : (s \o t)[k] = u[k]
      <3> TAKE k \in 1..n
      <3>1. CASE k <= m
        BY <2>1, <2>2, <2>3, <2>4, <3>1
      <3>2. CASE ~(k <= m)
        <4>1. k - m \in 1..(n - m) /\ k = m + (k - m)
          BY <2>1, <3>2
        <4>2. PICK j \in 1..(n - m) : k = m + j
          BY <4>1
        <4>3. (s \o t)[k] = t[j] /\ t[j] = fs[m + j]
          BY <2>1, <2>2, <2>3, <4>2
        <4> QED BY <2>4, <4>2, <4>3
      <3> QED BY <3>1, <3>2
    <2> QED BY <2>2, <2>3, <2>4, <2>5, <2>6, SeqEqual
  <1> HIDE DEF s, t, u
  <1>2. a \in Seq(Findings) /\ b \in Seq(Findings) /\ c = a \o b
    BY <1>1, ShownType, ShownConcat
  <1> HIDE DEF a, b, c
  <1>3. c \in Seq(Findings) /\ Len(c) = Len(a) + Len(b)
    BY <1>2, ConcatProperties
  <1>4. a = SubSeq(c, 1, Len(a)) /\ Len(a) \in 0..Len(c)
    <2>1. Len(a) \in Nat /\ Len(b) \in Nat /\ Len(a) <= Len(c)
      BY <1>2, <1>3
    <2> DEFINE d == SubSeq(c, 1, Len(a))
    <2>2. d \in Seq(Findings) /\ Len(d) = Len(a) /\ \A k \in 1..Len(a) : d[k] = c[k]
      BY <1>3, <2>1, SubSeqProperties
    <2>3. \A k \in 1..Len(a) : c[k] = a[k]
      BY <1>2, <2>1
    <2> HIDE DEF d
    <2>4. d = a
      BY <1>2, <2>2, <2>3, SeqEqual
    <2> QED BY <2>1, <2>4 DEF d
  <1> QED BY <1>2, <1>3, <1>4 DEF a, b, c, s, t, u

-----------------------------------------------------------------------------
(* What a call answers                                                     *)

Asks == [limit : Int, minSev : STRING, rule : RuleFilters, scope : SUBSET STRING,
         mode : STRING, path : STRING, cursor : Int]

\* What a handler finds when it is called with a cursor.
Prepared(w, cursor) ==
    /\ w.found \in Seq(Findings)
    /\ w.session.items \in Seq(Findings)
    /\ cursor \notin {NoCursor, Foreign} => cursor \in 0..Len(w.session.items)

Refuses(cursor, w, r) ==
    /\ r.answer.shape = "error"
    /\ \/ r.session = w.session /\ r.answer.code # "CURSOR_EXPIRED"
       \/ /\ r.session = [w.session EXCEPT !.state = "gone"] /\ r.answer.code = "CURSOR_EXPIRED"
          /\ cursor \notin {NoCursor, Foreign}

\* A page of the list L that starts after off.
Page(a, tool, L, off) ==
    \E end \in off..Len(L) :
        /\ a.items = Shown(tool, SubSeq(L, off + 1, end))
        /\ a.next = IF end < Len(L) THEN end ELSE NoCursor

Continues(tool, cursor, w, r) ==
    /\ cursor \notin {NoCursor, Foreign}
    /\ r.session = w.session
    /\ r.answer.shape = "flat" /\ r.answer.code = ""
    /\ ~w.cancelled => Page(r.answer, tool, w.session.items, cursor)

Opens(L, r) == r.session = [state |-> "live", items |-> L, hist |-> r.session.hist]

Begins(tool, cursor, w, L, r) ==
    /\ cursor = NoCursor
    /\ Opens(L, r)
    /\ r.answer.shape = "flat"
    /\ ~w.cancelled => Page(r.answer, tool, L, 0)

Sums(cursor, w, L, r, summary) ==
    /\ cursor = NoCursor
    /\ Opens(L, r) /\ L = w.found
    /\ r.answer.shape = "summary"
    /\ ~w.cancelled => r.answer = summary /\ r.answer.next = 0

Reply(tool, cursor, w, L, r, summary) ==
    \/ Refuses(cursor, w, r)
    \/ Continues(tool, cursor, w, r)
    \/ Begins(tool, cursor, w, L, r)
    \/ Sums(cursor, w, L, r, summary)

Stretch(a, L, off) ==
    \E end \in off..Len(L) :
        /\ a.items = SubSeq(L, off + 1, end)
        /\ a.next = IF end < Len(L) THEN end ELSE NoCursor

Cut(a, L, off) == \E size \in Nat \ {0} : \E hist : a = PageFrom(L, off, size, hist)

Flat(a) ==
    /\ a.shape = "flat" /\ a.code = ""
    /\ a = [shape |-> a.shape, code |-> a.code, items |-> a.items, next |-> a.next,
            total |-> a.total, top |-> a.top, hist |-> a.hist]

\* A flat page that starts at off shows a stretch of the list from there, and its
\* cursor is the end of it.
LEMMA PageGives ==
    ASSUME NEW L \in Seq(Findings), NEW off \in 0..Len(L), NEW a, Cut(a, L, off)
    PROVE  Flat(a) /\ Stretch(a, L, off)
  <1>0. PICK size \in Nat \ {0} : \E hist : a = PageFrom(L, off, size, hist)
    BY DEF Cut
  <1> DEFINE end == Least(off + size, Len(L))
  <1>1. end \in off..Len(L)
    BY DEF Least
  <1>2. /\ a.shape = "flat" /\ a.code = ""
        /\ a.items = SubSeq(L, off + 1, end)
        /\ a.next = IF end < Len(L) THEN end ELSE NoCursor
        /\ a = [shape |-> a.shape, code |-> a.code, items |-> a.items, next |-> a.next,
                total |-> a.total, top |-> a.top, hist |-> a.hist]
    BY <1>0 DEF PageFrom, Blank
  <1> HIDE DEF end
  <1> QED BY <1>1, <1>2 DEF Stretch, Flat

\* Outside triage, such a stretch is the page that the client sees.
LEMMA PlainPage ==
    ASSUME NEW tool, tool # "triage", NEW a, NEW L, NEW off, Stretch(a, L, off)
    PROVE  Page(a, tool, L, off)
  BY DEF Stretch, Page, Shown

\* The raw answer, before triage leaves the markers out.
Raw(cursor, w, L, r, summary) ==
    \/ Refuses(cursor, w, r)
    \/ /\ cursor \notin {NoCursor, Foreign} /\ r.session = w.session
       /\ Cut(r.answer, w.session.items, cursor)
    \/ /\ cursor = NoCursor /\ Opens(L, r)
       /\ Cut(r.answer, L, 0)
    \/ /\ cursor = NoCursor /\ Opens(L, r) /\ L = w.found
       /\ r.answer = summary

\* A refusal leaves the session alone.
LEMMA RefusedReply ==
    ASSUME NEW cursor, NEW w, NEW code, code # "CURSOR_EXPIRED"
    PROVE  Refuses(cursor, w, Refused(code, w.session))
  BY DEF Refuses, Refused, Outcome, Blank

\* L is the list that the filter gives, and the whole scan when there is no filter.
Selects(in, w, kept, L) ==
    /\ kept.ok = TRUE => kept.items = L
    /\ in.minSev = "" /\ in.rule.kind = "none" => L = w.found

\* SelectAndExecute refuses, or cuts a page from the session or from the list, or
\* answers with the summary.
LEMMA SelectAndExecuteGives ==
    ASSUME NEW in, in.limit \in Int, NEW w, NEW page \in Nat \ {0}, NEW kept, NEW summary, NEW L,
           Selects(in, w, kept, L)
    PROVE  Raw(in.cursor, w, L, SelectAndExecute(in, w, page, kept, summary), summary)
  <1> DEFINE hist == BuildHistogram(w.found)
             size == IF in.limit > 0 THEN in.limit ELSE page
             r == SelectAndExecute(in, w, page, kept, summary)
  <1>1. size \in Nat \ {0}
    <2>1. CASE in.limit > 0
      BY <2>1
    <2>2. CASE ~(in.limit > 0)
      BY <2>2
    <2> QED BY <2>1, <2>2
  <1> HIDE DEF hist, size, r
  <1> SUFFICES Raw(in.cursor, w, L, r, summary)
    BY DEF r
  <1>2. CASE in.limit > page
    BY <1>2, RefusedReply DEF SelectAndExecute, Raw, r
  <1>3. CASE ~(in.limit > page) /\ in.cursor = Foreign
    BY <1>3, RefusedReply DEF SelectAndExecute, Raw, r
  <1>4. CASE ~(in.limit > page) /\ in.cursor # Foreign /\ in.cursor # NoCursor
    <2>1. CASE w.session.state # "live"
      <3>1. r = Refused("CURSOR_EXPIRED", [w.session EXCEPT !.state = "gone"])
        BY <1>4, <2>1 DEF r, SelectAndExecute
      <3>2. Refuses(in.cursor, w, r)
        BY <1>4, <3>1 DEF Refuses, Refused, Outcome, Blank
      <3> QED BY <3>2 DEF Raw
    <2>2. CASE w.session.state = "live"
      <3>1. r = Outcome(PageFrom(w.session.items, in.cursor, page, w.session.hist), w.session)
        BY <1>4, <2>2 DEF r, SelectAndExecute
      <3>2. /\ r.answer = PageFrom(w.session.items, in.cursor, page, w.session.hist)
            /\ r.session = w.session
        BY <3>1 DEF Outcome
      <3> QED BY <1>4, <3>2 DEF Raw, Cut
    <2> QED BY <2>1, <2>2
  <1>a. NoCursor # Foreign
    BY DEF NoCursor, Foreign
  <1>5. CASE ~(in.limit > page) /\ in.cursor = NoCursor /\ w.fails
    BY <1>5, RefusedReply DEF SelectAndExecute, Raw, NoCursor, Foreign, r
  <1>6. CASE ~(in.limit > page) /\ in.cursor = NoCursor /\ ~w.fails
    <2>1. CASE in.limit > 0 \/ in.minSev # "" \/ in.rule.kind # "none"
      <3>1. CASE kept.ok = TRUE
        <4>1. r = Outcome(PageFrom(kept.items, 0, size, hist),
                          [state |-> "live", items |-> kept.items, hist |-> hist])
          BY <1>6, <1>a, <2>1, <3>1 DEF r, SelectAndExecute, hist, size
        <4>2. r.answer = PageFrom(L, 0, size, hist) /\ Opens(L, r)
          BY <3>1, <4>1 DEF Outcome, Opens, Selects
        <4> QED BY <1>1, <1>6, <4>2 DEF Raw, Cut
      <3>2. CASE ~(kept.ok = TRUE)
        BY <1>6, <2>1, <3>2, RefusedReply DEF SelectAndExecute, Raw, NoCursor, Foreign, r
      <3> QED BY <3>1, <3>2
    <2>2. CASE ~(in.limit > 0) /\ in.minSev = "" /\ in.rule.kind = "none"
      <3>1. r = Outcome(summary, [state |-> "live", items |-> w.found, hist |-> NoHistogram])
        BY <1>6, <1>a, <2>2 DEF r, SelectAndExecute
      <3>2. r.answer = summary /\ Opens(L, r) /\ L = w.found
        BY <2>2, <3>1 DEF Outcome, Opens, Selects
      <3> QED BY <1>6, <3>2 DEF Raw
    <2> QED BY <2>1, <2>2
  <1> QED BY <1>2, <1>3, <1>4, <1>5, <1>6

\* A blank minimum names no severity.
LEMMA NoMinimum ==
    ASSUME NEW s, Trim(s) = ""
    PROVE  s \notin Severities
  BY DEF Trim, Severities, SeverityRank

\* The scanner tools' filter gives the list, and the whole scan when nothing is asked.
LEMMA ScannerSelects ==
    ASSUME NEW tool, tool \notin {"triage", "report"}, NEW req, NEW in, NEW w,
           w.found \in Seq(Findings), in.minSev = Trim(req.minSev), in.rule = req.rule
    PROVE  Selects(in, w, FilterScannerFindings(w.found, req), Listed(tool, w.found, req))
  <1>1. FilterScannerFindings(w.found, req).items = Listed(tool, w.found, req)
    BY DEF Listed
  <1>2. ASSUME in.minSev = "", in.rule.kind = "none" PROVE Listed(tool, w.found, req) = w.found
    <2>1. req.minSev \notin Severities
      BY <1>2, NoMinimum
    <2>2. req.rule.kind = "none"
      BY <1>2
    <2> QED BY <2>1, <2>2, ListedAll
  <1> QED BY <1>1, <1>2 DEF Selects

\* FilterFindings gives the list of triage, and the whole scan when nothing is asked.
LEMMA FilterSelects ==
    ASSUME NEW tool, NEW req, NEW w, w.found \in Seq(Findings)
    PROVE  /\ req.minSev = "" /\ req.rule.kind = "none" => Listed(tool, w.found, req) = w.found
           /\ Selects(req, w, FilterFindings(w.found, req), Listed("triage", w.found, req))
  <1>1. FilterFindings(w.found, req).items = Listed("triage", w.found, req)
    BY DEF Listed
  <1>2. ASSUME req.minSev = "", req.rule.kind = "none", NEW u PROVE Listed(u, w.found, req) = w.found
    BY <1>2, ListedAll DEF Severities, SeverityRank
  <1> QED BY <1>1, <1>2 DEF Selects

\* The handler that the scanner tools repeat passes on what SelectAndExecute answers.
LEMMA ScannerToolGives ==
    ASSUME NEW tool, tool \notin {"triage", "report"}, NEW req \in Asks, NEW w,
           w.found \in Seq(Findings), NEW scopeParams, NEW summary
    PROVE  Raw(req.cursor, w, Listed(tool, w.found, req),
               ScannerTool(req, w, scopeParams, FilterScannerFindings(w.found, req), summary),
               summary)
  <1> DEFINE kept == FilterScannerFindings(w.found, req)
             L == Listed(tool, w.found, req)
             scoped == req.scope \cap scopeParams # {}
             implicit == scoped /\ req.limit = 0 /\ ~QualitySet(req) /\ req.cursor = NoCursor
             in == [req EXCEPT !.minSev = Trim(@), !.limit = IF implicit THEN ScannerPage ELSE @]
             r == ScannerTool(req, w, scopeParams, kept, summary)
  <1>1. /\ in.minSev = Trim(req.minSev) /\ in.rule = req.rule /\ in.cursor = req.cursor
        /\ in.limit \in Int
    <2> HIDE DEF implicit
    <2> QED BY PagesAssumption DEF Asks
  <1>2. ScannerPage \in Nat \ {0}
    BY PagesAssumption
  <1>3. \/ r = Refused("LIMIT_MINUS_ONE_REMOVED", w.session)
        \/ r = Refused("cursor_malformed", w.session)
        \/ r = SelectAndExecute(in, w, ScannerPage, kept, summary)
    BY DEF ScannerTool
  <1> HIDE DEF in, r, L
  <1>4. Raw(in.cursor, w, L, SelectAndExecute(in, w, ScannerPage, kept, summary), summary)
    <2>1. Selects(in, w, kept, L)
      BY <1>1, ScannerSelects DEF L
    <2> HIDE DEF kept
    <2> QED BY <1>1, <1>2, <2>1, SelectAndExecuteGives
  <1>5. Raw(req.cursor, w, L, r, summary)
    BY <1>1, <1>3, <1>4, RefusedReply DEF Raw
  <1> QED BY <1>5 DEF r, L

\* So does check_dependencies, with its own top list.
LEMMA DepGives ==
    ASSUME NEW req \in Asks, NEW w, w.found \in Seq(Findings)
    PROVE  Raw(req.cursor, w, Listed("dep", w.found, req), CheckDependencies(req, w),
               SummaryOf("dep", w.found))
  <1> DEFINE kept == FilterScannerFindings(w.found, req)
             L == Listed("dep", w.found, req)
             in == [req EXCEPT !.minSev = Trim(@)]
             r == CheckDependencies(req, w)
             summary == SummaryOf("dep", w.found)
  <1>1. /\ in.minSev = Trim(req.minSev) /\ in.rule = req.rule /\ in.cursor = req.cursor
        /\ in.limit \in Int
    BY DEF Asks
  <1>2. DepPage \in Nat \ {0}
    BY PagesAssumption
  <1>3. \/ r = Refused("INVALID_MODE", w.session)
        \/ r = Refused("LIMIT_MINUS_ONE_REMOVED", w.session)
        \/ r = Refused("cursor_malformed", w.session)
        \/ r = SelectAndExecute(in, w, DepPage, kept, summary)
    BY DEF CheckDependencies, DepFilter, DepSummary, SummaryOf
  <1> HIDE DEF in, r, L, summary
  <1>4. Raw(in.cursor, w, L, SelectAndExecute(in, w, DepPage, kept, summary), summary)
    <2>1. Selects(in, w, kept, L)
      BY <1>1, ScannerSelects DEF L
    <2> HIDE DEF kept
    <2> QED BY <1>1, <1>2, <2>1, SelectAndExecuteGives
  <1>5. Raw(req.cursor, w, L, r, summary)
    BY <1>1, <1>3, <1>4, RefusedReply DEF Raw
  <1> QED BY <1>5 DEF r, L, summary

\* So does generate_compliance_report, with the projected list.
LEMMA ReportGives ==
    ASSUME NEW req \in Asks, NEW w, w.found \in Seq(Findings)
    PROVE  Raw(req.cursor, w, Listed("report", w.found, req), GenerateComplianceReport(req, w),
               SummaryOf("report", w.found))
  <1> DEFINE kept == FilterFindings(w.found, req)
             L == Listed("report", w.found, req)
             hist == RecomputeSeveritySummary(w.found, L)
             size == IF req.limit > 0 THEN req.limit ELSE ReportPage
             counts == [NoHistogram EXCEPT !.bySev = CountBySeverity(w.found)]
             r == GenerateComplianceReport(req, w)
             x == ReportSelectAndExecute(req, w)
             summary == SummaryOf("report", w.found)
  <1>1. size \in Nat \ {0} /\ ReportPage \in Nat \ {0}
    BY PagesAssumption DEF Asks
  <1>2. L = Projected(w.found, kept.items) /\ summary = ReportSummary(w.found)
    BY DEF Listed, SummaryOf
  <1>3. \/ r = Refused("INVALID_MODE", w.session)
        \/ r = Refused("LIMIT_MINUS_ONE_REMOVED", w.session)
        \/ r = Refused("LIMIT_EXCEEDS_PAGE_SIZE", w.session)
        \/ r = x
    BY DEF GenerateComplianceReport
  <1>4. req.minSev = "" /\ req.rule.kind = "none" => L = w.found
    BY FilterSelects
  <1>a. NoCursor # Foreign
    BY DEF NoCursor, Foreign
  <1> HIDE DEF L, hist, size, counts, summary, r, x
  <1>5. Raw(req.cursor, w, L, x, summary)
    <2>1. CASE req.cursor = Foreign
      BY <2>1, RefusedReply DEF x, ReportSelectAndExecute, Raw
    <2>2. CASE req.cursor # Foreign /\ req.cursor # NoCursor /\ w.session.state # "live"
      <3>1. x = Refused("CURSOR_EXPIRED", [w.session EXCEPT !.state = "gone"])
        BY <2>2 DEF x, ReportSelectAndExecute
      <3>2. Refuses(req.cursor, w, x)
        BY <2>2, <3>1 DEF Refuses, Refused, Outcome, Blank
      <3> QED BY <3>2 DEF Raw
    <2>3. CASE req.cursor # Foreign /\ req.cursor # NoCursor /\ w.session.state = "live"
      <3>1. x = Outcome(PageFrom(w.session.items, req.cursor, ReportPage, w.session.hist), w.session)
        BY <2>3 DEF x, ReportSelectAndExecute, BuildFlatPage
      <3>2. /\ x.answer = PageFrom(w.session.items, req.cursor, ReportPage, w.session.hist)
            /\ x.session = w.session
        BY <3>1 DEF Outcome
      <3> QED BY <1>1, <2>3, <3>2 DEF Raw, Cut
    <2>4. CASE req.cursor = NoCursor /\ w.fails
      BY <1>a, <2>4, RefusedReply DEF x, ReportSelectAndExecute, Raw
    <2>5. CASE req.cursor = NoCursor /\ ~w.fails
                 /\ (req.limit > 0 \/ req.minSev # "" \/ req.rule.kind # "none")
      <3>1. CASE kept.ok = TRUE
        <4>1. x = Outcome(BuildFlatPage(PutSession(L, hist), 0, size), PutSession(L, hist))
          BY <1>2, <1>a, <2>5, <3>1 DEF x, ReportSelectAndExecute, hist, size
        <4>2. x.answer = PageFrom(L, 0, size, hist) /\ Opens(L, x)
          BY <4>1 DEF Outcome, Opens, BuildFlatPage, PutSession
        <4> QED BY <1>1, <2>5, <4>2 DEF Raw, Cut
      <3>2. CASE ~(kept.ok = TRUE)
        BY <1>a, <2>5, <3>2, RefusedReply DEF x, ReportSelectAndExecute, Raw
      <3> QED BY <3>1, <3>2
    <2>6. CASE req.cursor = NoCursor /\ ~w.fails
                 /\ ~(req.limit > 0 \/ req.minSev # "" \/ req.rule.kind # "none")
      <3>1. x = Outcome(ReportSummary(w.found), PutSession(w.found, counts))
        BY <1>a, <2>6 DEF x, ReportSelectAndExecute, counts
      <3>2. x.answer = summary /\ Opens(L, x) /\ L = w.found
        BY <1>2, <1>4, <2>6, <3>1 DEF Outcome, Opens, PutSession
      <3> QED BY <2>6, <3>2 DEF Raw
    <2> QED BY <2>1, <2>2, <2>3, <2>4, <2>5, <2>6
  <1>6. Raw(req.cursor, w, L, r, summary)
    BY <1>3, <1>5, RefusedReply DEF Raw
  <1> QED BY <1>6 DEF r, L, summary

\* A tool other than triage shows the list as it is.
LEMMA PlainReply ==
    ASSUME NEW tool, tool # "triage", NEW cursor, NEW w, Prepared(w, cursor),
           NEW L \in Seq(Findings), NEW summary, summary.shape = "summary", summary.next = 0,
           NEW r, Raw(cursor, w, L, r, summary)
    PROVE  Reply(tool, cursor, w, L, r, summary)
  <1>1. CASE Refuses(cursor, w, r)
    BY <1>1 DEF Reply
  <1>2. CASE /\ cursor \notin {NoCursor, Foreign} /\ r.session = w.session
             /\ Cut(r.answer, w.session.items, cursor)
    <2> DEFINE M == w.session.items
               a == r.answer
    <2>2. M \in Seq(Findings) /\ cursor \in 0..Len(M)
      BY <1>2 DEF Prepared
    <2>3. Cut(a, M, cursor)
      BY <1>2
    <2> HIDE DEF M, a
    <2>4. a.shape = "flat" /\ a.code = "" /\ Page(a, tool, M, cursor)
      BY <2>2, <2>3, PageGives, PlainPage DEF Flat
    <2> QED BY <1>2, <2>4 DEF Reply, Continues, M, a
  <1>3. CASE /\ cursor = NoCursor /\ Opens(L, r)
             /\ Cut(r.answer, L, 0)
    <2> DEFINE a == r.answer
    <2>2. 0 \in 0..Len(L) /\ Cut(a, L, 0)
      BY <1>3
    <2> HIDE DEF a
    <2>4. a.shape = "flat" /\ Page(a, tool, L, 0)
      BY <2>2, PageGives, PlainPage DEF Flat
    <2> QED BY <1>3, <2>4 DEF Reply, Begins, a
  <1>4. CASE cursor = NoCursor /\ Opens(L, r) /\ L = w.found /\ r.answer = summary
    BY <1>4 DEF Reply, Sums
  <1> QED BY <1>1, <1>2, <1>3, <1>4 DEF Raw

\* Triage takes the markers out of the page, or shows nothing when it is cancelled.
LEMMA TriageFlatGives ==
    ASSUME NEW L \in Seq(Findings), NEW off \in 0..Len(L), NEW w,
           NEW a, Cut(a, L, off)
    PROVE  /\ a.shape = "flat"
           /\ TriageFlat(a, w).shape = "flat" /\ TriageFlat(a, w).code = ""
           /\ ~w.cancelled => Page(TriageFlat(a, w), "triage", L, off)
  <1>1. PICK end \in off..Len(L) :
          /\ a.items = SubSeq(L, off + 1, end)
          /\ a.next = IF end < Len(L) THEN end ELSE NoCursor
    BY PageGives DEF Stretch
  <1>2. Flat(a)
    BY PageGives
  <1>3. CASE w.cancelled /\ a.items # <<>>
    <2>1. TriageFlat(a, w) = [Blank EXCEPT !.shape = "flat", !.hist = a.hist]
      BY <1>3 DEF TriageFlat
    <2> QED BY <1>2, <1>3, <2>1 DEF Blank, Flat
  <1>4. CASE ~(w.cancelled /\ a.items # <<>>)
    <2>1. TriageFlat(a, w) = [a EXCEPT !.items = Enriched(a.items, w)]
      BY <1>4 DEF TriageFlat
    <2>2. /\ TriageFlat(a, w).shape = a.shape /\ TriageFlat(a, w).code = a.code
          /\ TriageFlat(a, w).items = Enriched(a.items, w)
          /\ TriageFlat(a, w).next = a.next
      BY <1>2, <2>1 DEF Flat
    <2>3. ~w.cancelled => Enriched(a.items, w) = Shown("triage", SubSeq(L, off + 1, end))
      BY <1>1 DEF Enriched, Shown
    <2> QED BY <1>1, <1>2, <2>2, <2>3 DEF Page, Flat
  <1> QED BY <1>3, <1>4

\* triage_findings answers likewise, less the markers and unless it was cancelled.
LEMMA TriageGives ==
    ASSUME NEW req \in Asks, NEW w, Prepared(w, req.cursor)
    PROVE  Reply("triage", req.cursor, w, Listed("triage", w.found, req), TriageFindings(req, w),
                 SummaryOf("triage", w.found))
  <1> DEFINE cursor == req.cursor
             L == Listed("triage", w.found, req)
             kept == FilterFindings(w.found, req)
             shown == TriageSummary(w.found, w)
             x == SelectAndExecute(req, w, TriagePage, kept, shown)
             r == TriageFindings(req, w)
             summary == SummaryOf("triage", w.found)
  <1>1. req.limit \in Int /\ TriagePage \in Nat \ {0} /\ w.found \in Seq(Findings)
    BY PagesAssumption DEF Asks, Prepared
  <1>2. L \in Seq(Findings) /\ Selects(req, w, kept, L)
    BY <1>1, ListedType, FilterSelects
  <1>3. shown.shape = "summary" /\ shown.next = 0 /\ (~w.cancelled => shown = summary)
    BY DEF TriageSummary, Summarise, Blank, SummaryOf, Enriched
  <1>4. \/ r = Refused("INVALID_MODE", w.session)
        \/ r = Refused("LIMIT_MINUS_ONE_REMOVED", w.session)
        \/ r = Refused("cursor_malformed", w.session)
        \/ r = IF x.answer.shape = "flat" THEN Outcome(TriageFlat(x.answer, w), x.session) ELSE x
    BY DEF TriageFindings
  <1> HIDE DEF L, kept, shown, x, r, summary
  <1> SUFFICES Reply("triage", cursor, w, L, r, summary)
    BY DEF L, r, summary
  <1>5. Raw(cursor, w, L, x, shown)
    BY <1>1, <1>2, SelectAndExecuteGives DEF x
  <1>6. CASE r = IF x.answer.shape = "flat" THEN Outcome(TriageFlat(x.answer, w), x.session) ELSE x
    <2>1. CASE Refuses(cursor, w, x)
      <3>1. r = x
        BY <1>6, <2>1 DEF Refuses
      <3> QED BY <2>1, <3>1 DEF Reply
    <2>2. CASE /\ cursor \notin {NoCursor, Foreign} /\ x.session = w.session
               /\ Cut(x.answer, w.session.items, cursor)
      <3> DEFINE M == w.session.items
                 a == x.answer
      <3>2. M \in Seq(Findings) /\ cursor \in 0..Len(M)
        BY <2>2 DEF Prepared
      <3>3. Cut(a, M, cursor)
        BY <2>2
      <3> HIDE DEF M, a, cursor
      <3>4. /\ a.shape = "flat"
            /\ TriageFlat(a, w).shape = "flat" /\ TriageFlat(a, w).code = ""
            /\ ~w.cancelled => Page(TriageFlat(a, w), "triage", M, cursor)
        BY <3>2, <3>3, TriageFlatGives
      <3>5. r.answer = TriageFlat(a, w) /\ r.session = x.session
        BY <1>6, <3>4 DEF a, Outcome
      <3>6. Continues("triage", cursor, w, r)
        BY <2>2, <3>4, <3>5 DEF Continues, M
      <3> QED BY <3>6 DEF Reply
    <2>3. CASE /\ cursor = NoCursor /\ Opens(L, x)
               /\ Cut(x.answer, L, 0)
      <3> DEFINE a == x.answer
      <3>2. 0 \in 0..Len(L) /\ Cut(a, L, 0)
        BY <1>2, <2>3
      <3> HIDE DEF a, cursor
      <3>4. /\ a.shape = "flat"
            /\ TriageFlat(a, w).shape = "flat"
            /\ ~w.cancelled => Page(TriageFlat(a, w), "triage", L, 0)
        BY <1>2, <3>2, TriageFlatGives
      <3>5. r.answer = TriageFlat(a, w) /\ r.session = x.session
        BY <1>6, <3>4 DEF a, Outcome
      <3>6. Begins("triage", cursor, w, L, r)
        BY <2>3, <3>4, <3>5 DEF Begins, Opens
      <3> QED BY <3>6 DEF Reply
    <2>4. CASE cursor = NoCursor /\ Opens(L, x) /\ L = w.found /\ x.answer = shown
      <3>1. r = x
        BY <1>3, <1>6, <2>4
      <3>2. Sums(cursor, w, L, r, summary)
        BY <1>3, <2>4, <3>1 DEF Sums
      <3> QED BY <3>2 DEF Reply
    <2> QED BY <1>5, <2>1, <2>2, <2>3, <2>4 DEF Raw
  <1>7. \A code : (code # "CURSOR_EXPIRED" /\ r = Refused(code, w.session)) => Refuses(cursor, w, r)
    BY RefusedReply
  <1> QED BY <1>4, <1>6, <1>7 DEF Reply

\* Each of the twelve handlers answers in one of the four ways.
LEMMA HandleGives ==
    ASSUME NEW tool \in Tools, NEW req \in Asks, NEW w, Prepared(w, req.cursor)
    PROVE  Reply(tool, req.cursor, w, Listed(tool, w.found, req), Handle(tool, req, w),
                 SummaryOf(tool, w.found))
  <1> DEFINE L == Listed(tool, w.found, req)
             summary == SummaryOf(tool, w.found)
             r == Handle(tool, req, w)
  <1>1. w.found \in Seq(Findings) /\ L \in Seq(Findings)
    BY ListedType DEF Prepared
  <1>2. summary.shape = "summary" /\ summary.next = 0
    BY DEF SummaryOf, Summarise, ReportSummary, Blank
  <1>3. CASE tool = "triage"
    <2>1. r = TriageFindings(req, w)
      BY <1>3 DEF Handle
    <2> QED BY <1>3, <2>1, TriageGives
  <1>4. CASE tool # "triage"
    <2> DEFINE Answered == Raw(req.cursor, w, L, r, summary)
    <2>1. ASSUME tool = "report" PROVE Answered
      <3>1. r = GenerateComplianceReport(req, w)
        BY <2>1 DEF Handle
      <3> QED BY <1>1, <2>1, <3>1, ReportGives
    <2>2. ASSUME tool = "dep" PROVE Answered
      <3>1. r = CheckDependencies(req, w)
        BY <2>2 DEF Handle
      <3> QED BY <1>1, <2>2, <3>1, DepGives
    <2>3. ASSUME tool \in ScannerTools PROVE Answered
      <3>1. tool \notin {"triage", "report"} /\ summary = Summarise(w.found, ScannerTop, Len(w.found))
        BY <2>3 DEF ScannerTools, SummaryOf
      <3> DEFINE kept == FilterScannerFindings(w.found, req)
      <3>2. CASE tool = "pan"
        <4>1. r = ScannerTool(req, w, FileScope \cup {"taint"}, kept, summary)
          BY <3>1, <3>2 DEF Handle, ScanPan, PanFilter, PanSummary
        <4> QED BY <1>1, <3>1, <4>1, ScannerToolGives
      <3>3. CASE tool = "script" /\ req.path = ""
        <4>1. r = Refused("PATH_REQUIRED", w.session)
          BY <3>3 DEF Handle, CheckPaymentPageScripts
        <4> QED BY <4>1, RefusedReply DEF Raw
      <3>4. CASE tool = "script" /\ req.path # ""
        <4>1. r = ScannerTool(req, w, FileScope, kept, summary)
          BY <3>1, <3>4 DEF Handle, CheckPaymentPageScripts, ScriptFilter, ScriptSummary
        <4> QED BY <1>1, <3>1, <4>1, ScannerToolGives
      <3>5. CASE tool \in {"tls", "crypto", "error", "audit"}
        <4>1. r = ScannerTool(req, w, FileScope, kept, summary)
          BY <3>1, <3>5 DEF Handle, CheckTlsConfig, TlsFilter, TlsSummary, CheckEncryption,
             CryptoFilter, CryptoSummary, CheckErrorHandling, ErrorFilter, ErrorSummary,
             CheckAuditLog, AuditFilter, AuditSummary
        <4> QED BY <1>1, <3>1, <4>1, ScannerToolGives
      <3>6. CASE tool \in {"secret", "retention", "auth"}
        <4>1. r = ScannerTool(req, w, FileScope, kept, summary)
          BY <3>1, <3>6 DEF Handle, CheckSecrets, SecretFilter, SecretSummary,
             CheckDataRetention, RetentionFilter, RetentionSummary,
             CheckAuthStrength, AuthFilter, AuthSummary
        <4> QED BY <1>1, <3>1, <4>1, ScannerToolGives
      <3> QED BY <2>3, <3>2, <3>3, <3>4, <3>5, <3>6 DEF ScannerTools
    <2>4. Raw(req.cursor, w, L, r, summary)
      BY <1>4, <2>1, <2>2, <2>3 DEF Tools
    <2> HIDE DEF L, r, summary
    <2>5. Reply(tool, req.cursor, w, L, r, summary)
      BY <1>1, <1>2, <1>4, <2>4, PlainReply
    <2> QED BY <2>5 DEF L, r, summary
  <1> QED BY <1>3, <1>4

-----------------------------------------------------------------------------
(* The inductive invariant                                                 *)

\* What the invariant says of the call: a tool, a scan, a request, and the list
\* they determine.
LEMMA CallFacts ==
    ASSUME CallInv
    PROVE  /\ scanner \in Tools
           /\ project.found \in Seq(Findings) /\ List \in Seq(Findings) /\ Len(List) \in Nat
           /\ project.request \in Asks /\ project.request.cursor \in {NoCursor, Foreign}
           /\ project.wanted = Shown(scanner, List)
  <1>1. PICK found \in Scans, req \in FirstRequests, fails \in BOOLEAN :
          project = [found |-> found, fails |-> fails, request |-> req,
                     wanted |-> Shown(scanner, Listed(scanner, found, req))]
    BY DEF CallInv
  <1>2. project.found = found /\ project.request = req /\ project.wanted = Shown(scanner, List)
    BY <1>1 DEF List
  <1>3. found \in Seq(Findings) /\ req \in Requests
    BY ScansAssumption, RequestsAssumption
  <1>4. req \in Asks /\ req.cursor \in {NoCursor, Foreign}
    BY <1>3 DEF Requests, Asks, NoCursor, Foreign
  <1>5. Listed(scanner, found, req) \in Seq(Findings)
    BY <1>3, ListedType
  <1>6. List \in Seq(Findings)
    BY <1>2, <1>5 DEF List
  <1> HIDE DEF List
  <1> QED BY <1>2, <1>3, <1>4, <1>6 DEF CallInv

Whole(v) ==
    v = [answer |-> v.answer, overview |-> v.overview, session |-> v.session, given |-> v.given,
         used |-> v.used, cursor |-> v.cursor, asked |-> v.asked, cancelled |-> v.cancelled]

Kept(v, r, cancelled) ==
    /\ Whole(v)
    /\ v.answer = r.answer /\ v.session = r.session /\ v.cancelled = cancelled
    /\ r.answer.shape = "summary" => v.overview = r.answer
    /\ r.answer.shape # "summary" => v.overview = work.overview

\* A client appends a page that comes with its newest cursor, and no other.
LEMMA ReceivedGives ==
    ASSUME Whole(work), NEW req, NEW r, NEW cancelled \in BOOLEAN,
           NEW v, v = Received(req, r, cancelled)
    PROVE  /\ Kept(v, r, cancelled)
           /\ r.answer.shape = "flat" /\ ~cancelled /\ req.cursor = work.cursor =>
                /\ Joins(v.given, work.given, r.answer.items)
                /\ v.used = work.used \cup {req.cursor}
                /\ v.cursor = r.answer.next
           /\ ~(r.answer.shape = "flat" /\ ~cancelled /\ req.cursor = work.cursor) =>
                /\ v.given = work.given
                /\ v.used = work.used
                /\ r.answer.shape # "summary" => v.cursor = work.cursor
                /\ r.answer.shape = "summary" => v.cursor = r.answer.next
  <1>1. Whole(v)
    BY DEF Received, Whole
  <1>2. v.answer = r.answer /\ v.session = r.session /\ v.cancelled = cancelled
    BY DEF Received, Whole
  <1>3. v.overview = IF r.answer.shape = "summary" THEN r.answer ELSE work.overview
    BY DEF Received, Whole
  <1>4. CASE r.answer.shape = "flat" /\ ~cancelled /\ req.cursor = work.cursor
    <2>1. v.given = work.given \o r.answer.items
      BY <1>4 DEF Received, Whole
    <2>2. v.used = work.used \cup {req.cursor} /\ v.cursor = r.answer.next
      BY <1>4 DEF Received, Whole
    <2> QED BY <1>1, <1>2, <1>3, <1>4, <2>1, <2>2 DEF Kept, Joins
  <1>5. CASE ~(r.answer.shape = "flat" /\ ~cancelled /\ req.cursor = work.cursor)
    <2>1. v.given = work.given
      BY <1>5 DEF Received, Whole
    <2>2. v.used = work.used
      BY <1>5 DEF Received, Whole
    <2>3. /\ r.answer.shape # "summary" => v.cursor = work.cursor
          /\ r.answer.shape = "summary" => v.cursor = r.answer.next
      BY <1>5 DEF Received, Whole
    <2> QED BY <1>1, <1>2, <1>3, <1>5, <2>1, <2>2, <2>3 DEF Kept
  <1> QED BY <1>4, <1>5

\* A step only adds to what has been given; a session that is lost gives nothing more.
Grows ==
    /\ scanner' = scanner /\ project' = project
    /\ pc \in {"start", "open"} /\ pc' \in {"open", "done", "failed"}
    /\ pc' = "failed" => work'.given = work.given
    /\ pc = "open" /\ pc' = "failed" => work'.answer.code = "CURSOR_EXPIRED"
    /\ pc = "open" /\ pc' # "failed" => Position <= Position'

\* A step that leaves tool and scan alone leaves the list alone.
LEMMA CallKept ==
    ASSUME CallInv, scanner' = scanner, project' = project, pc' \in {"open", "done", "failed"}
    PROVE  CallInv' /\ List' = List
  BY DEF CallInv, List

\* A session is a record, whatever its histogram.
LEMMA SessionType ==
    ASSUME NEW s, NEW state \in {"none", "live", "expired", "gone"}, NEW L \in Seq(Findings),
           s = [state |-> state, items |-> L, hist |-> s.hist]
    PROVE  s \in [state : {"none", "live", "expired", "gone"}, items : Seq(Findings), hist : {s.hist}]
  OBVIOUS

\* One more page: what has been given, and what it brings.
GivenUpTo(given, tool, L, n) == given = Shown(tool, SubSeq(L, 1, n))

EndOf(a, L) == IF a.next = NoCursor THEN Len(L) ELSE a.next

\* A page from the place reached, appended to what was given, reaches the end of
\* the page.
LEMMA PageAppended ==
    ASSUME NEW tool, NEW L \in Seq(Findings), NEW off \in 0..Len(L), NEW a, Page(a, tool, L, off),
           NEW given, GivenUpTo(given, tool, L, off), NEW more, Joins(more, given, a.items)
    PROVE  /\ EndOf(a, L) \in off..Len(L) /\ a.next \in (0..Len(L)) \cup {NoCursor}
           /\ GivenUpTo(more, tool, L, EndOf(a, L))
  <1>1. PICK e \in off..Len(L) :
          /\ a.items = Shown(tool, SubSeq(L, off + 1, e))
          /\ a.next = IF e < Len(L) THEN e ELSE NoCursor
    BY DEF Page
  <1>2. Len(L) \in Nat /\ e \in 0..Len(L)
    OBVIOUS
  <1>3. EndOf(a, L) = e /\ a.next \in (0..Len(L)) \cup {NoCursor}
    BY <1>1, <1>2 DEF NoCursor, EndOf
  <1>4. Shown(tool, SubSeq(L, 1, e)) = Shown(tool, SubSeq(L, 1, off)) \o Shown(tool, SubSeq(L, off + 1, e))
    BY ShownPrefix
  <1>5. more = given \o a.items
    BY DEF Joins
  <1>6. more = Shown(tool, SubSeq(L, 1, e))
    BY <1>1, <1>4, <1>5 DEF GivenUpTo
  <1> QED BY <1>3, <1>6 DEF GivenUpTo

\* Before the first page nothing has been given.
LEMMA NothingShown ==
    ASSUME NEW tool, NEW L \in Seq(Findings)
    PROVE  Shown(tool, SubSeq(L, 1, 0)) = <<>>
  <1>1. SubSeq(L, 1, 0) = <<>>
    OBVIOUS
  <1> QED BY <1>1, ShownNone

\* The first call keeps the invariant and grows what was given, or fails.
LEMMA FirstCallStep ==
    ASSUME ToolInv, FirstCall
    PROVE  ToolInv' /\ Grows
  <1> DEFINE req == project.request
  <1>1. PICK cancelled \in Cancellations :
          LET r == Handle(scanner, req, Situation(cancelled))
          IN  Pass(scanner, "start",
                   IF r.answer.shape = "error" \/ cancelled THEN "failed"
                   ELSE IF r.answer.next = NoCursor THEN "done" ELSE "open",
                   Received(req, r, cancelled))
    BY DEF FirstCall
  <1> DEFINE w == Situation(cancelled)
             r == Handle(scanner, req, w)
             v == work'
  <1>2. /\ pc = "start" /\ scanner' = scanner /\ project' = project
        /\ v = Received(req, r, cancelled)
        /\ pc' = IF r.answer.shape = "error" \/ cancelled THEN "failed"
                 ELSE IF r.answer.next = NoCursor THEN "done" ELSE "open"
    BY <1>1 DEF Pass
  <1>3. /\ scanner \in Tools /\ project.found \in Seq(Findings) /\ List \in Seq(Findings)
        /\ Len(List) \in Nat /\ req \in Asks /\ req.cursor \in {NoCursor, Foreign}
    BY CallFacts DEF ToolInv
  <1>4. /\ work.session = NoSession /\ work.given = <<>> /\ work.used = {} /\ work.cursor = NoCursor
        /\ work.overview = Blank /\ Whole(work)
    BY <1>2 DEF ToolInv, CallInv, Start, Whole
  <1>5. cancelled \in BOOLEAN
    BY DEF Cancellations
  <1>6. /\ w.found = project.found /\ w.session = NoSession /\ w.cancelled = cancelled
        /\ Prepared(w, req.cursor)
    <2>1. w.found = project.found /\ w.session = NoSession /\ w.cancelled = cancelled
      BY <1>4 DEF Situation
    <2>2. NoSession.items \in Seq(Findings)
      BY DEF NoSession
    <2> HIDE DEF w, req
    <2> QED BY <1>3, <2>1, <2>2 DEF Prepared
  <1>7. Reply(scanner, req.cursor, w, List, r, SummaryOf(scanner, project.found))
    BY <1>3, <1>6, HandleGives DEF List
  <1> HIDE DEF w, r, req, v
  <1>8. /\ Kept(v, r, cancelled)
        /\ r.answer.shape = "flat" /\ ~cancelled /\ req.cursor = work.cursor =>
                /\ Joins(v.given, work.given, r.answer.items)
                /\ v.used = work.used \cup {req.cursor}
                /\ v.cursor = r.answer.next
        /\ ~(r.answer.shape = "flat" /\ ~cancelled /\ req.cursor = work.cursor) =>
                /\ v.given = work.given
                /\ v.used = work.used
                /\ r.answer.shape # "summary" => v.cursor = work.cursor
                /\ r.answer.shape = "summary" => v.cursor = r.answer.next
    BY <1>2, <1>4, <1>5, ReceivedGives
  <1>9. pc' \in {"open", "done", "failed"}
    BY <1>2
  <1>10. CallInv' /\ List' = List
    BY <1>2, <1>9, CallKept DEF ToolInv
  <1>11. /\ Whole(v) /\ v.answer = r.answer /\ v.session = r.session /\ v.cancelled = cancelled
         /\ r.answer.shape = "summary" => v.overview = r.answer
         /\ r.answer.shape # "summary" => v.overview = work.overview
    BY <1>8 DEF Kept
  <1>12. ASSUME SessionInv', pc' = "failed" => v.given = work.given,
                pc' # "failed" => PagesInv' /\ OverviewInv'
         PROVE  ToolInv' /\ Grows
    <2>1. PagesInv' /\ OverviewInv'
      BY <1>9, <1>12 DEF PagesInv, OverviewInv
    <2> QED BY <1>2, <1>9, <1>10, <1>12, <2>1 DEF ToolInv, Grows, v
  <1>13. CASE Refuses(req.cursor, w, r)
    <2>1. r.answer.shape = "error" /\ r.session = NoSession
      BY <1>3, <1>6, <1>13 DEF Refuses
    <2>2. pc' = "failed" /\ v.given = work.given
      BY <1>2, <1>8, <2>1
    <2>3. SessionInv'
      BY <1>11, <2>1 DEF SessionInv, Sessions, NoSession, Whole, v
    <2> QED BY <1>12, <2>2, <2>3
  <1>14. ASSUME Opens(List, r) PROVE SessionInv'
    <2>1. v.session = [state |-> "live", items |-> List, hist |-> v.session.hist]
      BY <1>11, <1>14 DEF Opens
    <2>2. v.session \in [state : {"none", "live", "expired", "gone"}, items : Seq(Findings),
                         hist : {v.session.hist}]
      BY <1>3, <2>1
    <2>3. v.session.items = List'
      BY <1>10, <2>1
    <2> QED BY <1>11, <2>2, <2>3 DEF SessionInv, Sessions, Whole, v
  <1>15. CASE Begins(scanner, req.cursor, w, List, r)
    <2>1. /\ req.cursor = NoCursor /\ Opens(List, r) /\ r.answer.shape = "flat"
          /\ ~cancelled => Page(r.answer, scanner, List, 0)
      BY <1>6, <1>15 DEF Begins
    <2>2. SessionInv'
      BY <1>14, <2>1
    <2>3. CASE cancelled
      BY <1>2, <1>8, <1>12, <2>2, <2>3
    <2>4. CASE ~cancelled
      <3>1. /\ Joins(v.given, work.given, r.answer.items) /\ v.cursor = r.answer.next
            /\ v.used = {NoCursor} /\ v.overview = Blank
        BY <1>4, <1>8, <1>11, <2>1, <2>4
      <3>2. Page(r.answer, scanner, List, 0) /\ 0 \in 0..Len(List)
        BY <1>3, <2>1, <2>4
      <3>3. work.given = Shown(scanner, SubSeq(List, 1, 0))
        BY <1>3, <1>4, NothingShown
      <3> DEFINE a == r.answer
                 given == work.given
                 more == v.given
                 end == EndOf(a, List)
      <3>4. Joins(more, given, a.items) /\ Page(a, scanner, List, 0)
            /\ GivenUpTo(given, scanner, List, 0)
        BY <3>1, <3>2, <3>3 DEF GivenUpTo
      <3>5. end = IF a.next = NoCursor THEN Len(List) ELSE a.next
        BY DEF EndOf
      <3> HIDE DEF a, given, more
      <3>6. /\ end \in 0..Len(List) /\ a.next \in (0..Len(List)) \cup {NoCursor}
            /\ more = Shown(scanner, SubSeq(List, 1, end))
        <4>1. List \in Seq(Findings) /\ 0 \in 0..Len(List)
          BY <1>3, <3>2
        <4>2. /\ end \in 0..Len(List) /\ a.next \in (0..Len(List)) \cup {NoCursor}
              /\ GivenUpTo(more, scanner, List, end)
          BY <3>4, <4>1, PageAppended
        <4> QED BY <4>2 DEF GivenUpTo
      <3> HIDE DEF end
      <3>7. pc' = IF a.next = NoCursor THEN "done" ELSE "open"
        BY <1>2, <2>1, <2>4 DEF a
      <3>8. end = Position'
        BY <1>10, <3>1, <3>5 DEF Position, a, v
      <3>9. v.session.state = "live"
        BY <1>11, <2>1 DEF Opens
      <3>10. PagesInv'
        BY <1>2, <1>10, <3>1, <3>6, <3>7, <3>8, <3>9 DEF PagesInv, a, more, v
      <3>11. OverviewInv'
        <4>1. v.overview.shape = "none"
          <5>1. Blank.shape = "none"
            BY DEF Blank
          <5> QED BY <3>1, <5>1
        <4> QED BY <4>1 DEF OverviewInv, v
      <3>12. pc' # "failed"
        BY <3>7
      <3> QED BY <1>12, <2>2, <3>10, <3>11, <3>12
    <2> QED BY <2>3, <2>4
  <1>16. CASE Sums(req.cursor, w, List, r, SummaryOf(scanner, project.found))
    <2>1. /\ req.cursor = NoCursor /\ Opens(List, r) /\ List = project.found
          /\ r.answer.shape = "summary"
          /\ ~cancelled => r.answer = SummaryOf(scanner, project.found) /\ r.answer.next = 0
      BY <1>6, <1>16 DEF Sums
    <2>2. SessionInv'
      BY <1>14, <2>1
    <2>3. CASE cancelled
      BY <1>2, <1>8, <1>12, <2>2, <2>3
    <2>4. CASE ~cancelled
      <3>1. v.given = <<>> /\ v.used = {} /\ v.cursor = 0 /\ v.overview = r.answer
        BY <1>4, <1>8, <1>11, <2>1, <2>4
      <3>2. pc' = "open"
        BY <1>2, <2>1, <2>4 DEF NoCursor
      <3>3. v.session.state = "live"
        BY <1>11, <2>1 DEF Opens
      <3>4. Position' = 0 /\ v.given = Shown(scanner, SubSeq(List, 1, 0))
        BY <1>3, <3>1, NothingShown DEF Position, NoCursor, v
      <3>5. PagesInv'
        BY <1>2, <1>3, <1>10, <3>1, <3>2, <3>3, <3>4 DEF PagesInv, NoCursor, v
      <3>6. OverviewInv'
        BY <1>2, <1>10, <2>1, <2>4, <3>1 DEF OverviewInv, v
      <3> QED BY <1>12, <2>2, <3>2, <3>5, <3>6
    <2> QED BY <2>3, <2>4
  <1>17. ~Continues(scanner, req.cursor, w, r)
    BY <1>3 DEF Continues
  <1> QED BY <1>7, <1>13, <1>15, <1>16, <1>17 DEF Reply

\* A call with a new, an old or a foreign cursor keeps the invariant and never
\* takes back a finding.
LEMMA FollowCursorStep ==
    ASSUME ToolInv, NEW req \in FollowRequests, FollowCursor(req)
    PROVE  ToolInv' /\ Grows
  <1>1. PICK off \in HeldCursors \cup {Foreign}, cancelled \in Cancellations :
          LET asked == [req EXCEPT !.cursor = off]
              r == Handle(scanner, asked, Situation(cancelled))
          IN  Pass(scanner, "open",
                   IF r.answer.code = "CURSOR_EXPIRED" THEN "failed"
                   ELSE IF Received(asked, r, cancelled).cursor = NoCursor THEN "done" ELSE "open",
                   Received(asked, r, cancelled))
    BY DEF FollowCursor
  <1> DEFINE ask == [req EXCEPT !.cursor = off]
             w == Situation(cancelled)
             r == Handle(scanner, ask, w)
             v == work'
             L == Listed(scanner, project.found, ask)
  <1>2. /\ pc = "open" /\ scanner' = scanner /\ project' = project
        /\ v = Received(ask, r, cancelled)
        /\ pc' = IF r.answer.code = "CURSOR_EXPIRED" THEN "failed"
                 ELSE IF v.cursor = NoCursor THEN "done" ELSE "open"
    BY <1>1 DEF Pass
  <1>3. /\ scanner \in Tools /\ project.found \in Seq(Findings) /\ List \in Seq(Findings)
        /\ Len(List) \in Nat
    BY CallFacts DEF ToolInv
  <1>4. /\ work.session.state # "none" /\ work.cursor # NoCursor
        /\ work.used \cup {work.cursor} \subseteq (0..Len(List)) \cup {NoCursor}
        /\ work.given = Shown(scanner, SubSeq(List, 1, work.cursor))
        /\ work.cursor \in 0..Len(List)
    BY <1>2 DEF ToolInv, PagesInv, Position
  <1>5. Whole(work) /\ work.session \in Sessions /\ work.session.items = List
    BY <1>4 DEF ToolInv, SessionInv, Whole
  <1>6. cancelled \in BOOLEAN
    BY DEF Cancellations
  <1>7. off \in 0..Len(List) \/ off = Foreign
    BY <1>4 DEF HeldCursors
  <1>8. off # NoCursor
    BY <1>7 DEF NoCursor, Foreign
  <1>9. ask \in Asks /\ ask.cursor = off
    <2>1. req \in Requests
      BY RequestsAssumption
    <2>2. off \in Int
      BY <1>3, <1>7 DEF Foreign
    <2> QED BY <2>1, <2>2 DEF Requests, Asks
  <1>10. w.found = project.found /\ w.session = work.session /\ w.cancelled = cancelled
    BY DEF Situation
  <1>11. Prepared(w, off)
    <2> HIDE DEF w
    <2> QED BY <1>3, <1>5, <1>7, <1>10 DEF Prepared
  <1>12. Reply(scanner, off, w, L, r, SummaryOf(scanner, project.found))
    <2> HIDE DEF ask
    <2> QED BY <1>3, <1>9, <1>10, <1>11, HandleGives
  <1> HIDE DEF w, r, ask, v, L
  <1>13. /\ Kept(v, r, cancelled)
         /\ r.answer.shape = "flat" /\ ~cancelled /\ ask.cursor = work.cursor =>
                /\ Joins(v.given, work.given, r.answer.items)
                /\ v.used = work.used \cup {ask.cursor}
                /\ v.cursor = r.answer.next
         /\ ~(r.answer.shape = "flat" /\ ~cancelled /\ ask.cursor = work.cursor) =>
                /\ v.given = work.given
                /\ v.used = work.used
                /\ r.answer.shape # "summary" => v.cursor = work.cursor
                /\ r.answer.shape = "summary" => v.cursor = r.answer.next
    BY <1>2, <1>5, <1>6, ReceivedGives
  <1>14. /\ Whole(v) /\ v.answer = r.answer /\ v.session = r.session
         /\ r.answer.shape # "summary" => v.overview = work.overview
    BY <1>13 DEF Kept
  <1>15. pc' \in {"open", "done", "failed"}
    BY <1>2
  <1>16. CallInv' /\ List' = List
    BY <1>2, <1>15, CallKept DEF ToolInv
  <1>17. ASSUME r.answer.shape # "summary" PROVE OverviewInv'
    BY <1>2, <1>14, <1>16, <1>17 DEF ToolInv, OverviewInv, v
  <1>18. ASSUME r.session = work.session \/ r.session = [work.session EXCEPT !.state = "gone"]
         PROVE  SessionInv' /\ v.session.state # "none"
    <2>1. work.session.hist = work.session.hist /\ v.session = r.session
      BY <1>14
    <2>2. /\ v.session \in [state : {"none", "live", "expired", "gone"}, items : Seq(Findings),
                             hist : {v.session.hist}]
          /\ v.session.items = List /\ v.session.state # "none"
      BY <1>4, <1>5, <1>18, <2>1 DEF Sessions
    <2> QED BY <1>14, <1>16, <2>2 DEF SessionInv, Sessions, Whole, v
  \* Nothing new: a refusal, a cancelled call or a page the client has already.
  <1>19. ASSUME r.answer.shape # "summary", v.given = work.given, v.used = work.used,
                v.cursor = work.cursor,
                r.session = work.session \/ r.session = [work.session EXCEPT !.state = "gone"]
         PROVE  ToolInv' /\ Grows
    <2>1. SessionInv' /\ v.session.state # "none" /\ OverviewInv'
      BY <1>17, <1>18, <1>19
    <2>2. Position' = Position /\ Position = work.cursor
      BY <1>4, <1>16, <1>19 DEF Position, v
    <2>3. pc' # "done"
      BY <1>2, <1>4, <1>19
    <2>4. PagesInv'
      BY <1>2, <1>4, <1>15, <1>16, <1>19, <2>1, <2>2, <2>3 DEF PagesInv, v
    <2>5. pc' = "failed" => v.answer.code = "CURSOR_EXPIRED"
      BY <1>2, <1>14
    <2>6. Position <= Position'
      BY <1>4, <2>2
    <2> QED BY <1>2, <1>15, <1>16, <1>19, <2>1, <2>4, <2>5, <2>6 DEF ToolInv, Grows, v
  <1>20. CASE Refuses(off, w, r)
    <2>1. /\ r.answer.shape = "error"
          /\ r.session = work.session \/ r.session = [work.session EXCEPT !.state = "gone"]
      BY <1>10, <1>20 DEF Refuses
    <2> QED BY <1>13, <1>19, <2>1
  <1>21. CASE Continues(scanner, off, w, r)
    <2>1. /\ off \in 0..Len(List) /\ r.session = work.session /\ r.answer.shape = "flat"
          /\ r.answer.code = ""
          /\ ~cancelled => Page(r.answer, scanner, List, off)
      BY <1>5, <1>7, <1>10, <1>21 DEF Continues
    <2>2. CASE cancelled \/ off # work.cursor
      BY <1>9, <1>13, <1>19, <2>1, <2>2
    <2>3. CASE ~cancelled /\ off = work.cursor
      <3>1. /\ Joins(v.given, work.given, r.answer.items) /\ v.cursor = r.answer.next
            /\ v.used = work.used \cup {off} /\ Page(r.answer, scanner, List, off)
        BY <1>9, <1>13, <2>1, <2>3
      <3>2. GivenUpTo(work.given, scanner, List, off)
        BY <1>4, <2>3 DEF GivenUpTo
      <3> DEFINE a == r.answer
                 given == work.given
                 more == v.given
                 end == EndOf(a, List)
      <3>3. /\ Joins(more, given, a.items) /\ Page(a, scanner, List, off)
            /\ GivenUpTo(given, scanner, List, off)
        BY <3>1, <3>2
      <3>4. end = IF a.next = NoCursor THEN Len(List) ELSE a.next
        BY DEF EndOf
      <3> HIDE DEF a, given, more
      <3>5. /\ end \in off..Len(List) /\ a.next \in (0..Len(List)) \cup {NoCursor}
            /\ more = Shown(scanner, SubSeq(List, 1, end))
        <4>1. /\ EndOf(a, List) \in off..Len(List) /\ a.next \in (0..Len(List)) \cup {NoCursor}
              /\ GivenUpTo(more, scanner, List, EndOf(a, List))
          <5>1. List \in Seq(Findings) /\ off \in 0..Len(List)
            BY <1>3, <2>1
          <5> QED BY <3>3, <5>1, PageAppended
        <4> QED BY <4>1 DEF GivenUpTo
      <3> HIDE DEF end
      <3>6. pc' = IF a.next = NoCursor THEN "done" ELSE "open"
        BY <1>2, <2>1, <3>1 DEF a
      <3>7. Position' = end /\ Position = off
        BY <1>4, <1>16, <2>3, <3>1, <3>4 DEF Position, a, v
      <3>8. SessionInv' /\ v.session.state # "none" /\ OverviewInv'
        BY <1>17, <1>18, <2>1
      <3>9. v.used \cup {v.cursor} \subseteq (0..Len(List)) \cup {NoCursor}
        BY <1>4, <2>1, <3>1, <3>5 DEF a
      <3>10. v.cursor = a.next
        BY <3>1 DEF a
      <3>11. PagesInv'
        BY <1>2, <1>16, <3>5, <3>6, <3>7, <3>8, <3>9, <3>10 DEF PagesInv, more, v
      <3>12. Position <= Position' /\ pc' # "failed"
        <4>1. off <= end
          <5> DEFINE n == Len(List)
          <5>1. n \in Nat /\ off \in 0..n /\ end \in off..n
            BY <1>3, <2>1, <3>5
          <5> HIDE DEF n
          <5> QED BY <5>1
        <4> QED BY <3>6, <3>7, <4>1
      <3> QED BY <1>2, <1>15, <1>16, <3>8, <3>11, <3>12 DEF ToolInv, Grows
    <2> QED BY <2>2, <2>3
  <1>22. ~Begins(scanner, off, w, L, r) /\ ~Sums(off, w, L, r, SummaryOf(scanner, project.found))
    BY <1>8 DEF Begins, Sums
  <1> QED BY <1>12, <1>20, <1>21, <1>22 DEF Reply

\* A session that ages keeps its list, and the client keeps what it has.
LEMMA AgeingStep ==
    ASSUME ToolInv, ExpireSession \/ EvictSession
    PROVE  ToolInv' /\ Grows
  <1>1. /\ pc = "open" /\ pc' = "open" /\ scanner' = scanner /\ project' = project
        /\ \E state \in {"expired", "gone"} : work' = [work EXCEPT !.session.state = state]
    BY DEF ExpireSession, EvictSession, Pass
  <1>2. PICK state \in {"expired", "gone"} : work' = [work EXCEPT !.session.state = state]
    BY <1>1
  <1>3. /\ Whole(work) /\ work.session \in Sessions /\ work.session.state # "none"
        /\ work.session.items = List
    BY <1>1 DEF ToolInv, SessionInv, PagesInv, Whole
  <1>4. /\ Whole(work') /\ work'.session = [work.session EXCEPT !.state = state]
        /\ work'.overview = work.overview /\ work'.given = work.given
        /\ work'.used = work.used /\ work'.cursor = work.cursor
    BY <1>2, <1>3 DEF Whole
  <1>5. CallInv' /\ List' = List
    BY <1>1, CallKept DEF ToolInv
  <1>6. /\ work'.session \in [state : {"none", "live", "expired", "gone"}, items : Seq(Findings),
                               hist : {work'.session.hist}]
        /\ work'.session.items = List /\ work'.session.state # "none"
    BY <1>3, <1>4 DEF Sessions
  <1>7. SessionInv'
    BY <1>4, <1>5, <1>6 DEF SessionInv, Sessions, Whole
  <1>8. Position' = Position
    BY <1>4, <1>5 DEF Position
  <1>9. PagesInv'
    BY <1>1, <1>4, <1>5, <1>6, <1>8 DEF ToolInv, PagesInv
  <1>10. OverviewInv'
    BY <1>1, <1>4, <1>5 DEF ToolInv, OverviewInv
  <1>11. Position \in Int
    <2>1. Len(List) \in Nat
      BY CallFacts DEF ToolInv
    <2> QED BY <1>1, <2>1 DEF ToolInv, PagesInv, Position
  <1>12. Position <= Position'
    BY <1>8, <1>11
  <1> QED BY <1>1, <1>4, <1>5, <1>7, <1>9, <1>10, <1>12 DEF ToolInv, Grows

\* A conversation starts in the invariant.
LEMMA ToolInit ==
    ASSUME Init
    PROVE  ToolInv /\ project.wanted \in Seq(Findings)
  <1>1. PICK t \in Tools, found \in Scans, req \in FirstRequests, fails \in BOOLEAN :
          Called(t, [found |-> found, fails |-> fails, request |-> req,
                     wanted |-> Shown(t, Listed(t, found, req))], Start)
    BY DEF Init
  <1>2. CallInv
    BY <1>1 DEF Called, CallInv
  <1>3. /\ pc = "start" /\ work = Start
    BY <1>1 DEF Called
  <1>4. SessionInv
    <2>1. work = [answer |-> work.answer, overview |-> work.overview, session |-> work.session,
                  given |-> work.given, used |-> work.used, cursor |-> work.cursor,
                  asked |-> work.asked, cancelled |-> work.cancelled]
      BY <1>3 DEF Start
    <2>2. work.session = NoSession
      BY <1>3 DEF Start
    <2> QED BY <2>1, <2>2 DEF SessionInv, Sessions, NoSession
  <1>5. PagesInv /\ OverviewInv
    BY <1>3 DEF PagesInv, OverviewInv
  <1>6. project.wanted \in Seq(Findings)
    BY <1>2, CallFacts, ShownType
  <1> QED BY <1>2, <1>4, <1>5, <1>6 DEF ToolInv

\* Every step keeps the invariant, and grows what was given or changes nothing.
LEMMA ToolStep ==
    ASSUME ToolInv, [Next]_callVars
    PROVE  ToolInv' /\ (Grows \/ UNCHANGED callVars)
  <1>1. CASE UNCHANGED callVars
    BY <1>1 DEF callVars, ToolInv, CallInv, SessionInv, Sessions, PagesInv, OverviewInv, List, Position
  <1>2. CASE FirstCall
    BY <1>2, FirstCallStep
  <1>3. CASE \E req \in FollowRequests : FollowCursor(req)
    BY <1>3, FollowCursorStep
  <1>4. CASE ExpireSession \/ EvictSession
    BY <1>4, AgeingStep
  <1>5. CASE Returned
    BY <1>1, <1>5 DEF Returned
  <1> QED BY <1>1, <1>2, <1>3, <1>4, <1>5 DEF Next

\* ToolInv: the list of a conversation is what the first request selects, the newest cursor
\* says how much of it has been given, and every cursor held is a place in it.
THEOREM ToolInvariant == Spec => []ToolInv
  <1>1. Init => ToolInv
    BY ToolInit
  <1>2. ToolInv /\ [Next]_callVars => ToolInv'
    BY ToolStep
  <1> QED BY <1>1, <1>2, PTL DEF Spec

-----------------------------------------------------------------------------
(* The refinement                                                          *)

Beginning(a, c) ==
    /\ a \in Seq(Findings) /\ c \in Seq(Findings)
    /\ Len(a) \in 0..Len(c) /\ a = SubSeq(c, 1, Len(a))

\* What was given up to an earlier place is the beginning of what is given up to a
\* later one.
LEMMA GivenPrefix ==
    ASSUME NEW tool, NEW L \in Seq(Findings), NEW m \in 0..Len(L), NEW n \in m..Len(L),
           NEW early, GivenUpTo(early, tool, L, m), NEW late, GivenUpTo(late, tool, L, n)
    PROVE  Beginning(early, late)
  BY ShownPrefix DEF GivenUpTo, Beginning

\* What has been given at an earlier place, at a later one and in the end.
LEMMA GivenInOrder ==
    ASSUME NEW tool, NEW L \in Seq(Findings), NEW m \in 0..Len(L), NEW n \in m..Len(L),
           NEW early, GivenUpTo(early, tool, L, m), NEW late, GivenUpTo(late, tool, L, n),
           NEW all, all = Shown(tool, L)
    PROVE  /\ Len(late) \in Len(early)..Len(all)
           /\ late = SubSeq(all, 1, Len(late))
           /\ n = Len(L) => Len(late) = Len(all)
  <1> DEFINE k == Len(L)
  <1>1. k \in Nat /\ n \in 0..k /\ k \in n..k /\ SubSeq(L, 1, k) = L
    OBVIOUS
  <1>2. /\ early \in Seq(Findings) /\ late \in Seq(Findings)
        /\ Len(early) \in 0..Len(late)
    BY GivenPrefix DEF Beginning
  <1>3. /\ all \in Seq(Findings) /\ Len(late) \in 0..Len(all)
        /\ late = SubSeq(all, 1, Len(late))
    <2>1. n \in 0..Len(L) /\ k \in n..Len(L) /\ GivenUpTo(all, tool, L, k)
      BY <1>1 DEF GivenUpTo
    <2> HIDE DEF k
    <2>2. Beginning(late, all)
      BY <2>1, GivenPrefix
    <2> QED BY <2>2 DEF Beginning
  <1>4. n = k => late = all
    BY <1>1 DEF GivenUpTo
  <1> QED BY <1>2, <1>3, <1>4

\* A step that grows is a step of PagedDelivery.
LEMMA GrowsDelivers ==
    ASSUME ToolInv, ToolInv', Grows
    PROVE  Delivery!Next
  <1>1. /\ scanner' = scanner /\ project' = project
        /\ pc \in {"start", "open"} /\ pc' \in {"open", "done", "failed"}
    BY DEF Grows
  <1>2. /\ List \in Seq(Findings) /\ Len(List) \in Nat /\ project.wanted = Shown(scanner, List)
        /\ List' = List /\ project'.wanted = project.wanted
    BY <1>1, CallFacts DEF ToolInv, List
  <1>3. ConversationStatus = IF pc = "start" THEN "asked" ELSE "open"
    BY <1>1 DEF ConversationStatus
  <1>4. CASE pc' = "failed"
    <2>1. work'.given = work.given
      BY <1>4 DEF Grows
    <2>2. ConversationStatus' = IF work'.cancelled \/ work'.answer.code = "CURSOR_EXPIRED"
                                THEN "lost" ELSE "refused"
      BY <1>4 DEF ConversationStatus
    <2>3. pc = "open" => work'.answer.code = "CURSOR_EXPIRED"
      BY <1>4 DEF Grows
    <2>4. CASE ConversationStatus' = "lost"
      <3>1. Delivery!Lose
        BY <1>1, <1>2, <1>3, <2>1, <2>4 DEF Delivery!Lose
      <3> QED BY <3>1 DEF Delivery!Next
    <2>5. CASE ConversationStatus' # "lost"
      <3>1. ConversationStatus' = "refused" /\ ConversationStatus = "asked"
        BY <1>1, <1>3, <2>2, <2>3, <2>5
      <3>2. Delivery!Refuse
        BY <1>2, <2>1, <3>1 DEF Delivery!Refuse
      <3> QED BY <3>2 DEF Delivery!Next
    <2> QED BY <2>4, <2>5
  <1>5. CASE pc' \in {"open", "done"}
    <2> DEFINE L == List
               early == work.given
               late == work'.given
               all == project.wanted
               m == IF pc = "start" THEN 0 ELSE Position
               n == Position'
    <2>1. m \in 0..Len(L) /\ GivenUpTo(early, scanner, L, m)
      <3>1. CASE pc = "start"
        <4>1. work.given = <<>>
          BY <3>1 DEF ToolInv, CallInv, Start
        <4>2. Shown(scanner, SubSeq(List, 1, 0)) = <<>>
          BY <1>2, NothingShown
        <4> QED BY <1>2, <3>1, <4>1, <4>2 DEF GivenUpTo
      <3>2. CASE pc = "open"
        BY <1>2, <3>2 DEF GivenUpTo, ToolInv, PagesInv, Position
      <3> QED BY <1>1, <3>1, <3>2
    <2>2. n \in 0..Len(L) /\ GivenUpTo(late, scanner, L, n) /\ (pc' = "done" => n = Len(L))
      <3>1. /\ pc' = "open" <=> work'.cursor # NoCursor
            /\ work'.cursor \in (0..Len(List')) \cup {NoCursor}
            /\ work'.given = Shown(scanner', SubSeq(List', 1, Position'))
        BY <1>5 DEF ToolInv, PagesInv
      <3>2. Position' = IF work'.cursor = NoCursor THEN Len(List') ELSE work'.cursor
        BY DEF Position
      <3> HIDE DEF n
      <3>3. n = IF work'.cursor = NoCursor THEN Len(List) ELSE work'.cursor
        BY <1>2, <3>2 DEF n
      <3>4. late = Shown(scanner, SubSeq(List, 1, n))
        BY <1>1, <1>2, <3>1 DEF n
      <3>5. pc' = "done" => work'.cursor = NoCursor
        BY <3>1
      <3> QED BY <1>2, <3>1, <3>3, <3>4, <3>5 DEF GivenUpTo
    <2>3. m <= n
      <3>1. CASE pc = "start"
        BY <1>2, <2>2, <3>1
      <3>2. CASE pc = "open"
        BY <1>5, <3>2 DEF Grows
      <3> QED BY <1>1, <3>1, <3>2
    <2>4. L \in Seq(Findings) /\ Len(L) \in Nat /\ all = Shown(scanner, L)
      BY <1>2
    <2> HIDE DEF L, early, late, all, m, n
    <2>5. n \in m..Len(L)
      BY <2>1, <2>2, <2>3, <2>4
    <2>6. /\ Len(late) \in Len(early)..Len(all)
          /\ late = SubSeq(all, 1, Len(late))
          /\ n = Len(L) => Len(late) = Len(all)
      BY <2>1, <2>2, <2>4, <2>5, GivenInOrder
    <2>7. ConversationStatus' = IF pc' = "open" THEN "open" ELSE "complete"
      BY <1>5 DEF ConversationStatus
    <2>8. Delivery!Deliver
      <3>1. ConversationStatus \in {"asked", "open"} /\ project'.wanted = project.wanted
        BY <1>2, <1>3
      <3>2. \E k \in Len(early)..Len(all) :
              /\ late = SubSeq(all, 1, k)
              /\ ConversationStatus' \in {"open", "complete"}
              /\ ConversationStatus' = "complete" => k = Len(all)
        <4>1. ConversationStatus' \in {"open", "complete"}
          BY <2>7
        <4>2. ConversationStatus' = "complete" => Len(late) = Len(all)
          BY <1>5, <2>2, <2>6, <2>7
        <4> QED BY <2>6, <4>1, <4>2
      <3> QED BY <3>1, <3>2 DEF Delivery!Deliver, early, late, all
    <2> QED BY <2>8 DEF Delivery!Next
  <1> QED BY <1>1, <1>4, <1>5

\* Every conversation with every tool is one that PagedDelivery allows, for all page sizes,
\* limits, scans and requests: the pages give the selected findings in order and each once,
\* and the last cursor is withheld only when all have been given (hybrid.SelectAndExecute,
\* reportscanner.SelectAndExecute).
THEOREM ToolImplements == Spec => ToolDelivers
  <1>1. Init => Delivery!Init
    <2> SUFFICES ASSUME Init PROVE Delivery!Init
      OBVIOUS
    <2>1. project.wanted \in Seq(Findings)
      BY ToolInit
    <2>2. pc = "start" /\ work = Start
      BY DEF Init, Called
    <2>3. work.given = <<>> /\ ConversationStatus = "asked"
      BY <2>2 DEF Start, ConversationStatus
    <2> QED BY <2>1, <2>3 DEF Delivery!Init
  <1>2. ToolInv /\ [Next]_callVars => [Delivery!Next]_(Delivery!vars)
    <2> SUFFICES ASSUME ToolInv, [Next]_callVars PROVE [Delivery!Next]_(Delivery!vars)
      OBVIOUS
    <2>1. ToolInv' /\ (Grows \/ UNCHANGED callVars)
      BY ToolStep
    <2>2. CASE Grows
      BY <2>1, <2>2, GrowsDelivers
    <2>3. CASE UNCHANGED callVars
      BY <2>3 DEF callVars, Delivery!vars, ConversationStatus
    <2> QED BY <2>1, <2>2, <2>3
  <1> QED BY <1>1, <1>2, ToolInvariant, PTL DEF Spec, ToolDelivers, Delivery!Spec

-----------------------------------------------------------------------------
(* Which findings a filter keeps                                           *)

Holds(L, f) == \E j \in DOMAIN L : L[j] = f

\* A selection holds a finding exactly if it stands at a selected index.
LEMMA SievedHolds ==
    ASSUME NEW V, NEW fs \in Seq(V), NEW S \in SUBSET (DOMAIN fs), NEW f
    PROVE  Holds(Where(fs, S), f) <=> \E i \in S : fs[i] = f
  <1>1. S \in SUBSET Int /\ IsFiniteSet(S)
    BY IndicesFinite
  <1>2. /\ \A k \in DOMAIN Where(fs, S) : \E i \in S : Where(fs, S)[k] = fs[i]
        /\ \A i \in S : \E k \in DOMAIN Where(fs, S) : Where(fs, S)[k] = fs[i]
    BY <1>1, WhereElements
  <1> QED BY <1>2 DEF Holds

\* The order of the names agrees with the order of the severities except below a minimum of
\* MEDIUM, LOW or INFO.
LEMMA NameOrderAgrees ==
    ASSUME NEW sev \in Severities, NEW minSev
    PROVE  /\ RankMeets(sev, minSev)
                /\ (minSev \in {"MEDIUM", "LOW", "INFO"} => sev \in {"CRITICAL", "HIGH"})
              => SeverityMeets(sev, minSev)
           /\ SeverityMeets(sev, minSev) /\ minSev \notin {"MEDIUM", "LOW", "INFO"}
              => RankMeets(sev, minSev)
  <1>1. Severities = {"CRITICAL", "HIGH", "MEDIUM", "LOW", "INFO"}
    BY DEF Severities, SeverityRank
  <1>2. /\ SeverityRank["CRITICAL"] = 5 /\ SeverityRank["HIGH"] = 4 /\ SeverityRank["MEDIUM"] = 3
        /\ SeverityRank["LOW"] = 2 /\ SeverityRank["INFO"] = 1
        /\ NameOrder["CRITICAL"] = 1 /\ NameOrder["HIGH"] = 2 /\ NameOrder["INFO"] = 3
        /\ NameOrder["LOW"] = 4 /\ NameOrder["MEDIUM"] = 5
    BY DEF SeverityRank, NameOrder
  <1> QED BY <1>1, <1>2 DEF RankMeets, SeverityMeets

\* What the filter that compares names keeps.
LEMMA ByNameKeeps ==
    ASSUME NEW found \in Seq(Findings), NEW req, NEW f
    PROVE  Holds(FilterScannerFindings(found, req).items, f) <=>
             \E i \in DOMAIN found : /\ found[i] = f /\ SeverityMeets(f.sev, req.minSev)
                                     /\ RuleMatches(f.rule, req.rule)
  <1> DEFINE T == {i \in DOMAIN found : /\ SeverityMeets(found[i].sev, req.minSev)
                                        /\ RuleMatches(found[i].rule, req.rule)}
  <1>1. FilterScannerFindings(found, req).items = Where(found, T) /\ T \in SUBSET (DOMAIN found)
    BY DEF FilterScannerFindings
  <1>2. (\E i \in T : found[i] = f) <=>
          \E i \in DOMAIN found : /\ found[i] = f /\ SeverityMeets(f.sev, req.minSev)
                                  /\ RuleMatches(f.rule, req.rule)
    OBVIOUS
  <1> HIDE DEF T
  <1>3. Holds(Where(found, T), f) <=> \E i \in T : found[i] = f
    BY <1>1, SievedHolds
  <1> QED BY <1>1, <1>2, <1>3

\* What the filter that compares ranks keeps.
LEMMA ByRankKeeps ==
    ASSUME NEW found \in Seq(Findings), NEW req, NEW f
    PROVE  Holds(FilterFindings(found, req).items, f) <=>
             \E i \in DOMAIN found : /\ found[i] = f /\ RankMeets(f.sev, req.minSev)
                                     /\ RuleMatches(f.rule, req.rule)
  <1> DEFINE T == {i \in DOMAIN found : /\ RankMeets(found[i].sev, req.minSev)
                                        /\ RuleMatches(found[i].rule, req.rule)}
  <1>1. FilterFindings(found, req).items = Where(found, T) /\ T \in SUBSET (DOMAIN found)
    BY DEF FilterFindings
  <1>2. (\E i \in T : found[i] = f) <=>
          \E i \in DOMAIN found : /\ found[i] = f /\ RankMeets(f.sev, req.minSev)
                                  /\ RuleMatches(f.rule, req.rule)
    OBVIOUS
  <1> HIDE DEF T
  <1>3. Holds(Where(found, T), f) <=> \E i \in T : found[i] = f
    BY <1>1, SievedHolds
  <1> QED BY <1>1, <1>2, <1>3

\* Projection brings back every finding with the rule, file and line of one that
\* was kept.
LEMMA ProjectedKeeps ==
    ASSUME NEW found \in Seq(Findings), NEW kept, NEW f
    PROVE  Holds(Projected(found, kept), f) <=>
             \E i \in DOMAIN found : found[i] = f /\ \E g : Holds(kept, g) /\ Key(g) = Key(f)
  <1> DEFINE T == {i \in DOMAIN found : \E k \in DOMAIN kept : Key(kept[k]) = Key(found[i])}
  <1>1. Projected(found, kept) = Where(found, T) /\ T \in SUBSET (DOMAIN found)
    BY DEF Projected
  <1>2. (\E i \in T : found[i] = f) <=>
          \E i \in DOMAIN found : found[i] = f /\ \E g : Holds(kept, g) /\ Key(g) = Key(f)
    BY DEF Holds
  <1> HIDE DEF T
  <1>3. Holds(Where(found, T), f) <=> \E i \in T : found[i] = f
    BY <1>1, SievedHolds
  <1> QED BY <1>1, <1>2, <1>3

\* The list of a session holds every finding that meets the request, up to the string
\* comparison of the scanner tools, and nothing that does not (filterByMinSeverity and the
\* report's projection), for all scans and requests.
THEOREM ToolFilters == Spec => []ToolFilterKeeps
  <1>1. ASSUME ToolInv PROVE ToolFilterKeeps
    <2> DEFINE found == project.found
               req == project.request
               byName == scanner \notin {"triage", "report"}
               coarse == byName /\ req.minSev \in {"MEDIUM", "LOW", "INFO"}
    <2> SUFFICES ASSUME work.session.state # "none", NEW i \in DOMAIN found
                 PROVE  LET f == found[i]
                            listed == \E j \in DOMAIN work.session.items : work.session.items[j] = f
                        IN  /\ MeetsRequest(f) /\ (coarse => f.sev \in {"CRITICAL", "HIGH"}) => listed
                            /\ listed /\ ~coarse =>
                                 \/ MeetsRequest(f)
                                 \/ scanner = "report"
                                    /\ \E k \in DOMAIN found :
                                          MeetsRequest(found[k]) /\ Key(found[k]) = Key(f)
      BY DEF ToolFilterKeeps
    <2> DEFINE f == found[i]
               listed == Holds(work.session.items, f)
    <2>1. work.session.items = List /\ found \in Seq(Findings)
      BY <1>1, CallFacts DEF ToolInv, SessionInv
    <2>2. f.sev \in Severities
      <3>1. f \in Findings
        <4> HIDE DEF found
        <4> QED BY <2>1
      <3> HIDE DEF f
      <3> QED BY <3>1 DEF Findings
    <2>3. MeetsRequest(f) <=> RankMeets(f.sev, req.minSev) /\ RuleMatches(f.rule, req.rule)
      BY DEF MeetsRequest
    <2> SUFFICES /\ MeetsRequest(f) /\ (coarse => f.sev \in {"CRITICAL", "HIGH"}) => listed
                 /\ listed /\ ~coarse =>
                      \/ MeetsRequest(f)
                      \/ scanner = "report"
                         /\ \E k \in DOMAIN found : MeetsRequest(found[k]) /\ Key(found[k]) = Key(f)
      BY DEF Holds
    <2>4. CASE byName
      <3>1. List = FilterScannerFindings(found, req).items
        BY <2>4 DEF List, Listed
      <3>2. listed <=> SeverityMeets(f.sev, req.minSev) /\ RuleMatches(f.rule, req.rule)
        BY <2>1, <3>1, ByNameKeeps
      <3>3. /\ RankMeets(f.sev, req.minSev)
                /\ (req.minSev \in {"MEDIUM", "LOW", "INFO"} => f.sev \in {"CRITICAL", "HIGH"})
              => SeverityMeets(f.sev, req.minSev)
            /\ SeverityMeets(f.sev, req.minSev) /\ req.minSev \notin {"MEDIUM", "LOW", "INFO"}
              => RankMeets(f.sev, req.minSev)
        BY <2>2, NameOrderAgrees
      <3> HIDE DEF f, listed, req, found
      <3> QED BY <2>3, <2>4, <3>2, <3>3
    <2>5. CASE scanner = "triage"
      <3>1. List = FilterFindings(found, req).items
        BY <2>5 DEF List, Listed
      <3>2. listed <=> RankMeets(f.sev, req.minSev) /\ RuleMatches(f.rule, req.rule)
        BY <2>1, <3>1, ByRankKeeps
      <3> HIDE DEF f, listed, req, found
      <3> QED BY <2>3, <2>5, <3>2
    <2>6. CASE scanner = "report"
      <3> DEFINE kept == FilterFindings(found, req).items
      <3>1. List = Projected(found, kept)
        BY <2>6 DEF List, Listed
      <3>2. listed <=> \E g : Holds(kept, g) /\ Key(g) = Key(f)
        <4> HIDE DEF kept
        <4> QED BY <2>1, <3>1, ProjectedKeeps
      <3>3. \A g : Holds(kept, g) <=>
              \E k \in DOMAIN found : /\ found[k] = g /\ RankMeets(g.sev, req.minSev)
                                      /\ RuleMatches(g.rule, req.rule)
        BY <2>1, ByRankKeeps
      <3> HIDE DEF kept
      <3>4. ASSUME MeetsRequest(f) PROVE listed
        <4>1. Holds(kept, f)
          BY <2>3, <3>3, <3>4
        <4> QED BY <3>2, <4>1
      <3>5. ASSUME listed
            PROVE  \E k \in DOMAIN found : MeetsRequest(found[k]) /\ Key(found[k]) = Key(f)
        <4>1. PICK g : Holds(kept, g) /\ Key(g) = Key(f)
          BY <3>2, <3>5
        <4>2. PICK k \in DOMAIN found : /\ found[k] = g /\ RankMeets(g.sev, req.minSev)
                                        /\ RuleMatches(g.rule, req.rule)
          BY <3>3, <4>1
        <4>3. MeetsRequest(found[k]) /\ Key(found[k]) = Key(f)
          BY <4>1, <4>2 DEF MeetsRequest
        <4> QED BY <4>3
      <3> HIDE DEF f, listed, req, found
      <3> QED BY <2>6, <3>4, <3>5
    <2> QED BY <2>4, <2>5, <2>6
  <1> QED BY <1>1, ToolInvariant, PTL

-----------------------------------------------------------------------------
(* What a summary says                                                     *)

\* The smaller of two numbers is at most either.
LEMMA LeastGives ==
    ASSUME NEW a \in Nat, NEW b \in Nat
    PROVE  Least(a, b) \in 0..b /\ Least(a, b) <= a
  BY DEF Least

\* A list of findings names finitely many rules.
LEMMA RulesFinite ==
    ASSUME NEW fs \in Seq(Findings)
    PROVE  IsFiniteSet(RulesOf(fs)) /\ RulesOf(fs) \in SUBSET Nat
  <1> DEFINE g == [i \in DOMAIN fs |-> fs[i].rule]
  <1>1. \A i \in DOMAIN fs : fs[i] \in Findings
    OBVIOUS
  <1>2. RulesOf(fs) \in SUBSET Nat
    BY <1>1 DEF RulesOf, Findings
  <1>3. g \in Surjection(DOMAIN fs, RulesOf(fs))
    BY DEF Surjection, RulesOf
  <1>4. IsFiniteSet(DOMAIN fs)
    <2>1. DOMAIN fs = 1..Len(fs) /\ Len(fs) \in Nat
      OBVIOUS
    <2> QED BY <2>1, FS_Interval
  <1> HIDE DEF g
  <1> QED BY <1>2, <1>3, <1>4, FS_Surjection

\* The findings of a rule can be counted.
LEMMA RuleCountType ==
    ASSUME NEW fs \in Seq(Findings), NEW r
    PROVE  RuleCount(fs, r) \in Nat
  <1> DEFINE S == {i \in DOMAIN fs : fs[i].rule = r}
  <1>1. S \in SUBSET (DOMAIN fs)
    OBVIOUS
  <1> HIDE DEF S
  <1>2. IsFiniteSet(S)
    BY <1>1, IndicesFinite
  <1> QED BY <1>2, FS_CardinalityType DEF RuleCount, S

\* More frequent rules first, equally frequent ones by their names, is a strict
\* total order.
LEMMA MoreFrequentOrder ==
    ASSUME NEW fs \in Seq(Findings)
    PROVE  StrictOrder(MoreFrequent(fs), RulesOf(fs))
  <1> DEFINE S == RulesOf(fs)
             c == [r \in S |-> RuleCount(fs, r)]
  <1>1. \A r \in S : r \in Nat /\ c[r] \in Nat
    BY RulesFinite, RuleCountType
  <1>2. \A x, y \in S : <<x, y>> \in MoreFrequent(fs) <=> (c[x] > c[y] \/ (c[x] = c[y] /\ x < y))
    BY DEF MoreFrequent
  <1> HIDE DEF S, c
  <1>3. \A x \in S : <<x, x>> \notin MoreFrequent(fs)
    BY <1>1, <1>2
  <1>4. \A x, y \in S : x # y => <<x, y>> \in MoreFrequent(fs) \/ <<y, x>> \in MoreFrequent(fs)
    BY <1>1, <1>2
  <1>5. \A x, y, z \in S : <<x, y>> \in MoreFrequent(fs) /\ <<y, z>> \in MoreFrequent(fs)
                            => <<x, z>> \in MoreFrequent(fs)
    BY <1>1, <1>2
  <1> QED BY <1>3, <1>4, <1>5 DEF StrictOrder, S

\* A histogram has the true counts, and says how many rules it leaves out.
LEMMA HistogramGives ==
    ASSUME NEW fs \in Seq(Findings), NEW h, h = BuildHistogram(fs)
    PROVE  /\ h.bySev = CountBySeverity(fs)
           /\ Len(h.byRule) + h.more = Cardinality(RulesOf(fs))
           /\ \A k \in DOMAIN h.byRule : h.byRule[k].count = RuleCount(fs, h.byRule[k].rule)
  <1> DEFINE S == RulesOf(fs)
             n == Cardinality(S)
             ranked == RankedRules(fs)
             named == Least(MaxByRuleEntries, Len(ranked))
             b == [k \in 1..named |-> [rule |-> ranked[k], count |-> RuleCount(fs, ranked[k])]]
  <1>1. IsFiniteSet(S) /\ n \in Nat
    BY RulesFinite, FS_CardinalityType
  <1>2. ranked \in Bijection(1..n, S)
    <2>1. StrictOrder(MoreFrequent(fs), S)
      BY MoreFrequentOrder
    <2> HIDE DEF S
    <2> QED BY <1>1, <2>1, RankedBijection DEF RankedRules, S
  <1>3. ranked \in [1..n -> S]
    <2> HIDE DEF ranked, n, S
    <2> QED BY <1>2, Fun_BijectionProperties
  <1>4. Len(ranked) = n
    <2> HIDE DEF ranked, n, S
    <2> QED BY <1>1, <1>3, FunctionIsSequence
  <1>5. MaxByRuleEntries \in Nat
    BY PagesAssumption
  <1>6. named \in 0..n
    <2> HIDE DEF ranked, n
    <2> QED BY <1>1, <1>4, <1>5, LeastGives
  <1>7. /\ h.bySev = CountBySeverity(fs) /\ h.byRule = b /\ h.more = Len(ranked) - named
    BY DEF BuildHistogram
  <1>8. \A k \in 1..named : b[k].count = RuleCount(fs, b[k].rule)
    OBVIOUS
  <1>9. Len(b) = named /\ DOMAIN b = 1..named
    <2> HIDE DEF ranked, named, n
    <2>1. named \in Nat
      BY <1>1, <1>6
    <2> QED BY <2>1
  <1> HIDE DEF ranked, named, n, b
  <1>10. Len(h.byRule) + h.more = n
    BY <1>1, <1>4, <1>6, <1>7, <1>9
  <1> QED BY <1>7, <1>8, <1>9, <1>10 DEF n

\* By rule, file and place is a strict total order, so that the sort is
\* determined.
LEMMA SoonerOrder ==
    ASSUME NEW fs \in Seq(Findings), NEW S \in SUBSET (DOMAIN fs)
    PROVE  StrictOrder(Sooner(fs, S), S)
  <1> DEFINE R == Sooner(fs, S)
             rule == [i \in S |-> fs[i].rule]
             file == [i \in S |-> fs[i].file]
  <1>1. \A i \in S : i \in Int /\ rule[i] \in Nat /\ file[i] \in Nat
    <2> TAKE i \in S
    <2>1. fs[i] \in Findings /\ i \in Int
      OBVIOUS
    <2> QED BY <2>1 DEF Findings
  <1>2. \A x, y \in S : <<x, y>> \in R <=>
          \/ rule[x] < rule[y]
          \/ rule[x] = rule[y] /\ file[x] < file[y]
          \/ rule[x] = rule[y] /\ file[x] = file[y] /\ x < y
    BY DEF Sooner
  <1> HIDE DEF R, rule, file
  <1>3. \A x \in S : <<x, x>> \notin R
    BY <1>1, <1>2
  <1>4. \A x, y \in S : x # y => <<x, y>> \in R \/ <<y, x>> \in R
    BY <1>1, <1>2
  <1>5. \A x, y, z \in S : <<x, y>> \in R /\ <<y, z>> \in R => <<x, z>> \in R
    <2> SUFFICES ASSUME NEW x \in S, NEW y \in S, NEW z \in S, <<x, y>> \in R, <<y, z>> \in R
                 PROVE  <<x, z>> \in R
      OBVIOUS
    <2>1. CASE rule[x] < rule[y]
      BY <1>1, <1>2, <2>1
    <2>2. CASE rule[x] = rule[y] /\ file[x] < file[y]
      BY <1>1, <1>2, <2>2
    <2>3. CASE rule[x] = rule[y] /\ file[x] = file[y] /\ x < y
      BY <1>1, <1>2, <2>3
    <2> QED BY <1>2, <2>1, <2>2, <2>3
  <1> QED BY <1>3, <1>4, <1>5 DEF StrictOrder, R

\* Every top finding is one of the list and of its severity ...
OfTheList(top, fs, sev) == \A k \in DOMAIN top : \E i \in DOMAIN fs : fs[i] = top[k] /\ fs[i].sev = sev

\* ... and none of an earlier rule is left out.
Foremost(top, fs, sev) ==
    \A k \in DOMAIN top : \A i \in DOMAIN fs :
        fs[i].sev = sev /\ fs[i].rule < top[k].rule => \E m \in DOMAIN top : top[m] = fs[i]

\* A top list has findings of the severity, and leaves out none of an earlier rule.
LEMMA TopGives ==
    ASSUME NEW fs \in Seq(Findings), NEW sev, NEW n \in Nat, NEW top, top = PickTopN(fs, sev, n)
    PROVE  OfTheList(top, fs, sev) /\ Foremost(top, fs, sev)
  <1> DEFINE mine == OfSeverity(fs, sev)
             c == Cardinality(mine)
             R == Sooner(fs, mine)
             sorted == Ranked(mine, R)
             last == Least(n, c)
  <1>1. mine \in SUBSET (DOMAIN fs) /\ \A i \in DOMAIN fs : i \in mine <=> fs[i].sev = sev
    BY DEF OfSeverity
  <1>2. top = [k \in 1..last |-> fs[sorted[k]]]
    BY DEF PickTopN
  <1> HIDE DEF mine
  <1>3. IsFiniteSet(mine) /\ c \in Nat
    BY <1>1, IndicesFinite, FS_CardinalityType
  <1>4. StrictOrder(R, mine)
    BY <1>1, SoonerOrder
  <1>5. /\ sorted \in Bijection(1..c, mine)
        /\ \A i, j \in 1..c : i < j => <<sorted[i], sorted[j]>> \in R
    <2> HIDE DEF R
    <2> QED BY <1>3, <1>4, RankedBijection
  <1>6. \A x, y \in mine : <<x, y>> \in R => ~(fs[y].rule < fs[x].rule)
    <2> SUFFICES ASSUME NEW x \in mine, NEW y \in mine, <<x, y>> \in R
                 PROVE  ~(fs[y].rule < fs[x].rule)
      OBVIOUS
    <2> DEFINE a == fs[x].rule
               b == fs[y].rule
    <2>1. fs[x] \in Findings /\ fs[y] \in Findings
      BY <1>1
    <2>2. a \in Nat /\ b \in Nat
      BY <2>1 DEF Findings
    <2>3. a < b \/ a = b
      BY DEF Sooner
    <2> HIDE DEF a, b
    <2>4. ~(b < a)
      BY <2>2, <2>3
    <2> QED BY <2>4 DEF a, b
  <1>7. last \in 0..c
    <2> HIDE DEF c
    <2> QED BY <1>3, LeastGives
  <1> HIDE DEF c, R, sorted, last
  <1>8. /\ \A k \in 1..c : sorted[k] \in mine
        /\ \A i \in mine : \E m \in 1..c : sorted[m] = i
    <2>1. sorted \in Bijection(1..c, mine)
      BY <1>5
    <2> DEFINE D == 1..c
    <2>2. sorted \in Bijection(D, mine)
      BY <2>1
    <2> HIDE DEF D
    <2>3. sorted \in [D -> mine]
      BY <2>2, Fun_BijectionProperties
    <2>4. \A i \in mine : \E m \in D : sorted[m] = i
      BY <2>2, Fun_BijectionProperties
    <2> QED BY <2>3, <2>4 DEF D
  <1>9. OfTheList(top, fs, sev)
    <2> SUFFICES ASSUME NEW k \in 1..last
                 PROVE  \E i \in DOMAIN fs : fs[i] = top[k] /\ fs[i].sev = sev
      BY <1>2 DEF OfTheList
    <2>1. sorted[k] \in mine /\ top[k] = fs[sorted[k]]
      BY <1>2, <1>3, <1>7, <1>8
    <2> QED BY <1>1, <2>1
  <1>10. Foremost(top, fs, sev)
    <2> SUFFICES ASSUME NEW k \in 1..last, NEW i \in DOMAIN fs, fs[i].sev = sev,
                        fs[i].rule < top[k].rule
                 PROVE  \E m \in 1..last : top[m] = fs[i]
      BY <1>2 DEF Foremost
    <2>1. k \in 1..c /\ top[k] = fs[sorted[k]]
      BY <1>2, <1>3, <1>7
    <2>2. PICK m \in 1..c : sorted[m] = i
      BY <1>1, <1>8
    <2>3. ~(k < m)
      <3>1. SUFFICES ASSUME k < m PROVE FALSE
        OBVIOUS
      <3>2. <<sorted[k], sorted[m]>> \in R
        BY <1>5, <2>1, <3>1
      <3>3. ~(fs[i].rule < fs[sorted[k]].rule)
        BY <1>6, <1>8, <2>1, <2>2, <3>2
      <3> QED BY <2>1, <3>3
    <2>4. m \in 1..last
      BY <1>3, <1>7, <2>1, <2>3
    <2>5. top[m] = fs[i]
      BY <1>2, <2>2, <2>4
    <2> QED BY <2>4, <2>5
  <1> QED BY <1>9, <1>10

\* The report's top list has findings of the severity.
LEMMA ReportTopGives ==
    ASSUME NEW fs \in Seq(Findings), NEW sev, NEW n \in Nat, NEW top, top = ReportPickTopN(fs, sev, n)
    PROVE  OfTheList(top, fs, sev)
  <1> DEFINE S == OfSeverity(fs, sev)
             mine == Where(fs, S)
             last == Least(n, Len(mine))
  <1>1. S \in SUBSET (DOMAIN fs) /\ \A i \in S : fs[i].sev = sev
    BY DEF OfSeverity
  <1>2. top = SubSeq(mine, 1, last)
    BY DEF ReportPickTopN
  <1> HIDE DEF S
  <1>3. mine \in Seq(Findings) /\ Len(mine) \in Nat
    BY <1>1, SievedType, LenProperties
  <1>4. \A k \in DOMAIN mine : \E i \in S : mine[k] = fs[i]
    BY <1>1, IndicesFinite, WhereElements
  <1> HIDE DEF mine
  <1>5. last \in 0..Len(mine)
    BY <1>3, LeastGives
  <1> HIDE DEF last
  <1>6. Len(top) = last /\ top \in Seq(Findings) /\ \A k \in 1..last : top[k] = mine[k]
    BY <1>2, <1>3, <1>5, SubSeqProperties
  <1> SUFFICES ASSUME NEW k \in DOMAIN top
               PROVE  \E i \in DOMAIN fs : fs[i] = top[k] /\ fs[i].sev = sev
    BY DEF OfTheList
  <1>7. k \in 1..last /\ k \in DOMAIN mine
    BY <1>3, <1>5, <1>6
  <1> QED BY <1>1, <1>4, <1>6, <1>7

\* Everything shown has been given at the end.
LEMMA AllGiven ==
    ASSUME ToolInv, pc = "done"
    PROVE  work.given = Shown(scanner, List)
  <1>1. /\ work.given = Shown(scanner, SubSeq(List, 1, Position)) /\ Position = Len(List)
    BY DEF ToolInv, PagesInv, Position
  <1>2. List \in Seq(Findings)
    BY CallFacts DEF ToolInv
  <1> HIDE DEF List
  <1>3. SubSeq(List, 1, Len(List)) = List
    BY <1>2
  <1> QED BY <1>1, <1>3

\* What a summary says of the list that is given.
Says(said, given, ordered) ==
    /\ said.hist.bySev = CountBySeverity(given)
    /\ said.hist.given =>
         /\ Len(said.hist.byRule) + said.hist.more = Cardinality(RulesOf(given))
         /\ \A k \in DOMAIN said.hist.byRule :
                said.hist.byRule[k].count = RuleCount(given, said.hist.byRule[k].rule)
    /\ \A s \in Severities : /\ OfTheList(said.top[s], given, s)
                             /\ ordered => Foremost(said.top[s], given, s)

\* A tool's summary is true of the list it was made from.
LEMMA SummariseSays ==
    ASSUME NEW fs \in Seq(Findings), NEW n \in Nat, NEW total, NEW said, said = Summarise(fs, n, total)
    PROVE  Says(said, fs, TRUE)
  <1>1. said.hist = BuildHistogram(fs) /\ \A s \in Severities : said.top[s] = PickTopN(fs, s, n)
    BY DEF Summarise, Blank
  <1>2. \A s \in Severities : OfTheList(said.top[s], fs, s) /\ Foremost(said.top[s], fs, s)
    BY <1>1, TopGives
  <1> DEFINE h == said.hist
  <1>3. h = BuildHistogram(fs)
    BY <1>1
  <1> HIDE DEF h
  <1>4. /\ h.bySev = CountBySeverity(fs)
        /\ Len(h.byRule) + h.more = Cardinality(RulesOf(fs))
        /\ \A k \in DOMAIN h.byRule : h.byRule[k].count = RuleCount(fs, h.byRule[k].rule)
    BY <1>3, HistogramGives
  <1> QED BY <1>2, <1>4 DEF Says, h

\* So is the report's, whose top lists keep the order of the scan.
LEMMA ReportSays ==
    ASSUME NEW fs \in Seq(Findings), NEW said, said = ReportSummary(fs)
    PROVE  Says(said, fs, FALSE)
  <1>1. /\ said.hist = [NoHistogram EXCEPT !.bySev = CountBySeverity(fs)]
        /\ \A s \in Severities :
             said.top[s] = IF s \in {"LOW", "INFO"} THEN <<>> ELSE ReportPickTopN(fs, s, ReportTop)
    BY DEF ReportSummary, Blank
  <1>2. said.hist.bySev = CountBySeverity(fs) /\ said.hist.given = FALSE
    BY <1>1 DEF NoHistogram
  <1>3. ReportTop \in Nat
    BY PagesAssumption
  <1>4. ASSUME NEW s \in Severities PROVE OfTheList(said.top[s], fs, s)
    <2>1. CASE s \in {"LOW", "INFO"}
      <3>1. said.top[s] = <<>>
        BY <1>1, <2>1
      <3> QED BY <3>1 DEF OfTheList
    <2>2. CASE s \notin {"LOW", "INFO"}
      BY <1>1, <1>3, <2>2, ReportTopGives
    <2> QED BY <2>1, <2>2
  <1> QED BY <1>2, <1>4 DEF Says

\* A summary and the pages behind its cursor speak of the same findings, for all scans,
\* requests and page sizes (buildHistogram, pickTopN and the report's summary).
THEOREM ToolSummaries == Spec => []ToolSummaryMatchesPages
  <1>1. ASSUME ToolInv PROVE ToolSummaryMatchesPages
    <2> SUFFICES ASSUME pc = "done", work.overview.shape = "summary"
                 PROVE  Says(work.overview, work.given, scanner # "report")
      BY DEF ToolSummaryMatchesPages, Says, OfTheList, Foremost
    <2> DEFINE fs == project.found
               said == work.overview
               given == work.given
    <2>1. List = fs /\ said = SummaryOf(scanner, fs) /\ fs \in Seq(Findings)
      BY <1>1, CallFacts DEF ToolInv, OverviewInv
    <2>2. given = Shown(scanner, fs) /\ given \in Seq(Findings)
      BY <1>1, <2>1, AllGiven, ShownType
    <2>3. SingleTop \in Nat /\ ScannerTop \in Nat
      BY PagesAssumption
    <2> HIDE DEF fs, said, given
    <2>4. CASE scanner = "report"
      <3>1. said = ReportSummary(fs) /\ given = fs
        BY <2>1, <2>2, <2>4 DEF SummaryOf, Shown
      <3>2. Says(said, given, FALSE)
        BY <2>1, <3>1, ReportSays
      <3> QED BY <2>4, <3>2 DEF said, given
    <2>5. CASE scanner # "report"
      <3>1. \E n \in Nat : \E total : said = Summarise(given, n, total)
        BY <2>1, <2>2, <2>3, <2>5 DEF SummaryOf, Shown
      <3>2. Says(said, given, TRUE)
        BY <2>2, <3>1, SummariseSays
      <3> QED BY <2>5, <3>2 DEF said, given
    <2> QED BY <2>4, <2>5
  <1> QED BY <1>1, ToolInvariant, PTL
=============================================================================
