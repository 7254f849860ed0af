---------------------------- MODULE Routes_proofs ----------------------------
(***************************************************************************)
(* What the scanners of handlers and routes promise on every project: the  *)
(* caches of the audit scanner, the second factors and verified webhooks   *)
(* of the authentication scanner, and which handlers the audit scanner     *)
(* takes to be covered by middleware: in every tidy project exactly those  *)
(* whose route, or the routes that a directory above installs, lie under a *)
(* group with a logger. Lists, joining and recursive functions are taken   *)
(* from Scanners_proofs.                                                   *)
(***************************************************************************)
EXTENDS Scanners_proofs

------------------------------------------------------------------------------
(* A scan without caches.                                                  *)

\* What the walker and the parser give.
AuditParsed(tree) ==
    /\ IsList(tree.dirs) /\ tree.dirs # <<>>
    /\ IsList(tree.dirs[1].files)
    /\ \A i \in DOMAIN tree.dirs[1].files : IsList(tree.dirs[1].files[i].decls)

\* The plain findings of some handlers of a file, and of every file.
PlainOf(tree, ctxs, file, hs) == [k \in DOMAIN hs |-> PlainFinding(tree, ctxs, file, hs[k])]
PlainRows(tree, ctxs) ==
    [i \in DOMAIN tree.dirs[1].files |->
        PlainOf(tree, ctxs, tree.dirs[1].files[i], PaymentHandlers(tree.dirs[1].files[i]))]

\* At least one directory is looked at.
LEMMA LastDirNat ==
    ASSUME NEW tree, AuditParsed(tree)
    PROVE  LastDir(tree) \in Nat \ {0}
  <1>1. IsList(tree.dirs) /\ tree.dirs # <<>>
    BY DEF AuditParsed
  <1> DEFINE s == tree.dirs
  <1> HIDE DEF s
  <1>2. s \in Seq(Range(s)) /\ s # <<>>
    BY <1>1, ListFacts DEF s
  <1>3. Len(s) \in Nat \ {0}
    BY <1>2
  <1>4. MaxParentWalk \in Nat
    BY AuditSourcesAssumption
  <1>5. Len(tree.dirs) \in Nat \ {0}
    BY <1>3 DEF s
  <1> QED BY <1>4, <1>5 DEF LastDir

\* The handlers of a file, and their findings, are lists.
LEMMA HandlersListed ==
    ASSUME NEW file, IsList(file.decls)
    PROVE  IsList(PaymentHandlers(file))
  <1> DEFINE tier(d) == LET t == PaymentFuncTier(d, FileHasTier1Keyword(Range(file.decls)))
                        IN  IF t # 0 THEN t ELSE IF IsPaymentContext(file, d) THEN 2 ELSE 0
             S == {k \in DOMAIN file.decls :
                     tier(file.decls[k]) # 0 /\ IsHTTPHandler(file.decls[k], DetectFramework(file))}
             admitted == Where(file.decls, S)
             hs == [k \in DOMAIN admitted |-> [decl |-> admitted[k], tier |-> tier(admitted[k])]]
  <1>1. PaymentHandlers(file) = IF file.generated THEN <<>> ELSE hs
    BY DEF PaymentHandlers
  <1>2. S \in SUBSET DOMAIN file.decls
    OBVIOUS
  <1> HIDE DEF S
  <1>3. IsList(admitted)
    BY <1>2, ListWhere
  <1> HIDE DEF admitted
  <1>4. Len(admitted) \in Nat /\ DOMAIN admitted = 1..Len(admitted)
    BY <1>3, ListFacts
  <1>5. DOMAIN hs = 1..Len(admitted) /\ hs = [k \in DOMAIN hs |-> hs[k]]
    BY <1>4
  <1> HIDE DEF hs
  <1>6. IsList(hs)
    BY <1>4, <1>5, FunctionIsList
  <1>7. IsList(<<>>)
    BY ShortLists
  <1> QED BY <1>1, <1>6, <1>7

\* The findings of a list of handlers are a list.
LEMMA PlainListed ==
    ASSUME NEW tree, NEW ctxs, NEW file, NEW hs, IsList(hs)
    PROVE  IsList(PlainOf(tree, ctxs, file, hs))
  <1> DEFINE p == PlainOf(tree, ctxs, file, hs)
  <1>1. Len(hs) \in Nat /\ DOMAIN hs = 1..Len(hs)
    BY ListFacts
  <1>2. DOMAIN p = 1..Len(hs) /\ p = [k \in DOMAIN p |-> p[k]]
    BY <1>1 DEF PlainOf
  <1> HIDE DEF p
  <1>3. IsList(p)
    BY <1>1, <1>2, FunctionIsList
  <1> QED BY <1>3 DEF p

\* A list of findings for every file, and all of them joined.
LEMMA RowsListed ==
    ASSUME NEW tree, AuditParsed(tree), NEW ctxs
    PROVE  /\ IsList(PlainRows(tree, ctxs)) /\ Len(PlainRows(tree, ctxs)) = Len(tree.dirs[1].files)
           /\ \A i \in DOMAIN PlainRows(tree, ctxs) : IsList(PlainRows(tree, ctxs)[i])
           /\ \A i \in DOMAIN tree.dirs[1].files : PlainRows(tree, ctxs)[i] =
                 PlainOf(tree, ctxs, tree.dirs[1].files[i], PaymentHandlers(tree.dirs[1].files[i]))
           /\ PlainFindings(tree, ctxs) = FlattenSeq(PlainRows(tree, ctxs))
  <1> DEFINE files == tree.dirs[1].files
             rows == PlainRows(tree, ctxs)
  <1>1. IsList(files) /\ \A i \in DOMAIN files : IsList(files[i].decls)
    BY DEF AuditParsed
  <1>2. Len(files) \in Nat /\ DOMAIN files = 1..Len(files)
    BY <1>1, ListFacts
  <1>3. /\ DOMAIN rows = DOMAIN files /\ rows = [k \in DOMAIN rows |-> rows[k]]
        /\ \A i \in DOMAIN files : rows[i] = PlainOf(tree, ctxs, files[i], PaymentHandlers(files[i]))
    BY DEF PlainRows
  <1>4. PlainFindings(tree, ctxs) = FlattenSeq(rows)
    BY DEF PlainFindings, PlainRows, PlainOf
  <1> HIDE DEF rows, files
  <1>5. \A i \in DOMAIN files : IsList(PlainOf(tree, ctxs, files[i], PaymentHandlers(files[i])))
    <2> SUFFICES ASSUME NEW i \in DOMAIN files
                 PROVE  IsList(PlainOf(tree, ctxs, files[i], PaymentHandlers(files[i])))
      OBVIOUS
    <2> DEFINE hs == PaymentHandlers(files[i])
    <2>1. IsList(hs)
      BY <1>1, HandlersListed
    <2> HIDE DEF hs
    <2>2. IsList(PlainOf(tree, ctxs, files[i], hs))
      BY <2>1, PlainListed
    <2> QED BY <2>2 DEF hs
  <1>6. IsList(rows) /\ Len(rows) = Len(files)
    BY <1>2, <1>3, FunctionIsList
  <1>7. \A i \in DOMAIN rows : IsList(rows[i])
    BY <1>3, <1>5
  <1> QED BY <1>3, <1>4, <1>6, <1>7 DEF rows, files

\* The next finding moves over from what is left.
LEMMA PlainMove ==
    ASSUME NEW tree, NEW ctxs, NEW file, NEW hs, IsList(hs), hs # <<>>, NEW fs, IsList(fs)
    PROVE  /\ IsList(Tail(hs)) /\ IsList(Append(fs, PlainFinding(tree, ctxs, file, Head(hs))))
           /\ Append(fs, PlainFinding(tree, ctxs, file, Head(hs))) \o PlainOf(tree, ctxs, file, Tail(hs))
                = fs \o PlainOf(tree, ctxs, file, hs)
  <1> DEFINE x == PlainFinding(tree, ctxs, file, Head(hs))
             p == PlainOf(tree, ctxs, file, hs)
             q == PlainOf(tree, ctxs, file, Tail(hs))
  <1>1. hs \in Seq(Range(hs)) /\ Len(hs) \in Nat /\ DOMAIN hs = 1..Len(hs)
    BY ListFacts
  <1>2. /\ Tail(hs) \in Seq(Range(hs)) /\ Len(Tail(hs)) = Len(hs) - 1 /\ Head(hs) = hs[1]
        /\ \A k \in 1..(Len(hs) - 1) : Tail(hs)[k] = hs[k + 1]
    <2> DEFINE V == Range(hs)
    <2> HIDE DEF V
    <2>1. hs \in Seq(V)
      BY <1>1 DEF V
    <2>2. /\ Tail(hs) \in Seq(V) /\ Len(Tail(hs)) = Len(hs) - 1 /\ Head(hs) = hs[1]
          /\ \A k \in 1..(Len(hs) - 1) : Tail(hs)[k] = hs[k + 1]
      BY <2>1
    <2> QED BY <2>2 DEF V
  <1>3. IsList(Tail(hs))
    BY <1>2, SequenceIsList
  <1>4. Len(hs) > 0
    BY <1>1
  <1>5. IsList(p)
    BY PlainListed
  <1>6. DOMAIN p = 1..Len(hs) /\ p[1] = x
    BY <1>1, <1>2, <1>4 DEF PlainOf
  <1>7. IsList(q)
    BY <1>3, PlainListed
  <1>8. /\ DOMAIN q = 1..(Len(hs) - 1)
        /\ \A k \in 1..(Len(hs) - 1) : q[k] = p[k + 1]
    <2>1. DOMAIN Tail(hs) = 1..(Len(hs) - 1)
      BY <1>2
    <2>2. DOMAIN q = 1..(Len(hs) - 1)
      BY <2>1 DEF PlainOf
    <2>3. ASSUME NEW k \in 1..(Len(hs) - 1) PROVE q[k] = p[k + 1]
      <3>1. k + 1 \in DOMAIN hs /\ k \in DOMAIN Tail(hs) /\ Tail(hs)[k] = hs[k + 1]
        BY <1>1, <1>2, <2>1
      <3>2. q[k] = PlainFinding(tree, ctxs, file, Tail(hs)[k]) /\ p[k + 1] = PlainFinding(tree, ctxs, file, hs[k + 1])
        BY <3>1 DEF PlainOf
      <3> QED BY <3>1, <3>2
    <2> QED BY <2>2, <2>3
  <1> HIDE DEF x, p, q
  <1> DEFINE V == Range(p) \cup Range(q) \cup Range(fs)
  <1>9. p \in Seq(V) /\ q \in Seq(V) /\ fs \in Seq(V) /\ x \in V
    <2>1. p \in Seq(Range(p)) /\ q \in Seq(Range(q)) /\ fs \in Seq(Range(fs))
      BY <1>5, <1>7, ListFacts
    <2>2. x \in Range(p)
      BY <1>4, <1>6 DEF Range
    <2> QED BY <2>1, <2>2
  <1> HIDE DEF V
  <1>10. Len(p) = Len(hs) /\ Len(q) = Len(hs) - 1
    <2>1. \A m, n \in Nat : 1..m = 1..n => m = n
      OBVIOUS
    <2>2. Len(p) \in Nat /\ DOMAIN p = 1..Len(p)
      BY <1>5, ListFacts
    <2>3. Len(q) \in Nat /\ DOMAIN q = 1..Len(q)
      BY <1>7, ListFacts
    <2>4. Len(hs) - 1 \in Nat
      BY <1>1, <1>4
    <2>5. Len(p) = Len(hs)
      BY ONLY <1>1, <1>6, <2>1, <2>2
    <2>6. Len(q) = Len(hs) - 1
      BY ONLY <1>8, <2>1, <2>3, <2>4
    <2> QED BY <2>5, <2>6
  <1>11. Append(fs, x) \in Seq(V)
    BY <1>9
  <1>12. IsList(Append(fs, x))
    BY <1>11, SequenceIsList
  <1>13. Append(fs, x) \o q = fs \o p
    <2> DEFINE a == Append(fs, x) \o q
               b == fs \o p
    <2>1. a \in Seq(V) /\ b \in Seq(V) /\ Len(a) = Len(fs) + 1 + Len(q) /\ Len(b) = Len(fs) + Len(p)
          /\ Len(fs) \in Nat /\ Len(q) \in Nat
      BY <1>9, <1>11
    <2>2. Len(a) = Len(b)
      BY <1>1, <1>10, <2>1
    <2>3. ASSUME NEW k \in 1..Len(a) PROVE a[k] = b[k]
      <3>1. CASE k <= Len(fs)
        BY <1>9, <1>11, <2>1, <3>1
      <3>2. CASE k = Len(fs) + 1
        <4>1. a[k] = x
          BY <1>9, <1>11, <2>1, <3>2
        <4>2. b[k] = p[1]
          BY <1>1, <1>4, <1>9, <1>10, <2>1, <3>2
        <4> QED BY <1>6, <4>1, <4>2
      <3>3. CASE k > Len(fs) + 1
        <4> DEFINE j == k - Len(fs) - 1
        <4>1. j \in 1..Len(q) /\ j + 1 \in 1..Len(p) /\ k = Len(fs) + 1 + j
          BY <1>1, <1>10, <2>1, <3>3
        <4>2. a[k] = q[j]
          BY <1>9, <1>11, <2>1, <4>1
        <4>3. b[k] = p[j + 1]
          BY <1>9, <2>1, <4>1
        <4>4. q[j] = p[j + 1]
          BY <1>8, <1>10, <4>1
        <4> QED BY <4>2, <4>3, <4>4
      <3>4. k \in Int /\ Len(fs) \in Nat
        BY <2>1
      <3>5. k <= Len(fs) \/ k = Len(fs) + 1 \/ k > Len(fs) + 1
        BY ONLY <3>4
      <3> QED BY <3>1, <3>2, <3>3, <3>5
    <2> HIDE DEF a, b
    <2>4. a = b
      BY <2>1, <2>2, <2>3
    <2> QED BY <2>4 DEF a, b
  <1> QED BY <1>3, <1>12, <1>13 DEF x, p, q

------------------------------------------------------------------------------
(* What the plain finding of a handler is.                                 *)

\* A handler that logs.
LEMMA PlainLogs ==
    ASSUME NEW tree, NEW ctxs, NEW file, NEW h, LogsItself(h, file)
    PROVE  PlainFinding(tree, ctxs, file, h) = AuditFinding(h, "AUDIT-LOG-OK", "INFO", FALSE)
  BY DEF PlainFinding

\* A handler that nothing covers.
LEMMA PlainUnlogged ==
    ASSUME NEW tree, NEW ctxs, NEW file, NEW h, ~LogsItself(h, file), ~HasLoggingMiddleware(file),
           \A d \in 1..LastDir(tree) : ~CoveredAt(ctxs[d], d, h.decl.name)
    PROVE  PlainFinding(tree, ctxs, file, h) = Unlogged(h, file)
  BY DEF PlainFinding

\* Middleware covers the handler.
PlainCovered(tree, ctxs, file, h) ==
    HasLoggingMiddleware(file) \/ \E d \in 1..LastDir(tree) : CoveredAt(ctxs[d], d, h.decl.name)

\* Its finding, by the middleware.
ScoredPlain(tree, h, src) ==
    AuditFinding(h, "AUDIT-LOG-OK",
        FieldSeverity(tree, src, IF src = NoSource THEN {} ELSE ExtractLogFields(tree, src)), TRUE)

\* A handler that middleware covers.
LEMMA PlainScored ==
    ASSUME NEW tree, NEW ctxs, NEW file, NEW h, ~LogsItself(h, file), PlainCovered(tree, ctxs, file, h),
           NEW src, src = PlainSource(tree, ctxs, file, h)
    PROVE  PlainFinding(tree, ctxs, file, h) = ScoredPlain(tree, h, src)
  <1> DEFINE covers == {d \in 1..LastDir(tree) : CoveredAt(ctxs[d], d, h.decl.name)}
  <1>1. HasLoggingMiddleware(file) \/ covers # {}
    BY DEF PlainCovered
  <1> QED BY <1>1 DEF PlainFinding, ScoredPlain

\* Nothing further up.
LEMMA PlainSourceNone ==
    ASSUME NEW tree, NEW ctxs, NEW file, NEW h, SourceInFile(file) = NoSource,
           \A d \in 1..LastDir(tree) : SourceAt(tree, ctxs[d], d, h.decl.name) = NoSource
    PROVE  PlainSource(tree, ctxs, file, h) = NoSource
  BY DEF PlainSource

\* The nearest directory counts.
LEMMA PlainSourceAt ==
    ASSUME NEW tree, NEW ctxs, NEW file, NEW h, SourceInFile(file) = NoSource, LastDir(tree) \in Nat,
           NEW d \in 1..LastDir(tree), SourceAt(tree, ctxs[d], d, h.decl.name) # NoSource,
           \A e \in 1..(d - 1) : SourceAt(tree, ctxs[e], e, h.decl.name) = NoSource
    PROVE  PlainSource(tree, ctxs, file, h) = SourceAt(tree, ctxs[d], d, h.decl.name)
  <1> DEFINE S == {e \in 1..LastDir(tree) : SourceAt(tree, ctxs[e], e, h.decl.name) # NoSource}
  <1>1. d \in S /\ \A e \in S : e \in Int /\ ~(e \in 1..(d - 1)) /\ e >= 1
    OBVIOUS
  <1>2. \A e \in S : d <= e
    BY <1>1
  <1>3. PlainSource(tree, ctxs, file, h) =
          IF S = {} THEN NoSource ELSE SourceAt(tree, ctxs[Min(S)], Min(S), h.decl.name)
    BY DEF PlainSource
  <1> HIDE DEF S
  <1>4. Min(S) = d
    <2>1. \A x \in S : (\A y \in S : x <= y) => x = d
      BY <1>1, <1>2
    <2> QED BY <1>1, <1>2, <2>1 DEF Min
  <1> QED BY <1>1, <1>3, <1>4

------------------------------------------------------------------------------
(* One scan that nobody disturbs.                                          *)

AuditCallFields == {"pc", "file", "src", "todo", "dir", "source", "held", "findings", "from", "alone"}
CallInFile == {"handler", "cover", "source", "score"}
Working == CallInFile \cup {"file"}

\* The contexts that can be built for directory d.
CtxsOf(tree, d) == {BuildPackageMiddlewareCtx(tree, tree.dirs[d], o) : o \in MethodOrders(tree.dirs[d])}

\* The caches hold what would be worked out now.
ContextsFresh(tree, cache) ==
    \A d \in DOMAIN cache : d \in 1..LastDir(tree) /\ cache[d] \in CtxsOf(tree, d)
FieldsFresh(tree, cache) ==
    \A key \in DOMAIN cache : \A src \in SourcesOf(tree) :
        src.fn = key /\ key # "" => cache[key] = ExtractLogFields(tree, src)

\* Where the call is.
CallPlace(tree, call) ==
    /\ DOMAIN call = AuditCallFields /\ call.pc \in Working /\ IsList(call.findings)
    /\ call.pc = "file" => call.file \in 1..(Len(tree.dirs[1].files) + 1)
    /\ call.pc \in CallInFile =>
          /\ call.file \in DOMAIN tree.dirs[1].files /\ call.src = tree.dirs[1].files[call.file]
          /\ IsList(call.todo)
    /\ call.pc \in {"cover", "source", "score"} => call.todo # <<>> /\ ~LogsItself(Head(call.todo), call.src)
    /\ call.pc = "cover" => ~HasLoggingMiddleware(call.src)
    /\ call.pc = "source" => SourceInFile(call.src) = NoSource
    /\ call.pc \in {"cover", "source"} => call.dir \in 1..LastDir(tree)
    /\ call.pc = "score" => call.source \in SourcesOf(tree) /\ call.source.fn # ""

\* What it has built and not stored is new.
CallHolds(tree, cache, call) ==
    /\ call.pc \in {"file", "handler"} => call.held = {}
    /\ call.pc \in {"cover", "source"} =>
          call.held \subseteq CtxsOf(tree, call.dir) /\ (call.held # {} => call.dir \notin DOMAIN cache)
    /\ call.pc = "score" => call.held \subseteq {ExtractLogFields(tree, call.source)}

\* What it has reported is what a scan without caches reports, and what it
\* knows of the handler in hand is so.
CallPlain(tree, ctxs, call) ==
    /\ call.pc = "file" => call.findings = JoinedTo(PlainRows(tree, ctxs), call.file - 1)
    /\ call.pc \in CallInFile =>
          call.findings \o PlainOf(tree, ctxs, call.src, call.todo) = JoinedTo(PlainRows(tree, ctxs), call.file)
CallKnows(tree, ctxs, call) ==
    /\ call.pc = "cover" => \A d \in 1..(call.dir - 1) : ~CoveredAt(ctxs[d], d, Head(call.todo).decl.name)
    /\ call.pc \in {"source", "score"} => PlainCovered(tree, ctxs, call.src, Head(call.todo))
    /\ call.pc = "source" =>
          \A d \in 1..(call.dir - 1) : SourceAt(tree, ctxs[d], d, Head(call.todo).decl.name) = NoSource
    /\ call.pc = "score" => /\ call.source # NoSource
                            /\ call.source = PlainSource(tree, ctxs, call.src, Head(call.todo))

\* Contexts that agree with the cache.  What a call has concluded holds of all
\* of them: it has looked at cached ones only.
Agrees(ctxs, cache) == \A d \in DOMAIN cache : ctxs[d] = cache[d]

\* A scan with the caches to itself.
OwnScan(tree, pkgs, fields, call) ==
    /\ ContextsFresh(tree, pkgs) /\ FieldsFresh(tree, fields)
    /\ CallPlace(tree, call) /\ CallHolds(tree, pkgs, call)
    /\ \A ctxs : Agrees(ctxs, pkgs) => CallPlain(tree, ctxs, call) /\ CallKnows(tree, ctxs, call)

\* It has ended like a scan without caches.
EndedPlain(tree, call) == \E ctxs \in Contexts(tree) : call.findings = PlainFindings(tree, ctxs)

\* A source has a name.
LEMMA SourceNamed ==
    ASSUME NEW file, SourceInFile(file) # NoSource
    PROVE  SourceInFile(file).fn # ""
  <1> DEFINE found == {i \in file.imports \cap MiddlewareImports : FindAggregatorFuncFromImport(file, i) # ""}
             i == CHOOSE j \in found : TRUE
  <1>1. found # {} /\ SourceInFile(file) = [imp |-> i, fn |-> FindAggregatorFuncFromImport(file, i)]
    BY DEF SourceInFile
  <1>2. i \in found
    BY <1>1
  <1> HIDE DEF i
  <1>3. FindAggregatorFuncFromImport(file, i) # ""
    BY <1>2
  <1> DEFINE fn == FindAggregatorFuncFromImport(file, i)
             r == [imp |-> i, fn |-> fn]
  <1>4. SourceInFile(file) = r /\ fn # ""
    BY <1>1, <1>3
  <1> HIDE DEF fn
  <1>5. r.fn = fn
    OBVIOUS
  <1> HIDE DEF r
  <1> QED BY ONLY <1>4, <1>5

\* So has one that a directory gives.
LEMMA SourceAtNamed ==
    ASSUME NEW tree, NEW ctx, NEW d, NEW name, LastDir(tree) \in Nat, d \in 1..LastDir(tree),
           SourceAt(tree, ctx, d, name) # NoSource
    PROVE  SourceAt(tree, ctx, d, name) \in SourcesOf(tree) /\ SourceAt(tree, ctx, d, name).fn # ""
  <1> DEFINE src == SourceAt(tree, ctx, d, name)
  <1>1. CASE d > 1
    <2>1. src = FindMiddlewareImportInDir(tree.dirs[d]) /\ src # NoSource
      BY <1>1 DEF SourceAt
    <2>2. d \in 2..LastDir(tree)
      BY <1>1
    <2>3. src \in SourcesOf(tree)
      BY <2>1, <2>2 DEF SourcesOf
    <2>4. PICK f : src = SourceInFile(f)
      BY <2>1 DEF FindMiddlewareImportInDir
    <2> HIDE DEF src
    <2>5. SourceInFile(f) # NoSource
      BY <2>1, <2>4
    <2>6. SourceInFile(f).fn # ""
      BY <2>5, SourceNamed
    <2>7. src.fn # ""
      BY <2>4, <2>6
    <2> QED BY <2>3, <2>7 DEF src
  <1>2. CASE ~(d > 1)
    <2> DEFINE fn == FindAggregatorFuncInPackage(tree.dirs[1])
    <2>1. src = [imp |-> "self", fn |-> fn] /\ fn # ""
      BY <1>2 DEF SourceAt
    <2>2. src.fn # ""
      <3> DEFINE r == [imp |-> "self", fn |-> fn]
      <3> HIDE DEF fn
      <3>1. r.fn = fn
        OBVIOUS
      <3> HIDE DEF r
      <3>2. src = r
        BY <2>1 DEF r
      <3> HIDE DEF src
      <3> QED BY <2>1, <3>1, <3>2
    <2> HIDE DEF fn
    <2>3. src \in SourcesOf(tree)
      BY <2>1 DEF SourcesOf, fn
    <2> QED BY <2>2, <2>3
  <1> QED BY <1>1, <1>2

\* So has one that the handler's file imports.
LEMMA FileSourceNamed ==
    ASSUME NEW tree, NEW i \in DOMAIN tree.dirs[1].files, SourceInFile(tree.dirs[1].files[i]) # NoSource
    PROVE  /\ SourceInFile(tree.dirs[1].files[i]) \in SourcesOf(tree)
           /\ SourceInFile(tree.dirs[1].files[i]).fn # ""
  <1> DEFINE f == tree.dirs[1].files[i]
  <1>1. f \in Range(tree.dirs[1].files)
    BY DEF Range
  <1>2. SourceInFile(f) \in SourcesOf(tree)
    BY <1>1 DEF SourcesOf
  <1>3. SourceInFile(f) # NoSource
    OBVIOUS
  <1> HIDE DEF f
  <1>4. SourceInFile(f).fn # ""
    BY <1>3, SourceNamed
  <1> QED BY <1>2, <1>4 DEF f

\* Some contexts agree with a fresh cache.
LEMMA AgreeingExist ==
    ASSUME NEW tree, NEW cache, ContextsFresh(tree, cache)
    PROVE  \E ctxs \in Contexts(tree) : Agrees(ctxs, cache)
  <1> DEFINE ctxs == [d \in 1..LastDir(tree) |->
                        IF d \in DOMAIN cache THEN cache[d] ELSE CHOOSE x \in CtxsOf(tree, d) : TRUE]
  <1>1. \A d : CtxsOf(tree, d) # {}
    <2> SUFFICES ASSUME NEW d PROVE CtxsOf(tree, d) # {}
      OBVIOUS
    <2> DEFINE n == Len(InstallRoutesMethods(tree.dirs[d]))
               o == [i \in 1..n |-> i]
    <2>1. o \in MethodOrders(tree.dirs[d])
      BY DEF MethodOrders
    <2> HIDE DEF o
    <2> QED BY <2>1 DEF CtxsOf
  <1>2. \A d \in 1..LastDir(tree) : ctxs[d] \in CtxsOf(tree, d)
    BY <1>1 DEF ContextsFresh
  <1>3. DOMAIN ctxs = 1..LastDir(tree) /\ ctxs = [d \in DOMAIN ctxs |-> ctxs[d]]
    OBVIOUS
  <1>4. Agrees(ctxs, cache)
    BY DEF Agrees, ContextsFresh
  <1> HIDE DEF ctxs
  <1> DEFINE all == UNION {CtxsOf(tree, d) : d \in 1..LastDir(tree)}
  <1>5. \A d \in 1..LastDir(tree) : ctxs[d] \in all
    BY <1>2
  <1>6. Contexts(tree) = {c \in [1..LastDir(tree) -> all] : \A d \in DOMAIN c : c[d] \in CtxsOf(tree, d)}
    BY DEF Contexts, CtxsOf
  <1> HIDE DEF all
  <1>7. ctxs \in [1..LastDir(tree) -> all]
    BY <1>3, <1>5
  <1>8. ctxs \in Contexts(tree)
    BY <1>2, <1>3, <1>6, <1>7
  <1> QED BY <1>4, <1>8

------------------------------------------------------------------------------
(* Its steps.                                                              *)

\* A call that stays in its file.
SameFile(call, new) ==
    /\ DOMAIN new = AuditCallFields /\ call.pc \in CallInFile /\ new.pc \in CallInFile
    /\ new.file = call.file /\ new.src = call.src /\ new.todo = call.todo /\ new.findings = call.findings

\* It has reported no more and no less.
LEMMA SameFilePlain ==
    ASSUME NEW tree, NEW ctxs, NEW call, NEW new, SameFile(call, new), CallPlain(tree, ctxs, call)
    PROVE  CallPlain(tree, ctxs, new)
  <1>1. new.pc # "file"
    BY DEF SameFile, CallInFile
  <1> QED BY <1>1 DEF SameFile, CallPlain

\* A finding is reported.
LEMMA OwnReport ==
    ASSUME NEW tree, AuditParsed(tree), NEW pkgs, NEW fields, NEW call, NEW f,
           ContextsFresh(tree, pkgs), FieldsFresh(tree, fields),
           CallPlace(tree, call), call.pc \in CallInFile, call.todo # <<>>, call.held = {},
           \A ctxs : Agrees(ctxs, pkgs) =>
              CallPlain(tree, ctxs, call) /\ f = PlainFinding(tree, ctxs, call.src, Head(call.todo))
    PROVE  OwnScan(tree, pkgs, fields, Report(call, f))
  <1> DEFINE new == Report(call, f)
             files == tree.dirs[1].files
  <1>1. /\ DOMAIN call = AuditCallFields /\ IsList(call.findings) /\ IsList(call.todo)
        /\ call.file \in DOMAIN files /\ call.src = files[call.file]
    BY DEF CallPlace
  <1>2. /\ DOMAIN new = AuditCallFields /\ new.pc = "handler" /\ new.file = call.file /\ new.src = call.src
        /\ new.todo = Tail(call.todo) /\ new.findings = Append(call.findings, f) /\ new.held = {}
    BY <1>1 DEF Report, AuditCallFields
  <1> HIDE DEF new, files
  <1>3. PICK some : Agrees(some, pkgs)
    BY AgreeingExist
  <1> DEFINE hs == call.todo
             fs == call.findings
             file == call.src
  <1>4. IsList(hs) /\ hs # <<>> /\ IsList(fs)
    BY <1>1
  <1>5. ASSUME NEW ctxs, Agrees(ctxs, pkgs)
        PROVE  /\ IsList(Tail(hs)) /\ IsList(Append(fs, f))
               /\ Append(fs, f) \o PlainOf(tree, ctxs, file, Tail(hs)) = fs \o PlainOf(tree, ctxs, file, hs)
    <2>1. f = PlainFinding(tree, ctxs, file, Head(hs))
      BY <1>5
    <2> HIDE DEF hs, fs, file
    <2>2. /\ IsList(Tail(hs)) /\ IsList(Append(fs, PlainFinding(tree, ctxs, file, Head(hs))))
          /\ Append(fs, PlainFinding(tree, ctxs, file, Head(hs))) \o PlainOf(tree, ctxs, file, Tail(hs))
                = fs \o PlainOf(tree, ctxs, file, hs)
      BY <1>4, PlainMove
    <2> QED BY <2>1, <2>2
  <1>6. IsList(new.todo) /\ IsList(new.findings)
    BY <1>2, <1>3, <1>5
  <1>7. CallPlace(tree, new)
    BY <1>1, <1>2, <1>6 DEF CallPlace, Working, CallInFile, files
  <1>8. CallHolds(tree, pkgs, new)
    BY <1>2 DEF CallHolds
  <1>9. ASSUME NEW ctxs, Agrees(ctxs, pkgs) PROVE CallPlain(tree, ctxs, new) /\ CallKnows(tree, ctxs, new)
    <2>1. fs \o PlainOf(tree, ctxs, file, hs) = JoinedTo(PlainRows(tree, ctxs), call.file)
      BY <1>9 DEF CallPlain
    <2>2. new.findings \o PlainOf(tree, ctxs, new.src, new.todo) = JoinedTo(PlainRows(tree, ctxs), new.file)
      BY <1>2, <1>5, <1>9, <2>1
    <2> QED BY <1>2, <2>2 DEF CallPlain, CallKnows
  <1>10. OwnScan(tree, pkgs, fields, new)
    BY <1>7, <1>8, <1>9 DEF OwnScan
  <1> QED BY <1>10 DEF new

\* Middleware has been found; its functions are looked for next.
LEMMA OwnCovered ==
    ASSUME NEW tree, AuditParsed(tree), NEW pkgs, NEW fields, NEW call,
           ContextsFresh(tree, pkgs), FieldsFresh(tree, fields),
           CallPlace(tree, call), call.pc \in CallInFile, call.todo # <<>>, call.held = {},
           ~LogsItself(Head(call.todo), call.src),
           \A ctxs : Agrees(ctxs, pkgs) =>
              CallPlain(tree, ctxs, call) /\ PlainCovered(tree, ctxs, call.src, Head(call.todo))
    PROVE  OwnScan(tree, pkgs, fields, Covered(call))
  <1> DEFINE new == Covered(call)
             src == SourceInFile(call.src)
  <1>1. /\ DOMAIN call = AuditCallFields /\ IsList(call.findings) /\ IsList(call.todo)
        /\ call.file \in DOMAIN tree.dirs[1].files /\ call.src = tree.dirs[1].files[call.file]
    BY DEF CallPlace
  <1>2. /\ DOMAIN new = AuditCallFields /\ new.file = call.file /\ new.src = call.src
        /\ new.todo = call.todo /\ new.findings = call.findings /\ new.held = {}
        /\ \/ src # NoSource /\ new.pc = "score" /\ new.source = src
           \/ src = NoSource /\ new.pc = "source" /\ new.dir = 1
    BY <1>1 DEF Covered, AuditCallFields
  <1>3. SameFile(call, new)
    BY <1>2 DEF SameFile, CallInFile
  <1>4. src # NoSource => src \in SourcesOf(tree) /\ src.fn # ""
    BY <1>1, FileSourceNamed
  <1>5. 1 \in 1..LastDir(tree)
    BY LastDirNat
  <1> HIDE DEF new
  <1>6. CallPlace(tree, new)
    BY <1>1, <1>2, <1>4, <1>5 DEF CallPlace, Working, CallInFile
  <1>7. CallHolds(tree, pkgs, new)
    BY <1>2 DEF CallHolds
  <1>8. ASSUME NEW ctxs, Agrees(ctxs, pkgs) PROVE CallPlain(tree, ctxs, new) /\ CallKnows(tree, ctxs, new)
    <2>1. CallPlain(tree, ctxs, call) /\ PlainCovered(tree, ctxs, call.src, Head(call.todo))
      BY <1>8
    <2>2. CallPlain(tree, ctxs, new)
      BY <1>3, <2>1, SameFilePlain
    <2>3. src # NoSource => PlainSource(tree, ctxs, call.src, Head(call.todo)) = src
      BY DEF PlainSource
    <2>4. new.dir = 1 => 1..(new.dir - 1) = {}
      OBVIOUS
    <2>5. CallKnows(tree, ctxs, new)
      BY <1>2, <2>1, <2>3, <2>4 DEF CallKnows
    <2> QED BY <2>2, <2>5
  <1>9. OwnScan(tree, pkgs, fields, new)
    BY <1>6, <1>7, <1>8 DEF OwnScan
  <1> QED BY <1>9 DEF new

\* The context of a directory is judged.
LEMMA OwnJudge ==
    ASSUME NEW tree, AuditParsed(tree), tree = AuditNow, NEW old, NEW pkgs, NEW fields, NEW call, NEW ctx,
           OwnScan(tree, old, fields, call), call.pc \in {"cover", "source"},
           ContextsFresh(tree, pkgs), call.dir \in DOMAIN pkgs, pkgs[call.dir] = ctx,
           \A ctxs : Agrees(ctxs, pkgs) => Agrees(ctxs, old)
    PROVE  OwnScan(tree, pkgs, fields, Judge(call, ctx))
  <1> DEFINE h == Head(call.todo)
             name == h.decl.name
             d == call.dir
             src == SourceAt(tree, ctx, d, name)
             up == [call EXCEPT !.dir = @ + 1, !.held = {}]
             stay == [call EXCEPT !.held = {}]
  <1>1. /\ FieldsFresh(tree, fields) /\ CallPlace(tree, call)
        /\ \A ctxs : Agrees(ctxs, pkgs) => CallPlain(tree, ctxs, call) /\ CallKnows(tree, ctxs, call)
    BY DEF OwnScan
  <1>2. /\ DOMAIN call = AuditCallFields /\ IsList(call.findings) /\ IsList(call.todo)
        /\ call.file \in DOMAIN tree.dirs[1].files /\ call.src = tree.dirs[1].files[call.file]
        /\ call.todo # <<>> /\ ~LogsItself(h, call.src) /\ d \in 1..LastDir(tree)
    BY <1>1 DEF CallPlace, CallInFile
  <1>3. LastDir(tree) \in Nat \ {0}
    BY LastDirNat
  <1>4. \A ctxs : Agrees(ctxs, pkgs) => ctxs[d] = ctx
    BY DEF Agrees
  <1>5. /\ DOMAIN stay = AuditCallFields /\ stay.pc = call.pc /\ stay.file = call.file /\ stay.src = call.src
        /\ stay.todo = call.todo /\ stay.findings = call.findings /\ stay.held = {} /\ stay.dir = call.dir
        /\ stay.source = call.source
    BY <1>2 DEF AuditCallFields
  <1>6. SameFile(call, stay)
    BY <1>5 DEF SameFile, CallInFile
  <1>7. CallPlace(tree, stay) /\ stay.pc \in CallInFile
    BY <1>1, <1>5 DEF CallPlace, CallInFile
  <1>8. \A ctxs : Agrees(ctxs, pkgs) => CallPlain(tree, ctxs, stay)
    BY <1>1, <1>6, SameFilePlain
  <1>9. ASSUME Judge(call, ctx) = up, d < LastDir(tree),
               \/ call.pc = "cover" /\ ~CoveredAt(ctx, d, name)
               \/ call.pc = "source" /\ src = NoSource
        PROVE  OwnScan(tree, pkgs, fields, up)
    <2>1. /\ DOMAIN up = AuditCallFields /\ up.pc = call.pc /\ up.file = call.file /\ up.src = call.src
          /\ up.todo = call.todo /\ up.findings = call.findings /\ up.held = {} /\ up.dir = d + 1
      BY <1>2 DEF AuditCallFields
    <2>2. SameFile(call, up)
      BY <2>1 DEF SameFile, CallInFile
    <2>3. up.dir \in 1..LastDir(tree)
      BY <1>2, <1>3, <1>9, <2>1
    <2>4. 1..(up.dir - 1) = (1..(d - 1)) \cup {d}
      BY <1>2, <2>1
    <2> HIDE DEF up
    <2>5. CallPlace(tree, up)
      BY <1>1, <2>1, <2>3 DEF CallPlace
    <2>6. CallHolds(tree, pkgs, up)
      BY <2>1 DEF CallHolds
    <2>7. ASSUME NEW ctxs, Agrees(ctxs, pkgs) PROVE CallPlain(tree, ctxs, up) /\ CallKnows(tree, ctxs, up)
      <3>1. CallPlain(tree, ctxs, call) /\ CallKnows(tree, ctxs, call) /\ ctxs[d] = ctx
        BY <1>1, <1>4, <2>7
      <3>2. CallPlain(tree, ctxs, up)
        BY <2>2, <3>1, SameFilePlain
      <3>3. CASE call.pc = "cover" /\ ~CoveredAt(ctx, d, name)
        BY <2>1, <2>4, <3>1, <3>2, <3>3 DEF CallKnows
      <3>4. CASE call.pc = "source" /\ src = NoSource
        BY <2>1, <2>4, <3>1, <3>2, <3>4 DEF CallKnows
      <3> QED BY <1>9, <3>3, <3>4
    <2> QED BY <1>1, <2>5, <2>6, <2>7 DEF OwnScan
  <1>10. CASE call.pc = "cover" /\ CoveredAt(ctx, d, name)
    <2>1. Judge(call, ctx) = Covered(stay)
      BY <1>10 DEF Judge
    <2>2. \A ctxs : Agrees(ctxs, pkgs) =>
              CallPlain(tree, ctxs, stay) /\ PlainCovered(tree, ctxs, stay.src, Head(stay.todo))
      BY <1>2, <1>4, <1>5, <1>8, <1>10 DEF PlainCovered
    <2> HIDE DEF stay
    <2>3. OwnScan(tree, pkgs, fields, Covered(stay))
      BY <1>1, <1>2, <1>5, <1>7, <2>2, OwnCovered
    <2> QED BY <2>1, <2>3
  <1>11. CASE call.pc = "cover" /\ ~CoveredAt(ctx, d, name) /\ d < LastDir(tree)
    <2>1. Judge(call, ctx) = up
      BY <1>11 DEF Judge
    <2> QED BY <1>9, <1>11, <2>1
  <1>12. CASE call.pc = "cover" /\ ~CoveredAt(ctx, d, name) /\ ~(d < LastDir(tree))
    <2> DEFINE f == Unlogged(h, call.src)
    <2>1. Judge(call, ctx) = Report(stay, f)
      BY <1>12 DEF Judge
    <2>2. 1..LastDir(tree) = (1..(d - 1)) \cup {d}
      BY <1>2, <1>3, <1>12
    <2>3. ~HasLoggingMiddleware(call.src)
      BY <1>1, <1>12 DEF CallPlace
    <2>4. ASSUME NEW ctxs, Agrees(ctxs, pkgs)
          PROVE  CallPlain(tree, ctxs, stay) /\ f = PlainFinding(tree, ctxs, stay.src, Head(stay.todo))
      <3>1. CallKnows(tree, ctxs, call) /\ ctxs[d] = ctx /\ CallPlain(tree, ctxs, stay)
        BY <1>1, <1>4, <1>8, <2>4
      <3>2. \A e \in 1..LastDir(tree) : ~CoveredAt(ctxs[e], e, name)
        BY <1>12, <2>2, <3>1 DEF CallKnows
      <3> DEFINE file == call.src
      <3>3. ~LogsItself(h, file) /\ ~HasLoggingMiddleware(file)
        BY <1>2, <2>3
      <3> HIDE DEF h, file
      <3>4. PlainFinding(tree, ctxs, file, h) = Unlogged(h, file)
        BY <3>2, <3>3, PlainUnlogged
      <3> QED BY <1>5, <3>1, <3>4 DEF h, file
    <2> HIDE DEF stay, f
    <2>5. OwnScan(tree, pkgs, fields, Report(stay, f))
      BY <1>1, <1>2, <1>5, <1>7, <2>4, OwnReport
    <2> QED BY <2>1, <2>5
  <1>13. CASE call.pc = "source" /\ src # NoSource
    <2> DEFINE new == [stay EXCEPT !.pc = "score", !.source = src]
    <2>1. Judge(call, ctx) = new
      BY <1>13 DEF Judge
    <2>2. SourceInFile(call.src) = NoSource
      BY <1>1, <1>13 DEF CallPlace
    <2>3. src \in SourcesOf(tree) /\ src.fn # ""
      BY <1>2, <1>3, <1>13, SourceAtNamed
    <2> HIDE DEF stay, src
    <2>4. /\ DOMAIN new = AuditCallFields /\ new.pc = "score" /\ new.file = call.file /\ new.src = call.src
          /\ new.todo = call.todo /\ new.findings = call.findings /\ new.held = {} /\ new.source = src
      BY <1>5 DEF AuditCallFields
    <2> HIDE DEF new
    <2>5. SameFile(call, new)
      BY <1>13, <2>4 DEF SameFile, CallInFile
    <2>6. CallPlace(tree, new)
      BY <1>2, <2>3, <2>4 DEF CallPlace, Working, CallInFile
    <2>7. CallHolds(tree, pkgs, new)
      BY <2>4 DEF CallHolds
    <2>8. ASSUME NEW ctxs, Agrees(ctxs, pkgs) PROVE CallPlain(tree, ctxs, new) /\ CallKnows(tree, ctxs, new)
      <3>1. CallPlain(tree, ctxs, call) /\ CallKnows(tree, ctxs, call) /\ ctxs[d] = ctx
        BY <1>1, <1>4, <2>8
      <3>2. CallPlain(tree, ctxs, new)
        BY <2>5, <3>1, SameFilePlain
      <3>3. /\ PlainCovered(tree, ctxs, call.src, h)
            /\ \A e \in 1..(d - 1) : SourceAt(tree, ctxs[e], e, name) = NoSource
        BY <1>13, <3>1 DEF CallKnows
      <3>4. SourceAt(tree, ctxs[d], d, name) = src
        BY <3>1 DEF src
      <3> DEFINE file == call.src
      <3>5. SourceInFile(file) = NoSource /\ LastDir(tree) \in Nat
        BY <1>3, <2>2
      <3> HIDE DEF h, file, d
      <3>6. PlainSource(tree, ctxs, file, h) = SourceAt(tree, ctxs[d], d, name)
        BY <1>2, <1>13, <3>3, <3>4, <3>5, PlainSourceAt
      <3>7. CallKnows(tree, ctxs, new)
        BY <1>13, <2>4, <3>3, <3>4, <3>6 DEF CallKnows, h, file
      <3> QED BY <3>2, <3>7
    <2>9. OwnScan(tree, pkgs, fields, new)
      BY <1>1, <2>6, <2>7, <2>8 DEF OwnScan
    <2> QED BY <2>1, <2>9
  <1>14. CASE call.pc = "source" /\ src = NoSource /\ d < LastDir(tree)
    <2>1. Judge(call, ctx) = up
      BY <1>14 DEF Judge
    <2> QED BY <1>9, <1>14, <2>1
  <1>15. CASE call.pc = "source" /\ src = NoSource /\ ~(d < LastDir(tree))
    <2> DEFINE f == AuditFinding(h, "AUDIT-LOG-OK", "INFO", TRUE)
    <2>1. Judge(call, ctx) = Report(stay, f)
      BY <1>15 DEF Judge
    <2>2. 1..LastDir(tree) = (1..(d - 1)) \cup {d}
      BY <1>2, <1>3, <1>15
    <2>3. SourceInFile(call.src) = NoSource
      BY <1>1, <1>15 DEF CallPlace
    <2>4. ASSUME NEW ctxs, Agrees(ctxs, pkgs)
          PROVE  CallPlain(tree, ctxs, stay) /\ f = PlainFinding(tree, ctxs, stay.src, Head(stay.todo))
      <3>1. CallKnows(tree, ctxs, call) /\ ctxs[d] = ctx /\ CallPlain(tree, ctxs, stay)
        BY <1>1, <1>4, <1>8, <2>4
      <3>2. \A e \in 1..LastDir(tree) : SourceAt(tree, ctxs[e], e, name) = NoSource
        BY <1>15, <2>2, <3>1 DEF CallKnows
      <3> DEFINE file == call.src
      <3>3. ~LogsItself(h, file) /\ SourceInFile(file) = NoSource /\ PlainCovered(tree, ctxs, file, h)
        BY <1>2, <1>15, <2>3, <3>1 DEF CallKnows
      <3> HIDE DEF h, file
      <3>4. PlainSource(tree, ctxs, file, h) = NoSource
        BY <3>2, <3>3, PlainSourceNone
      <3> DEFINE none == NoSource
      <3>5. none = PlainSource(tree, ctxs, file, h)
        BY <3>4
      <3> HIDE DEF none
      <3>6. PlainFinding(tree, ctxs, file, h) = ScoredPlain(tree, h, none)
        BY <3>3, <3>5, PlainScored
      <3>7. FieldSeverity(tree, none, {}) = "INFO"
        BY DEF FieldSeverity
      <3>8. PlainFinding(tree, ctxs, file, h) = AuditFinding(h, "AUDIT-LOG-OK", "INFO", TRUE)
        BY <3>6, <3>7 DEF none, ScoredPlain
      <3> QED BY <1>5, <3>1, <3>8 DEF h, file
    <2> HIDE DEF stay, f
    <2>5. OwnScan(tree, pkgs, fields, Report(stay, f))
      BY <1>1, <1>2, <1>5, <1>7, <2>4, OwnReport
    <2> QED BY <2>1, <2>5
  <1> QED BY <1>10, <1>11, <1>12, <1>13, <1>14, <1>15

\* The scan begins with empty caches.
LEMMA OwnStart ==
    ASSUME NEW tree, AuditParsed(tree), NEW call, DOMAIN call = AuditCallFields, call.pc = "file",
           call.file = 1, call.findings = <<>>, call.held = {}
    PROVE  OwnScan(tree, <<>>, <<>>, call)
  <1>1. IsList(<<>>) /\ DOMAIN <<>> = {}
    BY ShortLists
  <1> DEFINE files == tree.dirs[1].files
  <1>2. IsList(files)
    BY DEF AuditParsed
  <1>3. Len(files) \in Nat
    BY <1>2, ListFacts
  <1>4. 1 \in 1..(Len(files) + 1)
    BY <1>3
  <1>5. ContextsFresh(tree, <<>>) /\ FieldsFresh(tree, <<>>)
    BY <1>1 DEF ContextsFresh, FieldsFresh
  <1>6. CallPlace(tree, call)
    BY <1>1, <1>4 DEF CallPlace, Working, CallInFile
  <1>7. CallHolds(tree, <<>>, call)
    BY DEF CallHolds
  <1>8. ASSUME NEW ctxs PROVE CallPlain(tree, ctxs, call) /\ CallKnows(tree, ctxs, call)
    <2> DEFINE rows == PlainRows(tree, ctxs)
    <2>1. IsList(rows)
      BY RowsListed
    <2> HIDE DEF rows
    <2>2. JoinedTo(rows, 0) = <<>>
      BY <2>1, JoinedEnds
    <2>3. call.file - 1 = 0
      OBVIOUS
    <2> QED BY <2>2, <2>3 DEF CallPlain, CallKnows, CallInFile, rows
  <1> QED BY <1>5, <1>6, <1>7, <1>8 DEF OwnScan

\* A file is opened.
LEMMA OwnOpened ==
    ASSUME NEW tree, AuditParsed(tree), NEW pkgs, NEW fields, NEW call, OwnScan(tree, pkgs, fields, call),
           call.pc = "file", call.file <= Len(tree.dirs[1].files)
    PROVE  OwnScan(tree, pkgs, fields,
              [call EXCEPT !.pc = "handler", !.src = tree.dirs[1].files[call.file],
                           !.todo = PaymentHandlers(tree.dirs[1].files[call.file])])
  <1> DEFINE files == tree.dirs[1].files
             file == files[call.file]
             hs == PaymentHandlers(file)
             new == [call EXCEPT !.pc = "handler", !.src = file, !.todo = hs]
  <1>1. /\ ContextsFresh(tree, pkgs) /\ FieldsFresh(tree, fields)
        /\ CallPlace(tree, call) /\ CallHolds(tree, pkgs, call)
        /\ \A ctxs : Agrees(ctxs, pkgs) => CallPlain(tree, ctxs, call)
    BY DEF OwnScan
  <1>2. DOMAIN call = AuditCallFields /\ IsList(call.findings) /\ call.file \in 1..(Len(files) + 1) /\ call.held = {}
    BY <1>1 DEF CallPlace, CallHolds
  <1>3. IsList(files) /\ \A i \in DOMAIN files : IsList(files[i].decls)
    BY DEF AuditParsed
  <1>4. Len(files) \in Nat /\ DOMAIN files = 1..Len(files)
    BY <1>3, ListFacts
  <1>5. call.file \in DOMAIN files /\ call.file - 1 \in Nat /\ call.file - 1 < Len(files) /\ (call.file - 1) + 1 = call.file
    BY <1>2, <1>4
  <1>6. IsList(hs)
    BY <1>3, <1>5, HandlersListed
  <1>7. /\ DOMAIN new = AuditCallFields /\ new.pc = "handler" /\ new.src = file /\ new.todo = hs
        /\ new.file = call.file /\ new.findings = call.findings /\ new.held = {}
    BY <1>2 DEF AuditCallFields
  <1> HIDE DEF new
  <1>8. CallPlace(tree, new)
    BY <1>2, <1>5, <1>6, <1>7 DEF CallPlace, Working, CallInFile
  <1>9. CallHolds(tree, pkgs, new)
    BY <1>7 DEF CallHolds
  <1>10. ASSUME NEW ctxs, Agrees(ctxs, pkgs) PROVE CallPlain(tree, ctxs, new) /\ CallKnows(tree, ctxs, new)
    <2> DEFINE rows == PlainRows(tree, ctxs)
               n == call.file - 1
    <2>1. /\ IsList(rows) /\ Len(rows) = Len(files) /\ \A i \in DOMAIN rows : IsList(rows[i])
          /\ rows[call.file] = PlainOf(tree, ctxs, file, hs)
      BY <1>5, RowsListed
    <2>2. call.findings = JoinedTo(rows, n)
      BY <1>1, <1>10 DEF CallPlain
    <2>3. n \in Nat /\ n < Len(rows) /\ n + 1 = call.file
      BY <1>5, <2>1
    <2> HIDE DEF rows, n
    <2>4. JoinedTo(rows, n + 1) = JoinedTo(rows, n) \o rows[n + 1]
      BY <2>1, <2>3, JoinedStep
    <2>5. new.findings \o PlainOf(tree, ctxs, new.src, new.todo) = JoinedTo(rows, new.file)
      BY <1>7, <2>1, <2>2, <2>3, <2>4
    <2> QED BY <1>7, <2>5 DEF CallPlain, CallKnows, rows
  <1>11. OwnScan(tree, pkgs, fields, new)
    BY <1>1, <1>8, <1>9, <1>10 DEF OwnScan
  <1> QED BY <1>11 DEF new

\* There is no further file.
LEMMA OwnEnded ==
    ASSUME NEW tree, AuditParsed(tree), NEW pkgs, NEW fields, NEW call, OwnScan(tree, pkgs, fields, call),
           call.pc = "file", call.file > Len(tree.dirs[1].files)
    PROVE  EndedPlain(tree, [call EXCEPT !.pc = "done"])
  <1> DEFINE files == tree.dirs[1].files
             new == [call EXCEPT !.pc = "done"]
  <1>1. /\ ContextsFresh(tree, pkgs) /\ CallPlace(tree, call)
        /\ \A ctxs : Agrees(ctxs, pkgs) => CallPlain(tree, ctxs, call)
    BY DEF OwnScan
  <1>2. DOMAIN call = AuditCallFields /\ call.file \in 1..(Len(files) + 1)
    BY <1>1 DEF CallPlace
  <1>3. IsList(files)
    BY DEF AuditParsed
  <1>4. Len(files) \in Nat
    BY <1>3, ListFacts
  <1>5. call.file - 1 = Len(files)
    BY <1>2, <1>4
  <1>6. new.findings = call.findings
    BY <1>2 DEF AuditCallFields
  <1> HIDE DEF new
  <1>7. PICK ctxs \in Contexts(tree) : Agrees(ctxs, pkgs)
    BY <1>1, AgreeingExist
  <1> DEFINE rows == PlainRows(tree, ctxs)
  <1>8. call.findings = JoinedTo(rows, Len(files))
    BY <1>1, <1>5, <1>7 DEF CallPlain
  <1>9. IsList(rows) /\ Len(rows) = Len(files) /\ PlainFindings(tree, ctxs) = FlattenSeq(rows)
    BY RowsListed
  <1> HIDE DEF rows
  <1>10. JoinedTo(rows, Len(rows)) = FlattenSeq(rows)
    BY <1>9, JoinedEnds
  <1>11. new.findings = PlainFindings(tree, ctxs)
    BY <1>6, <1>8, <1>9, <1>10
  <1>12. EndedPlain(tree, new)
    BY <1>11 DEF EndedPlain
  <1> QED BY <1>12 DEF new

\* The next handler, or none.
LEMMA OwnHandler ==
    ASSUME NEW tree, AuditParsed(tree), NEW pkgs, NEW fields, NEW call, OwnScan(tree, pkgs, fields, call),
           call.pc = "handler"
    PROVE  OwnScan(tree, pkgs, fields,
              IF call.todo = <<>> THEN [call EXCEPT !.pc = "file", !.file = @ + 1]
              ELSE IF LogsItself(Head(call.todo), call.src)
              THEN Report(call, AuditFinding(Head(call.todo), "AUDIT-LOG-OK", "INFO", FALSE))
              ELSE IF HasLoggingMiddleware(call.src) THEN Covered(call)
              ELSE [call EXCEPT !.pc = "cover", !.dir = 1])
  <1> DEFINE files == tree.dirs[1].files
             h == Head(call.todo)
  <1>1. /\ ContextsFresh(tree, pkgs) /\ FieldsFresh(tree, fields)
        /\ CallPlace(tree, call) /\ CallHolds(tree, pkgs, call)
        /\ \A ctxs : Agrees(ctxs, pkgs) => CallPlain(tree, ctxs, call)
    BY DEF OwnScan
  <1>2. /\ DOMAIN call = AuditCallFields /\ IsList(call.findings) /\ call.held = {} /\ IsList(call.todo)
        /\ call.file \in DOMAIN files /\ call.src = files[call.file] /\ call.pc \in CallInFile
    BY <1>1 DEF CallPlace, CallHolds, CallInFile
  <1>3. IsList(files)
    BY DEF AuditParsed
  <1>4. Len(files) \in Nat /\ DOMAIN files = 1..Len(files)
    BY <1>3, ListFacts
  <1>5. CASE call.todo = <<>>
    <2> DEFINE new == [call EXCEPT !.pc = "file", !.file = @ + 1]
    <2>1. /\ DOMAIN new = AuditCallFields /\ new.pc = "file" /\ new.file = call.file + 1
          /\ new.findings = call.findings /\ new.held = {}
      BY <1>2 DEF AuditCallFields
    <2>2. new.file \in 1..(Len(files) + 1) /\ new.file - 1 = call.file
      BY <1>2, <1>4, <2>1
    <2> HIDE DEF new
    <2>3. CallPlace(tree, new) /\ CallHolds(tree, pkgs, new)
      BY <1>2, <2>1, <2>2 DEF CallPlace, CallHolds, Working, CallInFile
    <2>4. ASSUME NEW ctxs, Agrees(ctxs, pkgs) PROVE CallPlain(tree, ctxs, new) /\ CallKnows(tree, ctxs, new)
      <3> DEFINE p == PlainOf(tree, ctxs, call.src, call.todo)
                 fs == call.findings
      <3>1. fs \o p = JoinedTo(PlainRows(tree, ctxs), call.file)
        BY <1>1, <1>2, <2>4 DEF CallPlain
      <3>2. p = <<>>
        BY <1>5 DEF PlainOf
      <3> HIDE DEF p, fs
      <3>3. fs = fs \o <<>>
        BY <1>2, NothingAdded DEF fs
      <3>4. fs = JoinedTo(PlainRows(tree, ctxs), call.file)
        BY <3>1, <3>2, <3>3
      <3> QED BY <2>1, <2>2, <3>4 DEF CallPlain, CallKnows, CallInFile, fs
    <2>5. OwnScan(tree, pkgs, fields, new)
      BY <1>1, <2>3, <2>4 DEF OwnScan
    <2> QED BY <1>5, <2>5 DEF new
  <1>6. CASE call.todo # <<>> /\ LogsItself(h, call.src)
    <2> DEFINE f == AuditFinding(h, "AUDIT-LOG-OK", "INFO", FALSE)
    <2>1. \A ctxs : f = PlainFinding(tree, ctxs, call.src, Head(call.todo))
      BY <1>6 DEF PlainFinding
    <2> HIDE DEF f
    <2>2. OwnScan(tree, pkgs, fields, Report(call, f))
      BY <1>1, <1>2, <1>6, <2>1, OwnReport
    <2> QED BY <1>6, <2>2 DEF f
  <1>7. CASE call.todo # <<>> /\ ~LogsItself(h, call.src) /\ HasLoggingMiddleware(call.src)
    <2>1. \A ctxs : PlainCovered(tree, ctxs, call.src, Head(call.todo))
      BY <1>7 DEF PlainCovered
    <2>2. OwnScan(tree, pkgs, fields, Covered(call))
      BY <1>1, <1>2, <1>7, <2>1, OwnCovered
    <2> QED BY <1>7, <2>2
  <1>8. CASE call.todo # <<>> /\ ~LogsItself(h, call.src) /\ ~HasLoggingMiddleware(call.src)
    <2> DEFINE new == [call EXCEPT !.pc = "cover", !.dir = 1]
    <2>1. /\ DOMAIN new = AuditCallFields /\ new.pc = "cover" /\ new.file = call.file /\ new.src = call.src
          /\ new.todo = call.todo /\ new.findings = call.findings /\ new.held = {} /\ new.dir = 1
      BY <1>2 DEF AuditCallFields
    <2>2. SameFile(call, new)
      BY <1>2, <2>1 DEF SameFile, CallInFile
    <2>3. 1 \in 1..LastDir(tree)
      BY LastDirNat
    <2> HIDE DEF new
    <2>4. CallPlace(tree, new)
      BY <1>2, <1>8, <2>1, <2>3 DEF CallPlace, Working, CallInFile
    <2>5. CallHolds(tree, pkgs, new)
      BY <2>1 DEF CallHolds
    <2>6. ASSUME NEW ctxs, Agrees(ctxs, pkgs) PROVE CallPlain(tree, ctxs, new) /\ CallKnows(tree, ctxs, new)
      <3>1. CallPlain(tree, ctxs, call)
        BY <1>1, <2>6
      <3>2. CallPlain(tree, ctxs, new)
        BY <2>2, <3>1, SameFilePlain
      <3>3. 1..(new.dir - 1) = {}
        BY <2>1
      <3> QED BY <2>1, <3>2, <3>3 DEF CallKnows
    <2>7. OwnScan(tree, pkgs, fields, new)
      BY <1>1, <2>4, <2>5, <2>6 DEF OwnScan
    <2> QED BY <1>8, <2>7 DEF new
  <1> QED BY <1>5, <1>6, <1>7, <1>8

\* Something is built and not yet stored.
LEMMA OwnHeld ==
    ASSUME NEW tree, NEW pkgs, NEW fields, NEW call, OwnScan(tree, pkgs, fields, call),
           NEW x,
           \/ call.pc \in {"cover", "source"} /\ call.dir \notin DOMAIN pkgs /\ x \in CtxsOf(tree, call.dir)
           \/ call.pc = "score" /\ x = ExtractLogFields(tree, call.source)
    PROVE  OwnScan(tree, pkgs, fields, [call EXCEPT !.held = {x}])
  <1> DEFINE new == [call EXCEPT !.held = {x}]
  <1>1. /\ ContextsFresh(tree, pkgs) /\ FieldsFresh(tree, fields) /\ CallPlace(tree, call)
        /\ \A ctxs : Agrees(ctxs, pkgs) => CallPlain(tree, ctxs, call) /\ CallKnows(tree, ctxs, call)
    BY DEF OwnScan
  <1>2. DOMAIN call = AuditCallFields
    BY <1>1 DEF CallPlace
  <1>3. /\ DOMAIN new = AuditCallFields /\ new.pc = call.pc /\ new.file = call.file /\ new.src = call.src
        /\ new.todo = call.todo /\ new.findings = call.findings /\ new.held = {x} /\ new.dir = call.dir
        /\ new.source = call.source
    BY <1>2 DEF AuditCallFields
  <1> HIDE DEF new
  <1>4. CallPlace(tree, new)
    BY <1>1, <1>3 DEF CallPlace
  <1>5. CallHolds(tree, pkgs, new)
    BY <1>3 DEF CallHolds
  <1>6. ASSUME NEW ctxs, Agrees(ctxs, pkgs) PROVE CallPlain(tree, ctxs, new) /\ CallKnows(tree, ctxs, new)
    <2>1. CallPlain(tree, ctxs, call) /\ CallKnows(tree, ctxs, call)
      BY <1>1, <1>6
    <2>2. CallPlain(tree, ctxs, new)
      BY <1>3, <2>1 DEF CallPlain
    <2>3. CallKnows(tree, ctxs, new)
      BY <1>3, <2>1 DEF CallKnows
    <2> QED BY <2>2, <2>3
  <1>7. OwnScan(tree, pkgs, fields, new)
    BY <1>1, <1>4, <1>5, <1>6 DEF OwnScan
  <1> QED BY <1>7 DEF new

\* A context is stored and judged.
LEMMA OwnStored ==
    ASSUME NEW tree, AuditParsed(tree), tree = AuditNow, NEW pkgs, NEW fields, NEW call,
           OwnScan(tree, pkgs, fields, call), call.pc \in {"cover", "source"}, NEW ctx \in call.held
    PROVE  OwnScan(tree, CacheWith(pkgs, call.dir, ctx), fields, Judge(call, ctx))
  <1> DEFINE new == CacheWith(pkgs, call.dir, ctx)
  <1>1. ContextsFresh(tree, pkgs) /\ ctx \in CtxsOf(tree, call.dir) /\ call.dir \notin DOMAIN pkgs
        /\ call.dir \in 1..LastDir(tree)
    BY DEF OwnScan, CallHolds, CallPlace
  <1>2. /\ DOMAIN new = {call.dir} \cup DOMAIN pkgs /\ new[call.dir] = ctx
        /\ \A d \in DOMAIN pkgs : d # call.dir => new[d] = pkgs[d]
    BY DEF CacheWith
  <1> HIDE DEF new
  <1>3. ContextsFresh(tree, new)
    BY <1>1, <1>2 DEF ContextsFresh
  <1>4. \A ctxs : Agrees(ctxs, new) => Agrees(ctxs, pkgs)
    BY <1>1, <1>2 DEF Agrees
  <1>5. call.dir \in DOMAIN new /\ new[call.dir] = ctx
    BY <1>2
  <1>6. OwnScan(tree, new, fields, Judge(call, ctx))
    BY <1>3, <1>4, <1>5, OwnJudge
  <1> QED BY <1>6 DEF new

\* The fields of the middleware are scored.
LEMMA OwnScored ==
    ASSUME NEW tree, AuditParsed(tree), tree = AuditNow, NEW pkgs, NEW old, NEW fields, NEW call,
           OwnScan(tree, pkgs, old, call), call.pc = "score", FieldsFresh(tree, fields),
           NEW found, found = ExtractLogFields(tree, call.source)
    PROVE  OwnScan(tree, pkgs, fields, Scored(call, found))
  <1> DEFINE stay == [call EXCEPT !.held = {}]
             f == AuditFinding(Head(call.todo), "AUDIT-LOG-OK", FieldSeverity(tree, call.source, found), TRUE)
  <1>1. /\ ContextsFresh(tree, pkgs) /\ CallPlace(tree, call)
        /\ \A ctxs : Agrees(ctxs, pkgs) => CallPlain(tree, ctxs, call) /\ CallKnows(tree, ctxs, call)
    BY DEF OwnScan
  <1>2. DOMAIN call = AuditCallFields /\ call.todo # <<>> /\ ~LogsItself(Head(call.todo), call.src)
    BY <1>1 DEF CallPlace
  <1>3. Scored(call, found) = Report(stay, f)
    BY DEF Scored
  <1>4. /\ DOMAIN stay = AuditCallFields /\ stay.pc = call.pc /\ stay.file = call.file /\ stay.src = call.src
        /\ stay.todo = call.todo /\ stay.findings = call.findings /\ stay.held = {} /\ stay.source = call.source
    BY <1>2 DEF AuditCallFields
  <1> HIDE DEF stay
  <1>5. SameFile(call, stay) /\ stay.pc \in CallInFile
    BY <1>4 DEF SameFile, CallInFile
  <1>6. CallPlace(tree, stay)
    BY <1>1, <1>4 DEF CallPlace
  <1>7. ASSUME NEW ctxs, Agrees(ctxs, pkgs)
        PROVE  CallPlain(tree, ctxs, stay) /\ f = PlainFinding(tree, ctxs, stay.src, Head(stay.todo))
    <2>1. CallPlain(tree, ctxs, call) /\ CallKnows(tree, ctxs, call)
      BY <1>1, <1>7
    <2>2. CallPlain(tree, ctxs, stay)
      BY <1>5, <2>1, SameFilePlain
    <2> DEFINE h == Head(call.todo)
               file == call.src
               src == call.source
    <2>3. ~LogsItself(h, file) /\ PlainCovered(tree, ctxs, file, h) /\ src = PlainSource(tree, ctxs, file, h)
          /\ src # NoSource
      BY <1>2, <2>1 DEF CallKnows
    <2>4. f = AuditFinding(h, "AUDIT-LOG-OK", FieldSeverity(tree, src, ExtractLogFields(tree, src)), TRUE)
      OBVIOUS
    <2> HIDE DEF h, file, src, f
    <2>5. PlainFinding(tree, ctxs, file, h) = ScoredPlain(tree, h, src)
      BY <2>3, PlainScored
    <2>6. f = ScoredPlain(tree, h, src)
      BY <2>3, <2>4 DEF ScoredPlain
    <2> QED BY <1>4, <2>2, <2>5, <2>6 DEF h, file
  <1> HIDE DEF f
  <1>8. OwnScan(tree, pkgs, fields, Report(stay, f))
    BY <1>1, <1>2, <1>4, <1>5, <1>6, <1>7, OwnReport
  <1> QED BY <1>3, <1>8

\* The cached fields are those of the only function of that name.
LEMMA FieldsKept ==
    ASSUME NEW tree, KeysApart(tree), NEW fields, FieldsFresh(tree, fields),
           NEW src \in SourcesOf(tree), src.fn # ""
    PROVE  FieldsFresh(tree, CacheWith(fields, src.fn, ExtractLogFields(tree, src)))
  <1> DEFINE x == ExtractLogFields(tree, src)
             new == CacheWith(fields, src.fn, x)
  <1>1. /\ DOMAIN new = {src.fn} \cup DOMAIN fields /\ new[src.fn] = x
        /\ \A key \in DOMAIN fields : key # src.fn => new[key] = fields[key]
    BY DEF CacheWith
  <1>2. \A other \in SourcesOf(tree) : other.fn = src.fn => other = src
    BY DEF KeysApart
  <1> HIDE DEF new
  <1>3. FieldsFresh(tree, new)
    <2> SUFFICES ASSUME NEW key \in DOMAIN new, NEW other \in SourcesOf(tree), other.fn = key, key # ""
                 PROVE  new[key] = ExtractLogFields(tree, other)
      BY DEF FieldsFresh
    <2>1. CASE key = src.fn
      BY <1>1, <1>2, <2>1
    <2>2. CASE key # src.fn
      <3>1. key \in DOMAIN fields /\ new[key] = fields[key]
        BY <1>1, <2>2
      <3> QED BY <3>1 DEF FieldsFresh
    <2> QED BY <2>1, <2>2
  <1> QED BY <1>3 DEF new

------------------------------------------------------------------------------
(* All scans.                                                              *)

AuditWorkFields == {"now", "pkgCache", "fieldCache", "calls"}

\* Nobody ran beside call c, nobody has edited the sources since it began, and
\* the cache keys tell the middleware functions apart.
Undisturbed(p, w, c) ==
    /\ KeysApart(p.history[w.now])
    /\ w.calls[c].alone /\ w.calls[c].from = w.now

\* What every call is like, and what is kept of it.
AuditCallShape(w, call) ==
    /\ DOMAIN call = AuditCallFields
    /\ call.from \in Nat /\ call.from <= w.now
    /\ call.pc \in Working \cup {"idle", "done", "failed"}

\* One call: the conditions under which the caches are its own, and what it then
\* has reported.
AuditCallSound(p, w, c) ==
    /\ AuditCallShape(w, w.calls[c])
    /\ w.calls[c].pc \in Working /\ w.calls[c].alone =>
          \A d \in DOMAIN w.calls : d # c => w.calls[d].pc \notin Working
    /\ Undisturbed(p, w, c) /\ w.calls[c].pc \in Working =>
          OwnScan(p.history[w.now], w.pkgCache, w.fieldCache, w.calls[c])
    /\ Undisturbed(p, w, c) /\ w.calls[c].pc = "done" =>
          EndedPlain(p.history[w.now], w.calls[c])

\* Every call.
AuditSound(p, w) ==
    /\ DOMAIN w = AuditWorkFields
    /\ w.now \in Nat /\ 1 <= w.now /\ w.now <= Len(p.history)
    /\ \A c \in DOMAIN w.calls : AuditCallSound(p, w, c)

\* The inductive invariant: while a scan runs alone, the caches are its own,
\* whatever other scans left in them before it began.
AuditFreshInv == scanner = "audit" => project \in AuditSources /\ AuditSound(project, work)

\* The sources that a call reads are lists.
LEMMA AuditNowParsed ==
    ASSUME NEW p \in AuditSources, NEW n \in Nat, 1 <= n, n <= Len(p.history)
    PROVE  AuditParsed(p.history[n])
  <1> DEFINE trees == p.history
  <1>1. IsList(trees)
    BY AuditSourcesAssumption
  <1>2. DOMAIN trees = 1..Len(trees) /\ Len(trees) \in Nat
    BY <1>1, ListFacts
  <1>3. n \in DOMAIN trees
    BY <1>2
  <1> DEFINE tree == trees[n]
  <1>4. tree \in Range(trees)
    BY <1>3 DEF Range
  <1> DEFINE dirs == tree.dirs
  <1>7. /\ IsList(dirs) /\ dirs # <<>>
        /\ \A pkg \in Range(dirs) :
              IsList(pkg.files) /\ \A file \in Range(pkg.files) : IsList(file.decls)
    BY <1>4, AuditSourcesAssumption
  <1> HIDE DEF tree
  <1>8. dirs[1] \in Range(dirs)
    <2> HIDE DEF dirs
    <2>1. Len(dirs) \in Nat /\ DOMAIN dirs = 1..Len(dirs) /\ dirs \in Seq(Range(dirs))
      BY <1>7, ListFacts
    <2>2. 1 \in DOMAIN dirs
      BY <1>7, <2>1
    <2> QED BY <2>2 DEF Range
  <1>5. /\ IsList(tree.dirs) /\ tree.dirs # <<>> /\ IsList(tree.dirs[1].files)
        /\ \A file \in Range(tree.dirs[1].files) : IsList(file.decls)
    BY <1>7, <1>8
  <1>6. AuditParsed(tree)
    BY <1>5 DEF AuditParsed, Range
  <1> QED BY <1>6 DEF tree

\* What no step of a call changes in it.
Moved(call, new) ==
    /\ DOMAIN new = AuditCallFields
    /\ new.from = call.from /\ new.alone = call.alone
    /\ new.pc \in Working \cup {"done", "failed"}

\* Reporting.
LEMMA MovedReport ==
    ASSUME NEW call, DOMAIN call = AuditCallFields, NEW f
    PROVE  Moved(call, Report(call, f))
  BY DEF Moved, Report, AuditCallFields, Working, CallInFile

\* Looking for the middleware.
LEMMA MovedCovered ==
    ASSUME NEW call, DOMAIN call = AuditCallFields
    PROVE  Moved(call, Covered(call))
  BY DEF Moved, Covered, AuditCallFields, Working, CallInFile

\* Two steps in one.
LEMMA MovedTwice ==
    ASSUME NEW call, NEW one, NEW two, Moved(call, one), Moved(one, two)
    PROVE  Moved(call, two)
  BY DEF Moved

\* Scoring.
LEMMA MovedScored ==
    ASSUME NEW call, DOMAIN call = AuditCallFields, call.pc \in Working, NEW fields
    PROVE  Moved(call, Scored(call, fields))
  <1> DEFINE stay == [call EXCEPT !.held = {}]
             f == AuditFinding(Head(call.todo), "AUDIT-LOG-OK", FieldSeverity(AuditNow, call.source, fields), TRUE)
  <1>1. Moved(call, stay) /\ DOMAIN stay = AuditCallFields
    BY DEF Moved, AuditCallFields
  <1>2. Scored(call, fields) = Report(stay, f)
    BY DEF Scored
  <1> HIDE DEF stay, f
  <1>3. Moved(stay, Report(stay, f))
    BY <1>1, MovedReport
  <1> QED BY <1>1, <1>2, <1>3, MovedTwice

\* Judging a context.
LEMMA MovedJudge ==
    ASSUME NEW call, DOMAIN call = AuditCallFields, call.pc \in {"cover", "source"}, NEW ctx
    PROVE  Moved(call, Judge(call, ctx))
  <1> DEFINE h == Head(call.todo)
             src == SourceAt(AuditNow, ctx, call.dir, h.decl.name)
             more == call.dir < LastDir(AuditNow)
             up == [call EXCEPT !.dir = @ + 1, !.held = {}]
             stay == [call EXCEPT !.held = {}]
             f == Unlogged(h, call.src)
             g == AuditFinding(h, "AUDIT-LOG-OK", "INFO", TRUE)
             at == [stay EXCEPT !.pc = "score", !.source = src]
  <1>1. Judge(call, ctx) \in {up, Covered(stay), Report(stay, f), Report(stay, g), at}
    BY DEF Judge
  <1>2. Moved(call, up) /\ Moved(call, stay) /\ DOMAIN stay = AuditCallFields
    BY DEF Moved, AuditCallFields, Working, CallInFile
  <1> HIDE DEF f, g, src
  <1>3. Moved(call, at)
    BY DEF Moved, AuditCallFields, Working, CallInFile
  <1> HIDE DEF stay, up, at
  <1>4. Moved(call, Covered(stay))
    <2>1. Moved(stay, Covered(stay))
      BY <1>2, MovedCovered
    <2> QED BY <1>2, <2>1, MovedTwice
  <1>5. Moved(call, Report(stay, f))
    <2>1. Moved(stay, Report(stay, f))
      BY <1>2, MovedReport
    <2> QED BY <1>2, <2>1, MovedTwice
  <1>6. Moved(call, Report(stay, g))
    <2>1. Moved(stay, Report(stay, g))
      BY <1>2, MovedReport
    <2> QED BY <1>2, <2>1, MovedTwice
  <1> QED BY <1>1, <1>2, <1>3, <1>4, <1>5, <1>6

\* One call moves.
OneCall(w, v, c) ==
    /\ DOMAIN v = AuditWorkFields /\ v.now = w.now
    /\ DOMAIN v.calls = DOMAIN w.calls
    /\ \A d \in DOMAIN w.calls : d # c => v.calls[d] = w.calls[d]

\* The step of a call that keeps what is its own keeps what is everyone's: if
\* it runs alone no other call is in the middle of a scan.
LEMMA CallMoves ==
    ASSUME NEW p, NEW w, NEW v, NEW c \in DOMAIN w.calls, AuditSound(p, w), OneCall(w, v, c),
           w.calls[c].pc \in Working, Moved(w.calls[c], v.calls[c]),
           KeysApart(p.history[w.now]) /\ OwnScan(p.history[w.now], w.pkgCache, w.fieldCache, w.calls[c]) =>
              \/ v.calls[c].pc = "failed"
              \/ v.calls[c].pc = "done" /\ EndedPlain(p.history[w.now], v.calls[c])
              \/ OwnScan(p.history[w.now], v.pkgCache, v.fieldCache, v.calls[c])
    PROVE  AuditSound(p, v)
  <1> DEFINE old == w.calls[c]
             new == v.calls[c]
             tree == p.history[w.now]
  <1>1. /\ w.now \in Nat /\ 1 <= w.now /\ w.now <= Len(p.history)
        /\ \A d \in DOMAIN w.calls : AuditCallSound(p, w, d)
    BY DEF AuditSound
  <1>2. DOMAIN v = AuditWorkFields /\ v.now = w.now /\ DOMAIN v.calls = DOMAIN w.calls
    BY DEF OneCall
  <1>3. ASSUME NEW d \in DOMAIN w.calls PROVE AuditCallSound(p, v, d)
    <2>1. CASE d = c
      <3>1. AuditCallSound(p, w, c)
        BY <1>1
      <3>2. new.from = old.from /\ new.alone = old.alone /\ DOMAIN new = AuditCallFields
            /\ new.pc \in Working \cup {"done", "failed"}
        BY DEF Moved
      <3>3. AuditCallShape(v, new)
        BY <1>2, <3>1, <3>2 DEF AuditCallSound, AuditCallShape
      <3>4. new.alone => \A e \in DOMAIN v.calls : e # c => v.calls[e].pc \notin Working
        BY <3>1, <3>2 DEF AuditCallSound, OneCall
      <3>5. Undisturbed(p, v, c) => Undisturbed(p, w, c)
        BY <1>2, <3>2 DEF Undisturbed
      <3>6. Undisturbed(p, w, c) => KeysApart(tree) /\ OwnScan(tree, w.pkgCache, w.fieldCache, old)
        BY <3>1 DEF AuditCallSound, Undisturbed
      <3>7. Undisturbed(p, v, c) => \/ new.pc = "failed"
                                    \/ new.pc = "done" /\ EndedPlain(tree, new)
                                    \/ OwnScan(tree, v.pkgCache, v.fieldCache, new)
        BY <3>5, <3>6
      <3>8. OwnScan(tree, v.pkgCache, v.fieldCache, new) => new.pc \in Working
        BY DEF OwnScan, CallPlace
      <3>9. "done" \notin Working /\ "failed" \notin Working
        BY DEF Working, CallInFile
      <3> HIDE DEF old, new, tree
      <3>10. Undisturbed(p, v, c) /\ new.pc \in Working => OwnScan(tree, v.pkgCache, v.fieldCache, new)
        BY <3>7, <3>9
      <3>11. Undisturbed(p, v, c) /\ new.pc = "done" => EndedPlain(tree, new)
        BY <3>7, <3>8, <3>9
      <3> QED BY <1>2, <2>1, <3>3, <3>4, <3>10, <3>11 DEF AuditCallSound, new, tree
    <2>2. CASE d # c
      <3>1. AuditCallSound(p, w, d) /\ v.calls[d] = w.calls[d]
        BY <1>1, <2>2 DEF OneCall
      <3>2. ~(w.calls[d].pc \in Working /\ w.calls[d].alone)
        BY <2>2, <3>1 DEF AuditCallSound
      <3>3. AuditCallShape(v, v.calls[d])
        BY <1>2, <3>1 DEF AuditCallSound, AuditCallShape
      <3>4. Undisturbed(p, v, d) <=> Undisturbed(p, w, d)
        BY <1>2, <3>1 DEF Undisturbed
      <3>5. Undisturbed(p, w, d) => w.calls[d].alone
        BY DEF Undisturbed
      <3>6. Undisturbed(p, v, d) /\ v.calls[d].pc = "done" => EndedPlain(p.history[v.now], v.calls[d])
        BY <1>2, <3>1, <3>4 DEF AuditCallSound
      <3> QED BY <3>1, <3>2, <3>3, <3>4, <3>5, <3>6 DEF AuditCallSound
    <2> QED BY <2>1, <2>2
  <1> QED BY <1>1, <1>2, <1>3 DEF AuditSound

\* What a step of one call does to the work.
LEMMA CallStepWork ==
    ASSUME DOMAIN work = AuditWorkFields, NEW c \in DOMAIN work.calls, NEW new, CallStep(c, new)
    PROVE  /\ OneCall(work, work', c) /\ work'.calls[c] = new /\ project' = project /\ scanner = "audit"
           /\ work'.pkgCache = work.pkgCache /\ work'.fieldCache = work.fieldCache
  <1>1. work' = [work EXCEPT !.calls[c] = new] /\ project' = project /\ scanner = "audit"
    BY DEF CallStep, AuditStep, Pass
  <1>2. /\ DOMAIN work' = AuditWorkFields /\ work'.now = work.now
        /\ work'.pkgCache = work.pkgCache /\ work'.fieldCache = work.fieldCache
        /\ work'.calls = [work.calls EXCEPT ![c] = new]
    BY <1>1 DEF AuditWorkFields
  <1> QED BY <1>1, <1>2 DEF OneCall

\* A step that leaves the caches alone.
LEMMA CallStepSound ==
    ASSUME project \in AuditSources, AuditSound(project, work), NEW c \in DOMAIN work.calls,
           work.calls[c].pc \in Working, NEW new, CallStep(c, new), Moved(work.calls[c], new),
           KeysApart(AuditNow) /\ OwnScan(AuditNow, work.pkgCache, work.fieldCache, work.calls[c]) =>
              \/ new.pc = "failed"
              \/ new.pc = "done" /\ EndedPlain(AuditNow, new)
              \/ OwnScan(AuditNow, work.pkgCache, work.fieldCache, new)
    PROVE  AuditFreshInv'
  <1> DEFINE p == project
             w == work
             v == work'
  <1>1. DOMAIN w = AuditWorkFields
    BY DEF AuditSound
  <1>2. OneCall(w, v, c) /\ v.calls[c] = new /\ project' = project
        /\ v.pkgCache = w.pkgCache /\ v.fieldCache = w.fieldCache
    BY <1>1, CallStepWork
  <1>3. KeysApart(p.history[w.now]) /\ OwnScan(p.history[w.now], w.pkgCache, w.fieldCache, w.calls[c]) =>
              \/ v.calls[c].pc = "failed"
              \/ v.calls[c].pc = "done" /\ EndedPlain(p.history[w.now], v.calls[c])
              \/ OwnScan(p.history[w.now], v.pkgCache, v.fieldCache, v.calls[c])
    BY <1>2 DEF AuditNow
  <1>4. AuditSound(p, w) /\ c \in DOMAIN w.calls /\ w.calls[c].pc \in Working /\ Moved(w.calls[c], v.calls[c])
    BY <1>2
  <1> HIDE DEF p, w, v
  <1>5. AuditSound(p, v)
    BY <1>2, <1>3, <1>4, CallMoves
  <1> QED BY <1>2, <1>5 DEF AuditFreshInv, p, v

\* A scan begins: it is alone if no other runs, and nobody else is any more.
LEMMA StartSound ==
    ASSUME project \in AuditSources, AuditSound(project, work), NEW c \in DOMAIN work.calls, AuditStart(c)
    PROVE  AuditFreshInv'
  <1> DEFINE p == project
             w == work
             v == work'
             alone == \A e \in DOMAIN w.calls : ~Active(e)
             new == [IdleCall EXCEPT !.pc = "file", !.from = w.now, !.alone = alone]
  <1>1. /\ DOMAIN w = AuditWorkFields /\ w.now \in Nat /\ 1 <= w.now /\ w.now <= Len(p.history)
        /\ \A d \in DOMAIN w.calls : AuditCallSound(p, w, d)
    BY DEF AuditSound
  <1>2. /\ w.calls[c].pc = "idle" /\ project' = p
        /\ v = [w EXCEPT !.pkgCache = <<>>, !.fieldCache = <<>>,
                  !.calls = [d \in DOMAIN @ |->
                     IF d = c THEN new ELSE IF Active(d) THEN [@[d] EXCEPT !.alone = FALSE] ELSE @[d]]]
    BY DEF AuditStart, AuditStep, Pass
  <1>3. /\ DOMAIN v = AuditWorkFields /\ v.now = w.now /\ v.pkgCache = <<>> /\ v.fieldCache = <<>>
        /\ v.calls = [d \in DOMAIN w.calls |->
              IF d = c THEN new ELSE IF Active(d) THEN [w.calls[d] EXCEPT !.alone = FALSE] ELSE w.calls[d]]
    BY <1>1, <1>2 DEF AuditWorkFields
  <1>4. /\ DOMAIN new = AuditCallFields /\ new.pc = "file" /\ new.from = w.now /\ (new.alone => alone)
        /\ new.file = 1 /\ new.findings = <<>> /\ new.held = {}
    BY DEF IdleCall, AuditCallFields
  <1>5. \A d \in DOMAIN w.calls : Active(d) <=> w.calls[d].pc \in Working
    BY <1>1 DEF AuditCallSound, AuditCallShape, Active, Working, CallInFile
  <1> HIDE DEF new
  <1>6. /\ DOMAIN v.calls = DOMAIN w.calls /\ v.calls[c] = new
        /\ \A d \in DOMAIN w.calls : d # c /\ w.calls[d].pc \in Working =>
              v.calls[d] = [w.calls[d] EXCEPT !.alone = FALSE]
        /\ \A d \in DOMAIN w.calls : d # c /\ w.calls[d].pc \notin Working => v.calls[d] = w.calls[d]
    BY <1>3, <1>5
  <1>7. alone => \A d \in DOMAIN w.calls : w.calls[d].pc \notin Working
    BY <1>5
  <1>8. AuditParsed(p.history[w.now])
    BY <1>1, AuditNowParsed
  <1> HIDE DEF p, w, v, alone
  <1>9. OwnScan(p.history[w.now], <<>>, <<>>, new)
    BY <1>4, <1>8, OwnStart
  <1>10. AuditCallSound(p, v, c)
    <2>1. AuditCallShape(v, new)
      BY <1>1, <1>3, <1>4 DEF AuditCallShape, Working
    <2>2. new.alone => \A d \in DOMAIN v.calls : d # c => v.calls[d].pc \notin Working
      BY <1>4, <1>6, <1>7
    <2> QED BY <1>3, <1>4, <1>6, <1>9, <2>1, <2>2 DEF AuditCallSound
  <1>11. ASSUME NEW d \in DOMAIN w.calls, d # c PROVE AuditCallSound(p, v, d)
    <2>1. AuditCallSound(p, w, d) /\ AuditCallShape(w, w.calls[d])
      BY <1>1 DEF AuditCallSound
    <2>2. CASE w.calls[d].pc \in Working
      <3> DEFINE one == w.calls[d]
                 two == [one EXCEPT !.alone = FALSE]
      <3>1. v.calls[d] = two
        BY <1>6, <1>11, <2>2
      <3>2. DOMAIN two = AuditCallFields /\ two.from = one.from /\ two.pc = one.pc /\ ~two.alone
        BY <2>1 DEF AuditCallShape, AuditCallFields
      <3> HIDE DEF two
      <3>3. AuditCallShape(v, two)
        BY <1>3, <2>1, <3>2 DEF AuditCallShape
      <3> QED BY <3>1, <3>2, <3>3 DEF AuditCallSound, Undisturbed
    <2>3. CASE w.calls[d].pc \notin Working
      <3>1. v.calls[d] = w.calls[d]
        BY <1>6, <1>11, <2>3
      <3>2. AuditCallShape(v, v.calls[d])
        BY <1>3, <2>1, <3>1 DEF AuditCallShape
      <3>3. Undisturbed(p, v, d) <=> Undisturbed(p, w, d)
        BY <1>3, <3>1 DEF Undisturbed
      <3> QED BY <1>3, <2>1, <2>3, <3>1, <3>2, <3>3 DEF AuditCallSound
    <2> QED BY <2>2, <2>3
  <1>12. AuditSound(p, v)
    BY <1>1, <1>3, <1>6, <1>10, <1>11 DEF AuditSound
  <1> QED BY <1>2, <1>12 DEF AuditFreshInv, p, v

\* The sources are edited: no scan that has begun is of the sources as they are.
LEMMA EditSound ==
    ASSUME project \in AuditSources, AuditSound(project, work), AuditEdit
    PROVE  AuditFreshInv'
  <1> DEFINE p == project
             w == work
             v == work'
  <1>1. /\ DOMAIN w = AuditWorkFields /\ w.now \in Nat /\ 1 <= w.now /\ w.now <= Len(p.history)
        /\ \A d \in DOMAIN w.calls : AuditCallSound(p, w, d)
    BY DEF AuditSound
  <1>2. w.now < Len(p.history) /\ v = [w EXCEPT !.now = @ + 1] /\ project' = p
    BY DEF AuditEdit, AuditStep, Pass
  <1>3. DOMAIN v = AuditWorkFields /\ v.now = w.now + 1 /\ v.calls = w.calls
    BY <1>1, <1>2 DEF AuditWorkFields
  <1>4. IsList(p.history)
    BY AuditSourcesAssumption
  <1>5. Len(p.history) \in Nat
    BY <1>4, ListFacts
  <1> HIDE DEF p, w, v
  <1>6. v.now \in Nat /\ 1 <= v.now /\ v.now <= Len(p.history)
    BY <1>1, <1>2, <1>3, <1>5
  <1>7. ASSUME NEW d \in DOMAIN w.calls PROVE AuditCallSound(p, v, d)
    <2>1. AuditCallSound(p, w, d) /\ AuditCallShape(w, w.calls[d])
      BY <1>1 DEF AuditCallSound
    <2>2. w.calls[d].from \in Nat /\ w.calls[d].from <= w.now
      BY <2>1 DEF AuditCallShape
    <2>3. w.calls[d].from <= v.now /\ w.calls[d].from # v.now
      BY <1>1, <1>3, <2>2
    <2>4. AuditCallShape(v, v.calls[d]) /\ ~Undisturbed(p, v, d)
      BY <1>3, <2>1, <2>3 DEF AuditCallShape, Undisturbed
    <2> QED BY <1>3, <2>1, <2>4 DEF AuditCallSound
  <1>8. AuditSound(p, v)
    BY <1>3, <1>6, <1>7 DEF AuditSound
  <1> QED BY <1>2, <1>8 DEF AuditFreshInv, p, v

\* What holds of a call in the middle of its scan.
LEMMA WorkingCall ==
    ASSUME project \in AuditSources, AuditSound(project, work), NEW c \in DOMAIN work.calls
    PROVE  /\ DOMAIN work = AuditWorkFields /\ DOMAIN work.calls[c] = AuditCallFields
           /\ AuditParsed(AuditNow)
  <1>1. AuditCallShape(work, work.calls[c])
    BY DEF AuditSound, AuditCallSound
  <1>2. AuditParsed(AuditNow)
    <2> DEFINE p == project
               n == work.now
    <2>1. p \in AuditSources /\ n \in Nat /\ 1 <= n /\ n <= Len(p.history)
      BY DEF AuditSound
    <2> HIDE DEF p, n
    <2>2. AuditParsed(p.history[n])
      BY <2>1, AuditNowParsed
    <2> QED BY <2>2 DEF AuditNow, p, n
  <1> QED BY <1>1, <1>2 DEF AuditSound, AuditCallShape

\* A file is opened, or there is none.
LEMMA OpenFileSound ==
    ASSUME project \in AuditSources, AuditSound(project, work), NEW c \in DOMAIN work.calls, AuditOpenFile(c)
    PROVE  AuditFreshInv'
  <1> DEFINE call == work.calls[c]
             tree == AuditNow
             pkgs == work.pkgCache
             fields == work.fieldCache
             files == AuditDir.files
             file == files[call.file]
  <1>1. DOMAIN call = AuditCallFields /\ AuditParsed(tree)
    BY WorkingCall
  <1>2. call.pc = "file" /\ call.pc \in Working
    BY DEF AuditOpenFile, Working
  <1>3. files = tree.dirs[1].files
    BY DEF AuditDir
  <1> DEFINE opened == [call EXCEPT !.pc = "handler", !.src = file, !.todo = PaymentHandlers(file)]
             failed == [call EXCEPT !.pc = "failed", !.findings = <<>>]
             ended == [call EXCEPT !.pc = "done"]
  <1>4. \/ call.file <= Len(files) /\ CallStep(c, IF file.parses THEN opened ELSE failed)
        \/ call.file > Len(files) /\ CallStep(c, ended)
    BY DEF AuditOpenFile
  <1>5. /\ Moved(call, opened) /\ Moved(call, failed) /\ Moved(call, ended)
        /\ failed.pc = "failed" /\ ended.pc = "done"
    BY <1>1 DEF Moved, AuditCallFields, Working, CallInFile
  <1>6. CASE call.file <= Len(files) /\ CallStep(c, opened)
    <2>1. OwnScan(tree, pkgs, fields, call) => OwnScan(tree, pkgs, fields, opened)
      <3> DEFINE t == tree
                 k == call
      <3>1. AuditParsed(t) /\ k.pc = "file" /\ k.file <= Len(t.dirs[1].files)
        BY <1>1, <1>2, <1>3, <1>6
      <3>2. opened = [k EXCEPT !.pc = "handler", !.src = t.dirs[1].files[k.file],
                               !.todo = PaymentHandlers(t.dirs[1].files[k.file])]
        BY <1>3
      <3> HIDE DEF t, k, opened
      <3>3. ASSUME OwnScan(t, pkgs, fields, k)
            PROVE  OwnScan(t, pkgs, fields,
                      [k EXCEPT !.pc = "handler", !.src = t.dirs[1].files[k.file],
                                !.todo = PaymentHandlers(t.dirs[1].files[k.file])])
        BY <3>1, <3>3, OwnOpened
      <3> QED BY <3>2, <3>3 DEF t, k
    <2> HIDE DEF opened
    <2> QED BY <1>2, <1>5, <1>6, <2>1, CallStepSound
  <1>7. CASE CallStep(c, failed)
    <2> HIDE DEF failed
    <2> QED BY <1>2, <1>5, <1>7, CallStepSound
  <1>8. CASE call.file > Len(files) /\ CallStep(c, ended)
    <2>1. OwnScan(tree, pkgs, fields, call) => EndedPlain(tree, ended)
      <3> DEFINE t == tree
                 k == call
      <3>1. AuditParsed(t) /\ k.pc = "file" /\ k.file > Len(t.dirs[1].files)
        BY <1>1, <1>2, <1>3, <1>8
      <3> HIDE DEF t, k
      <3>2. ASSUME OwnScan(t, pkgs, fields, k) PROVE EndedPlain(t, [k EXCEPT !.pc = "done"])
        BY <3>1, <3>2, OwnEnded
      <3> QED BY <3>2 DEF t, k
    <2> HIDE DEF ended
    <2> QED BY <1>2, <1>5, <1>8, <2>1, CallStepSound
  <1>9. \/ call.file <= Len(files) /\ CallStep(c, opened)
        \/ CallStep(c, failed)
        \/ call.file > Len(files) /\ CallStep(c, ended)
    <2> HIDE DEF opened, failed, ended
    <2> QED BY <1>4
  <1> QED BY <1>6, <1>7, <1>8, <1>9

\* A handler is looked at.
LEMMA HandlerSound ==
    ASSUME project \in AuditSources, AuditSound(project, work), NEW c \in DOMAIN work.calls, AuditHandler(c)
    PROVE  AuditFreshInv'
  <1> DEFINE call == work.calls[c]
             tree == AuditNow
             pkgs == work.pkgCache
             fields == work.fieldCache
             h == Head(call.todo)
             f == AuditFinding(h, "AUDIT-LOG-OK", "INFO", FALSE)
             over == [call EXCEPT !.pc = "file", !.file = @ + 1]
             cover == [call EXCEPT !.pc = "cover", !.dir = 1]
             new == IF call.todo = <<>> THEN over
                    ELSE IF LogsItself(h, call.src) THEN Report(call, f)
                    ELSE IF HasLoggingMiddleware(call.src) THEN Covered(call)
                    ELSE cover
  <1>1. DOMAIN call = AuditCallFields /\ AuditParsed(tree)
    BY WorkingCall
  <1>2. call.pc = "handler" /\ call.pc \in Working
    BY DEF AuditHandler, Working, CallInFile
  <1>3. CallStep(c, new)
    BY DEF AuditHandler
  <1>4. Moved(call, new)
    <2>1. Moved(call, over) /\ Moved(call, cover)
      BY <1>1 DEF Moved, AuditCallFields, Working, CallInFile
    <2>2. Moved(call, Report(call, f))
      BY <1>1, MovedReport
    <2>3. Moved(call, Covered(call))
      BY <1>1, MovedCovered
    <2>4. new \in {over, Report(call, f), Covered(call), cover}
      OBVIOUS
    <2> HIDE DEF over, cover, f, call, h, new
    <2> QED BY <2>1, <2>2, <2>3, <2>4
  <1>5. OwnScan(tree, pkgs, fields, call) => OwnScan(tree, pkgs, fields, new)
    BY <1>1, <1>2, OwnHandler
  <1> HIDE DEF new
  <1> QED BY <1>2, <1>3, <1>4, <1>5, CallStepSound

\* A context is looked up.
LEMMA LookupSound ==
    ASSUME project \in AuditSources, AuditSound(project, work), NEW c \in DOMAIN work.calls, AuditLookup(c)
    PROVE  AuditFreshInv'
  <1> DEFINE call == work.calls[c]
             tree == AuditNow
             pkgs == work.pkgCache
             fields == work.fieldCache
  <1>1. DOMAIN call = AuditCallFields /\ AuditParsed(tree)
    BY WorkingCall
  <1>2. call.pc \in {"cover", "source"} /\ call.pc \in Working
    BY DEF AuditLookup, Working, CallInFile
  <1>3. CASE call.dir \in DOMAIN pkgs
    <2> DEFINE ctx == pkgs[call.dir]
               new == Judge(call, ctx)
    <2>1. CallStep(c, new)
      BY <1>3 DEF AuditLookup
    <2>2. Moved(call, new)
      BY <1>1, <1>2, MovedJudge
    <2>3. OwnScan(tree, pkgs, fields, call) => OwnScan(tree, pkgs, fields, new)
      <3> SUFFICES ASSUME OwnScan(tree, pkgs, fields, call) PROVE OwnScan(tree, pkgs, fields, new)
        OBVIOUS
      <3>1. ContextsFresh(tree, pkgs)
        BY DEF OwnScan
      <3> QED BY <1>1, <1>2, <1>3, <3>1, OwnJudge
    <2> HIDE DEF new
    <2> QED BY <1>2, <2>1, <2>2, <2>3, CallStepSound
  <1>4. CASE call.dir \notin DOMAIN pkgs
    <2>1. PICK o \in MethodOrders(tree.dirs[call.dir]) :
             CallStep(c, [call EXCEPT !.held = {BuildPackageMiddlewareCtx(tree, tree.dirs[call.dir], o)}])
      BY <1>4 DEF AuditLookup
    <2> DEFINE x == BuildPackageMiddlewareCtx(tree, tree.dirs[call.dir], o)
               new == [call EXCEPT !.held = {x}]
    <2>2. x \in CtxsOf(tree, call.dir)
      BY <2>1 DEF CtxsOf
    <2>3. CallStep(c, new)
      BY <2>1
    <2> HIDE DEF x
    <2>4. Moved(call, new)
      BY <1>1, <1>2 DEF Moved, AuditCallFields, Working, CallInFile
    <2>5. OwnScan(tree, pkgs, fields, call) => OwnScan(tree, pkgs, fields, new)
      BY <1>2, <1>4, <2>2, OwnHeld
    <2> HIDE DEF new
    <2> QED BY <1>2, <2>3, <2>4, <2>5, CallStepSound
  <1> QED BY <1>3, <1>4

\* The fields of the middleware are looked up.
LEMMA ScoreSound ==
    ASSUME project \in AuditSources, AuditSound(project, work), NEW c \in DOMAIN work.calls, AuditScore(c)
    PROVE  AuditFreshInv'
  <1> DEFINE call == work.calls[c]
             tree == AuditNow
             pkgs == work.pkgCache
             fields == work.fieldCache
             key == call.source.fn
  <1>1. DOMAIN call = AuditCallFields /\ AuditParsed(tree)
    BY WorkingCall
  <1>2. call.pc = "score" /\ call.pc \in Working
    BY DEF AuditScore, Working, CallInFile
  <1>3. CASE key \in DOMAIN fields
    <2> DEFINE found == fields[key]
               new == Scored(call, found)
    <2>1. CallStep(c, new)
      BY <1>3 DEF AuditScore
    <2>2. Moved(call, new)
      BY <1>1, <1>2, MovedScored
    <2>3. OwnScan(tree, pkgs, fields, call) => OwnScan(tree, pkgs, fields, new)
      <3> SUFFICES ASSUME OwnScan(tree, pkgs, fields, call) PROVE OwnScan(tree, pkgs, fields, new)
        OBVIOUS
      <3>1. FieldsFresh(tree, fields) /\ call.source \in SourcesOf(tree) /\ key # ""
        BY <1>2 DEF OwnScan, CallPlace
      <3>2. found = ExtractLogFields(tree, call.source)
        BY <1>3, <3>1 DEF FieldsFresh
      <3> HIDE DEF found
      <3> QED BY <1>1, <1>2, <3>1, <3>2, OwnScored
    <2> HIDE DEF new
    <2> QED BY <1>2, <2>1, <2>2, <2>3, CallStepSound
  <1>4. CASE key \notin DOMAIN fields
    <2> DEFINE x == ExtractLogFields(tree, call.source)
               new == [call EXCEPT !.held = {x}]
    <2>1. CallStep(c, new)
      BY <1>4 DEF AuditScore
    <2>2. x = ExtractLogFields(tree, call.source)
      OBVIOUS
    <2> HIDE DEF x
    <2>3. Moved(call, new)
      BY <1>1, <1>2 DEF Moved, AuditCallFields, Working, CallInFile
    <2>4. OwnScan(tree, pkgs, fields, call) => OwnScan(tree, pkgs, fields, new)
      BY <1>2, <2>2, OwnHeld
    <2> HIDE DEF new
    <2> QED BY <1>2, <2>1, <2>3, <2>4, CallStepSound
  <1> QED BY <1>3, <1>4 DEF AuditScore

\* A context is stored.
LEMMA StoreSound ==
    ASSUME project \in AuditSources, AuditSound(project, work), NEW c \in DOMAIN work.calls, AuditStore(c)
    PROVE  AuditFreshInv'
  <1> DEFINE p == project
             w == work
             v == work'
             call == w.calls[c]
             tree == p.history[w.now]
  <1>1. DOMAIN w = AuditWorkFields /\ DOMAIN call = AuditCallFields /\ AuditParsed(AuditNow)
    BY WorkingCall
  <1>2. tree = AuditNow
    BY DEF AuditNow
  <1>3. call.pc \in {"cover", "source"} /\ call.pc \in Working
    BY DEF AuditStore, Working, CallInFile
  <1>4. PICK ctx \in call.held :
           /\ v = [w EXCEPT !.pkgCache = CacheWith(@, call.dir, ctx), !.calls[c] = Judge(call, ctx)]
           /\ project' = p
    BY DEF AuditStore, AuditStep, Pass
  <1> DEFINE pkgs == CacheWith(w.pkgCache, call.dir, ctx)
             new == Judge(call, ctx)
  <1>5. Moved(call, new)
    BY <1>1, <1>3, MovedJudge
  <1>6. OwnScan(tree, w.pkgCache, w.fieldCache, call) => OwnScan(tree, pkgs, w.fieldCache, new)
    BY <1>1, <1>2, <1>3, OwnStored
  <1> HIDE DEF pkgs, new
  <1>7. v = [w EXCEPT !.pkgCache = pkgs, !.calls[c] = new]
    BY <1>4 DEF pkgs, new
  <1>8. /\ DOMAIN v = AuditWorkFields /\ v.now = w.now /\ v.pkgCache = pkgs /\ v.fieldCache = w.fieldCache
        /\ v.calls = [w.calls EXCEPT ![c] = new]
    BY <1>1, <1>7 DEF AuditWorkFields
  <1>9. OneCall(w, v, c) /\ v.calls[c] = new
    BY <1>8 DEF OneCall
  <1> HIDE DEF w, v, p
  <1>10. AuditSound(p, w) /\ c \in DOMAIN w.calls
    BY DEF w, p
  <1>11. AuditSound(p, v)
    BY <1>3, <1>5, <1>6, <1>8, <1>9, <1>10, CallMoves
  <1> QED BY <1>4, <1>11 DEF AuditFreshInv, p, v

\* The fields of the middleware are stored.
LEMMA KeepFieldsSound ==
    ASSUME project \in AuditSources, AuditSound(project, work), NEW c \in DOMAIN work.calls, AuditKeepFields(c)
    PROVE  AuditFreshInv'
  <1> DEFINE p == project
             w == work
             v == work'
             call == w.calls[c]
             tree == p.history[w.now]
             src == call.source
  <1>1. DOMAIN w = AuditWorkFields /\ DOMAIN call = AuditCallFields /\ AuditParsed(AuditNow)
    BY WorkingCall
  <1>2. tree = AuditNow
    BY DEF AuditNow
  <1>3. call.pc = "score" /\ call.pc \in Working
    BY DEF AuditKeepFields, Working, CallInFile
  <1>4. PICK found \in call.held :
           /\ v = [w EXCEPT !.fieldCache = CacheWith(@, call.source.fn, found), !.calls[c] = Scored(call, found)]
           /\ project' = p
    BY DEF AuditKeepFields, AuditStep, Pass
  <1> DEFINE fields == CacheWith(w.fieldCache, src.fn, found)
             new == Scored(call, found)
  <1>5. Moved(call, new)
    BY <1>1, <1>3, MovedScored
  <1>6. ASSUME KeysApart(tree), OwnScan(tree, w.pkgCache, w.fieldCache, call)
        PROVE  OwnScan(tree, w.pkgCache, fields, new)
    <2>1. /\ FieldsFresh(tree, w.fieldCache) /\ src \in SourcesOf(tree) /\ src.fn # ""
          /\ found = ExtractLogFields(tree, src)
      BY <1>3, <1>4, <1>6 DEF OwnScan, CallPlace, CallHolds
    <2>2. FieldsFresh(tree, fields)
      <3> DEFINE old == w.fieldCache
      <3>1. FieldsFresh(tree, CacheWith(old, src.fn, ExtractLogFields(tree, src)))
        <4> HIDE DEF tree, src, old
        <4> QED BY <1>6, <2>1, FieldsKept DEF old
      <3> QED BY <2>1, <3>1
    <2> HIDE DEF fields
    <2> QED BY <1>1, <1>2, <1>3, <1>6, <2>1, <2>2, OwnScored
  <1> HIDE DEF fields, new
  <1>7. v = [w EXCEPT !.fieldCache = fields, !.calls[c] = new]
    BY <1>4 DEF fields, new
  <1>8. /\ DOMAIN v = AuditWorkFields /\ v.now = w.now /\ v.pkgCache = w.pkgCache /\ v.fieldCache = fields
        /\ v.calls = [w.calls EXCEPT ![c] = new]
    BY <1>1, <1>7 DEF AuditWorkFields
  <1>9. OneCall(w, v, c) /\ v.calls[c] = new
    BY <1>8 DEF OneCall
  <1> HIDE DEF w, v, p
  <1>10. AuditSound(p, w) /\ c \in DOMAIN w.calls
    BY DEF w, p
  <1>11. AuditSound(p, v)
    BY <1>3, <1>5, <1>6, <1>8, <1>9, <1>10, CallMoves
  <1> QED BY <1>4, <1>11 DEF AuditFreshInv, p, v

\* Before any scan.
LEMMA AuditFreshInitially ==
    ASSUME Init PROVE AuditFreshInv
  <1> SUFFICES ASSUME scanner = "audit" PROVE AuditFreshInv
    BY DEF AuditFreshInv
  <1>1. project \in AuditSources /\ work = AuditIdle(project.callers)
    BY DEF Init, SqlInit, AuditInit, AuthInit, PanInit, Called
  <1>2. /\ DOMAIN work = AuditWorkFields /\ work.now = 1
        /\ \A c \in DOMAIN work.calls : work.calls[c] = IdleCall
    BY <1>1 DEF AuditIdle, AuditWorkFields
  <1>3. DOMAIN IdleCall = AuditCallFields /\ IdleCall.pc = "idle" /\ IdleCall.from = 0
    BY DEF IdleCall, AuditCallFields
  <1>4. "idle" \notin Working /\ "idle" # "done"
    BY DEF Working, CallInFile
  <1> DEFINE trees == project.history
  <1>5. IsList(trees) /\ trees # <<>>
    BY <1>1, AuditSourcesAssumption
  <1>6. Len(trees) \in Nat /\ 1 <= Len(trees)
    <2> HIDE DEF trees
    <2>1. trees \in Seq(Range(trees)) /\ trees # <<>>
      BY <1>5, ListFacts
    <2> QED BY <2>1
  <1>7. ASSUME NEW c \in DOMAIN work.calls PROVE AuditCallSound(project, work, c)
    BY <1>2, <1>3, <1>4, <1>7 DEF AuditCallSound, AuditCallShape
  <1> QED BY <1>1, <1>2, <1>6, <1>7 DEF AuditFreshInv, AuditSound

\* Every step of every scan preserves it, and so does an edit.
LEMMA AuditFreshInductive ==
    ASSUME AuditFreshInv, [Next]_callVars
    PROVE  AuditFreshInv'
  <1> SUFFICES ASSUME scanner' = "audit" PROVE AuditFreshInv'
    BY DEF AuditFreshInv
  <1>1. scanner = "audit" /\ scanner' = scanner
    BY ScannerStays
  <1>2. project \in AuditSources /\ AuditSound(project, work)
    BY <1>1 DEF AuditFreshInv
  <1>3. ASSUME NEW c \in DOMAIN work.calls, AuditStart(c) PROVE AuditFreshInv'
    BY <1>2, <1>3, StartSound
  <1>4. ASSUME NEW c \in DOMAIN work.calls, AuditOpenFile(c) PROVE AuditFreshInv'
    BY <1>2, <1>4, OpenFileSound
  <1>5. ASSUME NEW c \in DOMAIN work.calls, AuditHandler(c) PROVE AuditFreshInv'
    BY <1>2, <1>5, HandlerSound
  <1>6. ASSUME NEW c \in DOMAIN work.calls, AuditLookup(c) PROVE AuditFreshInv'
    BY <1>2, <1>6, LookupSound
  <1>7. ASSUME NEW c \in DOMAIN work.calls, AuditStore(c) PROVE AuditFreshInv'
    BY <1>2, <1>7, StoreSound
  <1>8. ASSUME NEW c \in DOMAIN work.calls, AuditScore(c) PROVE AuditFreshInv'
    BY <1>2, <1>8, ScoreSound
  <1>9. ASSUME NEW c \in DOMAIN work.calls, AuditKeepFields(c) PROVE AuditFreshInv'
    BY <1>2, <1>9, KeepFieldsSound
  <1>10. CASE AuditEdit
    BY <1>2, <1>10, EditSound
  <1>11. CASE AuditEnd
    <2>1. work' = work /\ project' = project
      BY <1>11 DEF AuditEnd, Pass
    <2> QED BY <1>2, <2>1 DEF AuditFreshInv
  <1>12. CASE UNCHANGED callVars
    <2>1. project' = project /\ work' = work
      BY <1>12 DEF callVars
    <2> QED BY <1>2, <2>1 DEF AuditFreshInv
  <1>13. AuditNext \/ UNCHANGED callVars
    BY <1>1 DEF Next, Returned
  <1> QED BY <1>3, <1>4, <1>5, <1>6, <1>7, <1>8, <1>9, <1>10, <1>11, <1>12, <1>13 DEF AuditNext

(* AuditFreshInv holds in every behaviour: a scan that runs alone on        *)
(* sources that nobody edits finds in the caches what it put there, which   *)
(* is what it would work out again, and has reported what a scan without    *)
(* caches reports so far.                                                   *)
THEOREM AuditFreshInvariant == Spec => []AuditFreshInv
  <1>1. Init => AuditFreshInv
    BY AuditFreshInitially
  <1>2. AuditFreshInv /\ [Next]_callVars => AuditFreshInv'
    BY AuditFreshInductive
  <1> QED BY <1>1, <1>2, PTL DEF Spec

(* The caches of the audit scanner are invisible to a scan that runs alone, *)
(* in any source tree whose middleware functions the cache keys tell apart: *)
(* what earlier scans and earlier sources left behind is never reported.    *)
THEOREM AuditFreshAlwaysWhenAlone == Spec => []AuditFreshWhenAlone
  <1>1. AuditFreshInv => AuditFreshWhenAlone
    <2> SUFFICES ASSUME AuditFreshInv, scanner = "audit", KeysApart(AuditNow), NEW c \in DOMAIN work.calls,
                        work.calls[c].pc = "done", work.calls[c].alone, work.calls[c].from = work.now
                 PROVE  \E ctxs \in Contexts(AuditNow) :
                           work.calls[c].findings = PlainFindings(AuditNow, ctxs)
      BY DEF AuditFreshWhenAlone
    <2>1. AuditCallSound(project, work, c)
      BY DEF AuditFreshInv, AuditSound
    <2>2. Undisturbed(project, work, c)
      BY DEF Undisturbed, AuditNow
    <2>3. EndedPlain(AuditNow, work.calls[c])
      BY <2>1, <2>2 DEF AuditCallSound, AuditNow
    <2> QED BY <2>3 DEF EndedPlain
  <1> QED BY <1>1, AuditFreshInvariant, PTL

------------------------------------------------------------------------------
(* Lists whose elements are at different places.                           *)

\* No two elements of the list are at the same place.
Apart(s) == \A i, j \in DOMAIN s : s[i].at = s[j].at => i = j

\* One such list after another.
LEMMA ApartJoin ==
    ASSUME NEW s, NEW t, IsList(s), IsList(t), Apart(s), Apart(t),
           \A i \in DOMAIN s : \A j \in DOMAIN t : s[i].at # t[j].at
    PROVE  Apart(s \o t)
  <1> DEFINE u == s \o t
  <1>1. \A k \in DOMAIN u :
            \/ k \in DOMAIN s /\ u[k] = s[k]
            \/ k - Len(s) \in DOMAIN t /\ u[k] = t[k - Len(s)]
    BY ListJoin
  <1>2. IsList(u)
    BY ListJoin
  <1>3. DOMAIN u \subseteq Int /\ Len(s) \in Nat
    BY <1>2, ListFacts
  <1> HIDE DEF u
  <1>4. ASSUME NEW i \in DOMAIN u, NEW j \in DOMAIN u, u[i].at = u[j].at PROVE i = j
    <2>1. CASE i \in DOMAIN s /\ u[i] = s[i] /\ j \in DOMAIN s /\ u[j] = s[j]
      BY <1>4, <2>1 DEF Apart
    <2>2. CASE i - Len(s) \in DOMAIN t /\ u[i] = t[i - Len(s)]
               /\ j - Len(s) \in DOMAIN t /\ u[j] = t[j - Len(s)]
      <3>1. i - Len(s) = j - Len(s)
        BY <1>4, <2>2 DEF Apart
      <3> QED BY <1>3, <3>1
    <2> QED BY <1>1, <1>4, <2>1, <2>2
  <1>5. Apart(u)
    BY <1>4 DEF Apart
  <1> QED BY <1>5 DEF u

\* Every element of the lists joined so far is of one of them.
LEMMA JoinedElements ==
    ASSUME NEW rows, IsList(rows), \A i \in DOMAIN rows : IsList(rows[i]), NEW n \in Nat, n <= Len(rows)
    PROVE  \A k \in DOMAIN JoinedTo(rows, n) :
              \E i \in 1..n : \E j \in DOMAIN rows[i] : JoinedTo(rows, n)[k] = rows[i][j]
  <1> DEFINE u == [k \in 1..n |-> rows[k]]
  <1>1. Len(rows) \in Nat /\ DOMAIN rows = 1..Len(rows)
    BY ListFacts
  <1>2. /\ DOMAIN u = 1..n /\ u = [k \in DOMAIN u |-> u[k]]
        /\ \A k \in DOMAIN u : IsList(u[k]) /\ u[k] = rows[k]
    BY <1>1
  <1>3. JoinedTo(rows, n) = FlattenSeq(u)
    BY DEF JoinedTo
  <1> HIDE DEF u
  <1>4. IsList(u)
    BY <1>2, FunctionIsList
  <1>5. \A k \in DOMAIN FlattenSeq(u) :
           \E i \in DOMAIN u : \E j \in DOMAIN u[i] : FlattenSeq(u)[k] = u[i][j]
    BY <1>2, <1>4, ListFlatten
  <1> QED BY <1>2, <1>3, <1>5

\* Many such lists, joined.
LEMMA ApartFlatten ==
    ASSUME NEW rows, IsList(rows), \A i \in DOMAIN rows : IsList(rows[i]) /\ Apart(rows[i]),
           \A i, m \in DOMAIN rows : \A j \in DOMAIN rows[i] : \A l \in DOMAIN rows[m] :
              rows[i][j].at = rows[m][l].at => i = m
    PROVE  Apart(FlattenSeq(rows))
  <1> DEFINE Bad == {n \in 0..Len(rows) : ~Apart(JoinedTo(rows, n))}
  <1>1. Len(rows) \in Nat /\ DOMAIN rows = 1..Len(rows)
    BY ListFacts
  <1>2. JoinedTo(rows, 0) = <<>> /\ JoinedTo(rows, Len(rows)) = FlattenSeq(rows)
    BY JoinedEnds
  <1>3. SUFFICES ASSUME Bad # {} PROVE FALSE
    BY <1>1, <1>2
  <1>4. Bad \in SUBSET Int /\ IsFiniteSet(Bad)
    <2>1. IsFiniteSet(0..Len(rows)) /\ Bad \in SUBSET (0..Len(rows))
      BY <1>1, FS_Interval
    <2> QED BY <2>1, FS_Subset
  <1>5. PICK m \in Bad : \A j \in Bad : m <= j
    <2> HIDE DEF Bad
    <2> QED BY <1>3, <1>4, LeastMember
  <1>6. m \in 0..Len(rows) /\ ~Apart(JoinedTo(rows, m))
    OBVIOUS
  <1>7. m # 0
    <2>1. DOMAIN <<>> = {}
      BY ShortLists
    <2>2. Apart(<<>>)
      BY <2>1 DEF Apart
    <2> QED BY <1>2, <1>6, <2>2
  <1> DEFINE n == m - 1
  <1>8. n \in Nat /\ n < Len(rows) /\ n <= Len(rows) /\ n + 1 = m /\ m \in DOMAIN rows
        /\ n \in 0..Len(rows)
    BY <1>1, <1>6, <1>7
  <1>9. Apart(JoinedTo(rows, n))
    <2>1. n \notin Bad
      BY <1>5, <1>8
    <2> QED BY <1>8, <2>1
  <1> HIDE DEF n, Bad
  <1>10. JoinedTo(rows, n + 1) = JoinedTo(rows, n) \o rows[n + 1]
    BY <1>8, JoinedStep
  <1>11. IsList(JoinedTo(rows, n))
    BY <1>8, JoinedIsList
  <1>12. \A k \in DOMAIN JoinedTo(rows, n) :
            \E i \in 1..n : \E j \in DOMAIN rows[i] : JoinedTo(rows, n)[k] = rows[i][j]
    BY <1>8, JoinedElements
  <1> DEFINE s == JoinedTo(rows, n)
             t == rows[m]
  <1>13. IsList(t) /\ Apart(t)
    BY <1>8
  <1>14. ASSUME NEW k \in DOMAIN s, NEW l \in DOMAIN t, s[k].at = t[l].at PROVE FALSE
    <2>1. PICK i \in 1..n : \E j \in DOMAIN rows[i] : s[k] = rows[i][j]
      BY <1>12
    <2>2. PICK j \in DOMAIN rows[i] : s[k] = rows[i][j]
      BY <2>1
    <2>3. i \in DOMAIN rows /\ i # m
      BY <1>1, <1>8
    <2>4. rows[i][j].at = rows[m][l].at
      BY <1>14, <2>2
    <2> QED BY <1>8, <2>3, <2>4
  <1> HIDE DEF s, t
  <1>15. Apart(s \o t)
    BY <1>9, <1>11, <1>13, <1>14, ApartJoin DEF s
  <1> QED BY <1>6, <1>8, <1>10, <1>15 DEF s, t

\* Some of its elements.
LEMMA ApartWhere ==
    ASSUME NEW s, IsList(s), Apart(s), NEW S \in SUBSET DOMAIN s
    PROVE  Apart(Where(s, S))
  <1>1. S \in SUBSET Int /\ IsFiniteSet(S)
    <2>1. DOMAIN s = 1..Len(s) /\ Len(s) \in Nat
      BY ListFacts
    <2>2. IsFiniteSet(1..Len(s))
      BY <2>1, FS_Interval
    <2> QED BY <2>1, <2>2, FS_Subset
  <1> DEFINE n == Cardinality(S)
  <1>2. PICK e : Lists(e, n, S) /\ Where(s, S) = Through(s, e, n)
    BY <1>1, WhereEnumerates
  <1> HIDE DEF n
  <1>3. /\ n \in Nat /\ DOMAIN Where(s, S) = 1..n
        /\ \A k \in 1..n : Where(s, S)[k] = s[e[k]] /\ e[k] \in DOMAIN s
        /\ \A i, j \in 1..n : i < j => e[i] < e[j]
    BY <1>2 DEF Lists, Through
  <1>4. ASSUME NEW i \in 1..n, NEW j \in 1..n, s[e[i]].at = s[e[j]].at PROVE i = j
    <2>1. e[i] = e[j]
      BY <1>3, <1>4 DEF Apart
    <2>2. e[i] \in Int
      BY <1>1, <1>3, <1>2 DEF Lists
    <2>3. ~(i < j) /\ ~(j < i)
      BY <1>3, <2>1, <2>2
    <2> QED BY <1>3, <2>3
  <1> QED BY <1>3, <1>4 DEF Apart

------------------------------------------------------------------------------
(* Second factors: what the walk of a file reports.                        *)

\* No two statements are at the same place, and none is at that of a
\* declaration.
LEMMA PlacesApart ==
    ASSUME NEW file, AuthParsed(file)
    PROVE  Apart(Places(file))
  <1> DEFINE row(k) == [j \in DOMAIN file.decls[k].body |-> [at |-> <<k, j>>, s |-> file.decls[k].body[j]]]
             rows == [k \in DOMAIN file.decls |-> row(k)]
  <1>1. \A k \in DOMAIN file.decls : IsList(row(k))
    <2> SUFFICES ASSUME NEW k \in DOMAIN file.decls PROVE IsList(row(k))
      OBVIOUS
    <2>1. IsList(file.decls[k].body)
      BY DEF AuthParsed
    <2>2. Len(file.decls[k].body) \in Nat /\ DOMAIN file.decls[k].body = 1..Len(file.decls[k].body)
      BY <2>1, ListFacts
    <2>3. DOMAIN row(k) = 1..Len(file.decls[k].body) /\ row(k) = [i \in DOMAIN row(k) |-> row(k)[i]]
      BY <2>2
    <2> HIDE DEF row
    <2> QED BY <2>2, <2>3, FunctionIsList
  <1>2. \A k \in DOMAIN file.decls : \A j \in DOMAIN row(k) : row(k)[j].at = <<k, j>>
    OBVIOUS
  <1>3. Places(file) = FlattenSeq(rows)
    BY DEF Places
  <1> HIDE DEF row
  <1>4. \A k \in DOMAIN file.decls : Apart(row(k))
    BY <1>2 DEF Apart
  <1>5. IsList(file.decls)
    BY DEF AuthParsed
  <1>6. Len(file.decls) \in Nat /\ DOMAIN file.decls = 1..Len(file.decls)
    BY <1>5, ListFacts
  <1>7. DOMAIN rows = DOMAIN file.decls /\ rows = [k \in DOMAIN rows |-> rows[k]]
        /\ \A k \in DOMAIN file.decls : rows[k] = row(k)
    OBVIOUS
  <1> HIDE DEF rows
  <1>8. IsList(rows)
    BY <1>6, <1>7, FunctionIsList
  <1>9. \A k \in DOMAIN rows : IsList(rows[k]) /\ Apart(rows[k])
    BY <1>1, <1>4, <1>7
  <1>10. ASSUME NEW i \in DOMAIN rows, NEW m \in DOMAIN rows, NEW j \in DOMAIN rows[i],
                NEW l \in DOMAIN rows[m], rows[i][j].at = rows[m][l].at
         PROVE  i = m
    <2>1. <<i, j>> = <<m, l>>
      BY <1>2, <1>7, <1>10
    <2> QED BY <2>1
  <1>11. Apart(FlattenSeq(rows))
    BY <1>8, <1>9, <1>10, ApartFlatten
  <1> QED BY <1>3, <1>11

\* A finding of a missing second factor, as the scanner makes it.
IsMfa(f) == f.rule = "AUTH-MISSING-MFA"
MfaFinding(at, handler) == AuthFinding("AUTH-MISSING-MFA", "HIGH", at, handler)

\* A payment route that leaves its handler without a second factor.
Unguarded(p) == IsPaymentRoute(p.s) /\ p.s.wrap # "mfa"

\* A payment handler that no payment route above it names.
OwnMfa(file, k) ==
    /\ IsPaymentContext(file, file.decls[k]) /\ IsHTTPHandler(file.decls[k], "http")
    /\ ~IsDelegationOnlyHandler(file.decls[k].body) /\ ~BodyContainsMFACall(file.decls[k].body)
    /\ file.decls[k].name \notin RegisteredBefore(file, k)

\* Where a second factor is missing, and for which handler.
RoutesMissing(file) == {<<p.at, p.s.to>> : p \in {q \in Range(Places(file)) : Unguarded(q)}}
HandlersMissing(file) ==
    {<<<<k, 0>>, file.decls[k].name>> : k \in {m \in DOMAIN file.decls : OwnMfa(file, m)}}
Missing(file) == RoutesMissing(file) \cup HandlersMissing(file)

\* Its place and handler.
About(f) == <<f.at, f.handler>>

\* A list of findings, each at a place of its own, about a missing second
\* factor.
MfaList(file, fs) ==
    /\ IsList(fs) /\ Apart(fs)
    /\ \A i \in DOMAIN fs : DOMAIN fs[i] = AuthFields /\ IsMfa(fs[i]) /\ About(fs[i]) \in Missing(file)

\* No finding, or one.
LEMMA MfaShort ==
    ASSUME NEW file, NEW f, DOMAIN f = AuthFields, IsMfa(f), About(f) \in Missing(file)
    PROVE  MfaList(file, <<f>>)
  <1>1. IsList(<<f>>) /\ DOMAIN <<f>> = {1} /\ <<f>>[1] = f
    BY ShortLists
  <1> DEFINE s == <<f>>
  <1>2. IsList(s) /\ DOMAIN s = {1} /\ s[1] = f
    BY <1>1
  <1> HIDE DEF s
  <1>3. Apart(s)
    BY <1>2 DEF Apart
  <1>4. MfaList(file, s)
    BY <1>2, <1>3 DEF MfaList
  <1> QED BY <1>4 DEF s

\* No finding is a list of them.
LEMMA MfaNone ==
    ASSUME NEW file
    PROVE  MfaList(file, <<>>)
  <1>1. IsList(<<>>) /\ DOMAIN <<>> = {}
    BY ShortLists
  <1> QED BY <1>1 DEF MfaList, Apart

\* The fields of such a finding.
LEMMA MfaFindingIs ==
    ASSUME NEW at, NEW handler
    PROVE  /\ DOMAIN MfaFinding(at, handler) = AuthFields /\ IsMfa(MfaFinding(at, handler))
           /\ MfaFinding(at, handler).at = at /\ About(MfaFinding(at, handler)) = <<at, handler>>
  BY DEF MfaFinding, AuthFinding, AuthFields, IsMfa, About

\* Strategy A at one place.
LEMMA RouteMfa ==
    ASSUME NEW file, NEW p \in Range(Places(file))
    PROVE  /\ MfaList(file, CheckRouteRegistration(p))
           /\ \A j \in DOMAIN CheckRouteRegistration(p) : CheckRouteRegistration(p)[j].at = p.at
           /\ Unguarded(p) =>
                \E j \in DOMAIN CheckRouteRegistration(p) :
                   About(CheckRouteRegistration(p)[j]) = <<p.at, p.s.to>>
  <1> DEFINE f == MfaFinding(p.at, p.s.to)
             fs == CheckRouteRegistration(p)
  <1>1. fs = IF Unguarded(p) THEN <<f>> ELSE <<>>
    BY DEF CheckRouteRegistration, Unguarded, MfaFinding
  <1>2. DOMAIN f = AuthFields /\ IsMfa(f) /\ f.at = p.at /\ About(f) = <<p.at, p.s.to>>
    BY MfaFindingIs
  <1> HIDE DEF f, fs
  <1>3. CASE Unguarded(p)
    <2>1. <<p.at, p.s.to>> \in Missing(file)
      BY <1>3 DEF Missing, RoutesMissing
    <2>2. MfaList(file, <<f>>)
      BY <1>2, <2>1, MfaShort
    <2>3. DOMAIN <<f>> = {1} /\ <<f>>[1] = f
      BY ShortLists
    <2>4. MfaList(file, fs) /\ DOMAIN fs = {1} /\ fs[1] = f
      BY <1>1, <1>3, <2>2, <2>3
    <2> QED BY <1>2, <2>4 DEF fs
  <1>4. CASE ~Unguarded(p)
    <2>1. DOMAIN <<>> = {} /\ MfaList(file, <<>>)
      BY ShortLists, MfaNone
    <2>2. MfaList(file, fs) /\ DOMAIN fs = {}
      BY <1>1, <1>4, <2>1
    <2> QED BY <1>4, <2>2 DEF fs
  <1> QED BY <1>3, <1>4

\* Strategy B at one declaration.
LEMMA HandlerMfa ==
    ASSUME NEW file, NEW k \in DOMAIN file.decls
    PROVE  LET fs == CheckPaymentHandler(file, k, RegisteredBefore(file, k))
           IN  /\ MfaList(file, fs)
               /\ \A j \in DOMAIN fs : fs[j].at = <<k, 0>>
               /\ OwnMfa(file, k) => \E j \in DOMAIN fs : About(fs[j]) = <<<<k, 0>>, file.decls[k].name>>
  <1> DEFINE at == <<k, 0>>
             f == MfaFinding(at, file.decls[k].name)
             fs == CheckPaymentHandler(file, k, RegisteredBefore(file, k))
  <1>1. fs = IF OwnMfa(file, k) THEN <<f>> ELSE <<>>
    BY DEF CheckPaymentHandler, OwnMfa, MfaFinding
  <1>2. DOMAIN f = AuthFields /\ IsMfa(f) /\ f.at = at /\ About(f) = <<at, file.decls[k].name>>
    BY MfaFindingIs
  <1> HIDE DEF f, fs
  <1>3. CASE OwnMfa(file, k)
    <2>1. <<at, file.decls[k].name>> \in Missing(file)
      BY <1>3 DEF Missing, HandlersMissing
    <2>2. MfaList(file, <<f>>)
      BY <1>2, <2>1, MfaShort
    <2>3. DOMAIN <<f>> = {1} /\ <<f>>[1] = f
      BY ShortLists
    <2>4. MfaList(file, fs) /\ DOMAIN fs = {1} /\ fs[1] = f
      BY <1>1, <1>3, <2>2, <2>3
    <2> QED BY <1>2, <2>4 DEF fs
  <1>4. CASE ~OwnMfa(file, k)
    <2>1. DOMAIN <<>> = {} /\ MfaList(file, <<>>)
      BY ShortLists, MfaNone
    <2>2. MfaList(file, fs) /\ DOMAIN fs = {}
      BY <1>1, <1>4, <2>1
    <2> QED BY <1>4, <2>2 DEF fs
  <1> QED BY <1>3, <1>4

\* Such lists, one after another.
LEMMA MfaJoin ==
    ASSUME NEW file, NEW s, NEW t, MfaList(file, s), MfaList(file, t),
           \A i \in DOMAIN s : \A j \in DOMAIN t : s[i].at # t[j].at
    PROVE  MfaList(file, s \o t)
  <1>1. IsList(s) /\ IsList(t) /\ Apart(s) /\ Apart(t)
    BY DEF MfaList
  <1>2. Apart(s \o t)
    BY <1>1, ApartJoin
  <1>3. /\ IsList(s \o t)
        /\ \A k \in DOMAIN (s \o t) :
              \/ k \in DOMAIN s /\ (s \o t)[k] = s[k]
              \/ k - Len(s) \in DOMAIN t /\ (s \o t)[k] = t[k - Len(s)]
    BY <1>1, ListJoin
  <1> QED BY <1>2, <1>3 DEF MfaList

\* Many of them, joined.
LEMMA MfaFlatten ==
    ASSUME NEW file, NEW rows, IsList(rows), \A i \in DOMAIN rows : MfaList(file, rows[i]),
           \A i, m \in DOMAIN rows : \A j \in DOMAIN rows[i] : \A l \in DOMAIN rows[m] :
              rows[i][j].at = rows[m][l].at => i = m
    PROVE  MfaList(file, FlattenSeq(rows))
  <1>1. \A i \in DOMAIN rows : IsList(rows[i]) /\ Apart(rows[i])
    BY DEF MfaList
  <1>2. Apart(FlattenSeq(rows))
    BY <1>1, ApartFlatten
  <1>3. /\ IsList(FlattenSeq(rows))
        /\ \A k \in DOMAIN FlattenSeq(rows) :
              \E i \in DOMAIN rows : \E j \in DOMAIN rows[i] : FlattenSeq(rows)[k] = rows[i][j]
    BY <1>1, ListFlatten
  <1> QED BY <1>2, <1>3 DEF MfaList

\* The findings of one declaration: its own and those of the routes in it.
CheckedRoutes(file, k) ==
    LET all == Places(file)
        routes == Where(all, {i \in DOMAIN all : all[i].at[1] = k})
    IN  [j \in DOMAIN routes |-> CheckRouteRegistration(routes[j])]
OwnFindings(file, k) == CheckPaymentHandler(file, k, RegisteredBefore(file, k))
DeclFindings(file, k) == OwnFindings(file, k) \o FlattenSeq(CheckedRoutes(file, k))

\* The findings of the routes of a declaration are at the routes.
LEMMA RoutesMfa ==
    ASSUME NEW file, AuthParsed(file), NEW k \in DOMAIN file.decls
    PROVE  LET fs == FlattenSeq(CheckedRoutes(file, k))
           IN  /\ MfaList(file, fs)
               /\ \A j \in DOMAIN fs : \E n \in DOMAIN file.decls[k].body : fs[j].at = <<k, n>>
               /\ \A p \in Range(Places(file)) : Unguarded(p) /\ p.at[1] = k =>
                     \E j \in DOMAIN fs : About(fs[j]) = <<p.at, p.s.to>>
  <1> DEFINE all == Places(file)
             S == {i \in DOMAIN all : all[i].at[1] = k}
             r == Where(all, S)
             c == CheckedRoutes(file, k)
             fs == FlattenSeq(c)
  <1>1. IsList(all) /\ \A i \in DOMAIN all : \E m \in DOMAIN file.decls : \E n \in DOMAIN file.decls[m].body :
                         PlaceAt(file, all[i], m, n)
    BY PlacesListed
  <1>2. Apart(all)
    BY PlacesApart
  <1>3. S \in SUBSET DOMAIN all /\ \A i : i \in S <=> i \in DOMAIN all /\ all[i].at[1] = k
    OBVIOUS
  <1>4. c = [j \in DOMAIN r |-> CheckRouteRegistration(r[j])]
    BY DEF CheckedRoutes
  <1>5. \A i \in DOMAIN all : all[i] \in Range(all)
    BY DEF Range
  <1>6. \A p \in Range(all) : \E i \in DOMAIN all : p = all[i]
    BY DEF Range
  <1>7. \A p \in Range(all) :
           /\ MfaList(file, CheckRouteRegistration(p))
           /\ \A j \in DOMAIN CheckRouteRegistration(p) : CheckRouteRegistration(p)[j].at = p.at
           /\ Unguarded(p) =>
                \E j \in DOMAIN CheckRouteRegistration(p) :
                   About(CheckRouteRegistration(p)[j]) = <<p.at, p.s.to>>
    BY RouteMfa
  <1> HIDE DEF S, all, c
  <1>8. /\ IsList(r)
        /\ \A i \in DOMAIN r : \E l \in S : r[i] = all[l]
        /\ \A l \in S : \E i \in DOMAIN r : r[i] = all[l]
    BY <1>1, <1>3, ListWhere
  <1>9. Apart(r)
    BY <1>1, <1>2, <1>3, ApartWhere
  <1> HIDE DEF r
  <1>10. Len(r) \in Nat /\ DOMAIN r = 1..Len(r)
    BY <1>8, ListFacts
  <1>11. /\ DOMAIN c = 1..Len(r) /\ c = [j \in DOMAIN c |-> c[j]] /\ DOMAIN c = DOMAIN r
         /\ \A j \in DOMAIN r : c[j] = CheckRouteRegistration(r[j])
    BY <1>4, <1>10
  <1>12. IsList(c)
    BY <1>10, <1>11, FunctionIsList
  <1>13. \A j \in DOMAIN r : r[j] \in Range(all) /\ r[j].at[1] = k
    BY <1>3, <1>5, <1>8
  <1>14. \A j \in DOMAIN c : /\ MfaList(file, c[j])
                             /\ \A i \in DOMAIN c[j] : c[j][i].at = r[j].at
    BY <1>7, <1>11, <1>13
  <1>15. ASSUME NEW i \in DOMAIN c, NEW m \in DOMAIN c, NEW j \in DOMAIN c[i], NEW l \in DOMAIN c[m],
                c[i][j].at = c[m][l].at
         PROVE  i = m
    <2>1. r[i].at = r[m].at
      BY <1>14, <1>15
    <2> QED BY <1>9, <1>11, <2>1 DEF Apart
  <1>16. MfaList(file, FlattenSeq(c))
    BY <1>12, <1>14, <1>15, MfaFlatten
  <1>17. \A j \in DOMAIN c : IsList(c[j])
    BY <1>14 DEF MfaList
  <1>18. /\ \A i \in DOMAIN FlattenSeq(c) :
              \E m \in DOMAIN c : \E j \in DOMAIN c[m] : FlattenSeq(c)[i] = c[m][j]
         /\ \A m \in DOMAIN c : \A j \in DOMAIN c[m] :
              \E i \in DOMAIN FlattenSeq(c) : FlattenSeq(c)[i] = c[m][j]
    BY <1>12, <1>17, ListFlatten
  <1>19. ASSUME NEW i \in DOMAIN fs PROVE \E n \in DOMAIN file.decls[k].body : fs[i].at = <<k, n>>
    <2>1. PICK m \in DOMAIN c : \E j \in DOMAIN c[m] : fs[i] = c[m][j]
      BY <1>18
    <2>2. fs[i].at = r[m].at /\ r[m].at[1] = k /\ r[m] \in Range(all)
      BY <1>11, <1>13, <1>14, <2>1
    <2>3. PICK l \in DOMAIN all : r[m] = all[l]
      BY <1>6, <2>2
    <2>4. PICK d \in DOMAIN file.decls : \E n \in DOMAIN file.decls[d].body : PlaceAt(file, all[l], d, n)
      BY <1>1
    <2>5. PICK n \in DOMAIN file.decls[d].body : PlaceAt(file, all[l], d, n)
      BY <2>4
    <2>6. r[m].at = <<d, n>>
      BY <2>3, <2>5 DEF PlaceAt
    <2>7. d = k
      BY <2>2, <2>6
    <2> QED BY <2>2, <2>6, <2>7
  <1>20. ASSUME NEW p \in Range(all), Unguarded(p), p.at[1] = k
         PROVE  \E i \in DOMAIN fs : About(fs[i]) = <<p.at, p.s.to>>
    <2>1. PICK l \in DOMAIN all : p = all[l]
      BY <1>6
    <2>2. l \in S
      BY <1>3, <1>20, <2>1
    <2>3. PICK m \in DOMAIN r : r[m] = p
      BY <1>8, <2>1, <2>2
    <2>4. \E j \in DOMAIN c[m] : About(c[m][j]) = <<p.at, p.s.to>>
      BY <1>7, <1>11, <1>20, <2>3
    <2> QED BY <1>11, <1>18, <2>4
  <1> QED BY <1>16, <1>19, <1>20 DEF c, all

\* Those of a declaration are at the declaration or in its body.
LEMMA DeclMfa ==
    ASSUME NEW file, AuthParsed(file), NEW k \in DOMAIN file.decls
    PROVE  LET fs == DeclFindings(file, k)
           IN  /\ MfaList(file, fs)
               /\ \A j \in DOMAIN fs : \E n : fs[j].at = <<k, n>>
               /\ OwnMfa(file, k) => \E j \in DOMAIN fs : About(fs[j]) = <<<<k, 0>>, file.decls[k].name>>
               /\ \A p \in Range(Places(file)) : Unguarded(p) /\ p.at[1] = k =>
                     \E j \in DOMAIN fs : About(fs[j]) = <<p.at, p.s.to>>
  <1> DEFINE s == OwnFindings(file, k)
             t == FlattenSeq(CheckedRoutes(file, k))
  <1>1. /\ MfaList(file, s)
        /\ \A j \in DOMAIN s : s[j].at = <<k, 0>>
        /\ OwnMfa(file, k) => \E j \in DOMAIN s : About(s[j]) = <<<<k, 0>>, file.decls[k].name>>
    BY HandlerMfa DEF OwnFindings
  <1>2. /\ MfaList(file, t)
        /\ \A j \in DOMAIN t : \E n \in DOMAIN file.decls[k].body : t[j].at = <<k, n>>
        /\ \A p \in Range(Places(file)) : Unguarded(p) /\ p.at[1] = k =>
              \E j \in DOMAIN t : About(t[j]) = <<p.at, p.s.to>>
    BY RoutesMfa
  <1>3. DeclFindings(file, k) = s \o t
    BY DEF DeclFindings
  <1> HIDE DEF s, t
  <1>4. IsList(file.decls[k].body)
    BY DEF AuthParsed
  <1>5. 0 \notin DOMAIN file.decls[k].body
    <2>1. DOMAIN file.decls[k].body = 1..Len(file.decls[k].body)
      BY <1>4, ListFacts
    <2> QED BY <2>1
  <1>6. ASSUME NEW i \in DOMAIN s, NEW j \in DOMAIN t, s[i].at = t[j].at PROVE FALSE
    <2>1. PICK n \in DOMAIN file.decls[k].body : t[j].at = <<k, n>>
      BY <1>2
    <2>2. <<k, 0>> = <<k, n>>
      BY <1>1, <1>6, <2>1
    <2>3. n = 0
      BY <2>2
    <2> QED BY <1>5, <2>3
  <1>7. MfaList(file, s \o t)
    BY <1>1, <1>2, <1>6, MfaJoin
  <1>8. IsList(s) /\ IsList(t)
    BY <1>1, <1>2 DEF MfaList
  <1> DEFINE u == s \o t
  <1>13. Follows(u, s, t)
    BY <1>8, JoinFollows
  <1>14. MfaList(file, u)
    BY <1>7
  <1> HIDE DEF u
  <1>9. /\ \A i \in DOMAIN s : i \in DOMAIN u /\ u[i] = s[i]
        /\ \A i \in DOMAIN t : Len(s) + i \in DOMAIN u /\ u[Len(s) + i] = t[i]
        /\ \A i \in DOMAIN u :
              \/ i \in DOMAIN s /\ u[i] = s[i]
              \/ i - Len(s) \in DOMAIN t /\ u[i] = t[i - Len(s)]
    BY <1>13 DEF Follows
  <1>10. \A j \in DOMAIN u : \E n : u[j].at = <<k, n>>
    BY <1>1, <1>2, <1>9
  <1>11. OwnMfa(file, k) => \E j \in DOMAIN u : About(u[j]) = <<<<k, 0>>, file.decls[k].name>>
    BY <1>1, <1>9
  <1>12. ASSUME NEW p \in Range(Places(file)), Unguarded(p), p.at[1] = k
         PROVE  \E j \in DOMAIN u : About(u[j]) = <<p.at, p.s.to>>
    <2>1. PICK j \in DOMAIN t : About(t[j]) = <<p.at, p.s.to>>
      BY <1>2, <1>12
    <2>2. Len(s) + j \in DOMAIN u /\ u[Len(s) + j] = t[j]
      BY <1>9
    <2> QED BY <2>1, <2>2
  <1>15. DeclFindings(file, k) = u
    BY <1>3 DEF u
  <1> QED BY <1>10, <1>11, <1>12, <1>14, <1>15

\* The walk reports exactly where a second factor is missing.
LEMMA MfaDetected ==
    ASSUME NEW file, AuthParsed(file)
    PROVE  /\ MfaList(file, DetectMissingMFA(file))
           /\ \A e \in Missing(file) :
                \E i \in DOMAIN DetectMissingMFA(file) : About(DetectMissingMFA(file)[i]) = e
  <1> DEFINE rows == [k \in DOMAIN file.decls |-> DeclFindings(file, k)]
             fs == DetectMissingMFA(file)
             all == Places(file)
  <1>1. fs = FlattenSeq(rows)
    BY DEF DetectMissingMFA, DeclFindings, OwnFindings, CheckedRoutes
  <1>2. IsList(file.decls)
    BY DEF AuthParsed
  <1>3. Len(file.decls) \in Nat /\ DOMAIN file.decls = 1..Len(file.decls)
    BY <1>2, ListFacts
  <1>4. /\ DOMAIN rows = DOMAIN file.decls /\ rows = [k \in DOMAIN rows |-> rows[k]]
        /\ \A k \in DOMAIN file.decls : rows[k] = DeclFindings(file, k)
    OBVIOUS
  <1> HIDE DEF rows, fs
  <1>5. IsList(rows)
    BY <1>3, <1>4, FunctionIsList
  <1>6. \A k \in DOMAIN rows :
           /\ MfaList(file, rows[k])
           /\ \A j \in DOMAIN rows[k] : \E n : rows[k][j].at = <<k, n>>
           /\ OwnMfa(file, k) => \E j \in DOMAIN rows[k] : About(rows[k][j]) = <<<<k, 0>>, file.decls[k].name>>
           /\ \A p \in Range(all) : Unguarded(p) /\ p.at[1] = k =>
                 \E j \in DOMAIN rows[k] : About(rows[k][j]) = <<p.at, p.s.to>>
    BY <1>4, DeclMfa
  <1>7. ASSUME NEW i \in DOMAIN rows, NEW m \in DOMAIN rows, NEW j \in DOMAIN rows[i],
               NEW l \in DOMAIN rows[m], rows[i][j].at = rows[m][l].at
        PROVE  i = m
    <2>1. PICK a, b : rows[i][j].at = <<i, a>> /\ rows[m][l].at = <<m, b>>
      BY <1>6
    <2>2. <<i, a>> = <<m, b>>
      BY <1>7, <2>1
    <2> QED BY <2>2
  <1>8. MfaList(file, FlattenSeq(rows))
    BY <1>5, <1>6, <1>7, MfaFlatten
  <1>9. \A k \in DOMAIN rows : IsList(rows[k])
    BY <1>6 DEF MfaList
  <1>10. \A k \in DOMAIN rows : \A j \in DOMAIN rows[k] :
            \E i \in DOMAIN FlattenSeq(rows) : FlattenSeq(rows)[i] = rows[k][j]
    BY <1>5, <1>9, ListFlatten
  <1>11. ASSUME NEW e \in Missing(file) PROVE \E i \in DOMAIN fs : About(fs[i]) = e
    <2>1. CASE e \in RoutesMissing(file)
      <3>1. PICK p \in Range(all) : Unguarded(p) /\ e = <<p.at, p.s.to>>
        BY <2>1 DEF RoutesMissing
      <3>2. PICK l \in DOMAIN all : p = all[l]
        BY DEF Range
      <3>3. PICK k \in DOMAIN file.decls : \E n \in DOMAIN file.decls[k].body : PlaceAt(file, all[l], k, n)
        BY PlacesListed
      <3>4. p.at[1] = k
        BY <3>2, <3>3 DEF PlaceAt
      <3>5. k \in DOMAIN rows
        BY <1>4
      <3>6. \E j \in DOMAIN rows[k] : About(rows[k][j]) = e
        BY <1>6, <3>1, <3>4, <3>5
      <3> QED BY <1>1, <1>10, <3>5, <3>6
    <2>2. CASE e \in HandlersMissing(file)
      <3>1. PICK k \in DOMAIN file.decls : OwnMfa(file, k) /\ e = <<<<k, 0>>, file.decls[k].name>>
        BY <2>2 DEF HandlersMissing
      <3>2. k \in DOMAIN rows
        BY <1>4
      <3>3. \E j \in DOMAIN rows[k] : About(rows[k][j]) = e
        BY <1>6, <3>1, <3>2
      <3> QED BY <1>1, <1>10, <3>2, <3>3
    <2> QED BY <2>1, <2>2 DEF Missing
  <1> QED BY <1>1, <1>8, <1>11 DEF fs

\* The downgrade changes severities only.
LEMMA MfaDowngraded ==
    ASSUME NEW file, NEW fs, MfaList(file, fs)
    PROVE  /\ MfaList(file, ApplyS2SDowngrade(file, fs))
           /\ DOMAIN ApplyS2SDowngrade(file, fs) = DOMAIN fs
           /\ \A i \in DOMAIN fs : About(ApplyS2SDowngrade(file, fs)[i]) = About(fs[i])
  <1> DEFINE gs == ApplyS2SDowngrade(file, fs)
  <1>1. IsList(fs) /\ Apart(fs)
        /\ \A i \in DOMAIN fs : DOMAIN fs[i] = AuthFields /\ IsMfa(fs[i]) /\ About(fs[i]) \in Missing(file)
    BY DEF MfaList
  <1>2. Len(fs) \in Nat /\ DOMAIN fs = 1..Len(fs)
    BY <1>1, ListFacts
  <1>3. gs = [k \in DOMAIN fs |-> S2SDowngraded(file, fs[k])]
    BY DEF ApplyS2SDowngrade
  <1>4. ASSUME NEW f, DOMAIN f = AuthFields
        PROVE  LET h == S2SDowngraded(file, f)
               IN  DOMAIN h = AuthFields /\ h.rule = f.rule /\ h.at = f.at /\ h.handler = f.handler
    <2> DEFINE g == [f EXCEPT !.sev = "INFO"]
    <2>1. DOMAIN g = AuthFields /\ g.rule = f.rule /\ g.at = f.at /\ g.handler = f.handler
      BY <1>4 DEF AuthFields
    <2>2. S2SDowngraded(file, f) \in {f, g}
      BY DEF S2SDowngraded
    <2> HIDE DEF g
    <2> QED BY <1>4, <2>1, <2>2
  <1> HIDE DEF gs
  <1>5. DOMAIN gs = 1..Len(fs) /\ gs = [k \in DOMAIN gs |-> gs[k]]
    BY <1>2, <1>3
  <1>6. IsList(gs)
    BY <1>2, <1>5, FunctionIsList
  <1>7. \A i \in DOMAIN fs : /\ DOMAIN gs[i] = AuthFields /\ gs[i].rule = fs[i].rule
                             /\ gs[i].at = fs[i].at /\ gs[i].handler = fs[i].handler
    BY <1>1, <1>3, <1>4
  <1>8. DOMAIN gs = DOMAIN fs
    BY <1>2, <1>5
  <1>9. Apart(gs)
    BY <1>1, <1>7, <1>8 DEF Apart
  <1>10. \A i \in DOMAIN fs : About(gs[i]) = About(fs[i]) /\ (IsMfa(gs[i]) <=> IsMfa(fs[i]))
    BY <1>7 DEF About, IsMfa
  <1>11. MfaList(file, gs)
    BY <1>1, <1>6, <1>7, <1>8, <1>9, <1>10 DEF MfaList
  <1> QED BY <1>8, <1>10, <1>11 DEF gs

\* A list without findings of a rule.
Lacks(rule, fs) == IsList(fs) /\ \A k \in DOMAIN fs : fs[k].rule # rule

\* So is one such list after another.
LEMMA LacksJoin ==
    ASSUME NEW rule, NEW s, NEW t, Lacks(rule, s), Lacks(rule, t)
    PROVE  Lacks(rule, s \o t)
  <1>1. IsList(s) /\ IsList(t)
    BY DEF Lacks
  <1>2. /\ IsList(s \o t)
        /\ \A k \in DOMAIN (s \o t) :
              \/ k \in DOMAIN s /\ (s \o t)[k] = s[k]
              \/ k - Len(s) \in DOMAIN t /\ (s \o t)[k] = t[k - Len(s)]
    BY <1>1, ListJoin
  <1> QED BY <1>2 DEF Lacks

\* So is a join of many such lists.
LEMMA LacksFlatten ==
    ASSUME NEW rule, NEW rows, IsList(rows), \A i \in DOMAIN rows : Lacks(rule, rows[i])
    PROVE  Lacks(rule, FlattenSeq(rows))
  <1>1. \A i \in DOMAIN rows : IsList(rows[i])
    BY DEF Lacks
  <1>2. /\ IsList(FlattenSeq(rows))
        /\ \A k \in DOMAIN FlattenSeq(rows) :
              \E i \in DOMAIN rows : \E j \in DOMAIN rows[i] : FlattenSeq(rows)[k] = rows[i][j]
    BY <1>1, ListFlatten
  <1> QED BY <1>2 DEF Lacks

\* One finding of another rule, or none.
LEMMA LacksShort ==
    ASSUME NEW rule, NEW f, f.rule # rule
    PROVE  Lacks(rule, <<f>>) /\ Lacks(rule, <<>>)
  <1>1. /\ IsList(<<>>) /\ DOMAIN <<>> = {}
        /\ IsList(<<f>>) /\ DOMAIN <<f>> = {1} /\ <<f>>[1] = f
    BY ShortLists
  <1> QED BY <1>1 DEF Lacks

\* Passwords are reported under a rule of their own.
LEMMA PasswordsLack ==
    ASSUME NEW file, AuthParsed(file), NEW rule, rule # "AUTH-HARDCODED-PWD"
    PROVE  Lacks(rule, DetectHardcodedPasswords(file))
  <1> DEFINE found == PlacesOf(file, {"password", "setenv"})
             fs == DetectHardcodedPasswords(file)
  <1>1. IsList(found)
    BY PlacesOfKind
  <1>2. Len(found) \in Nat /\ DOMAIN found = 1..Len(found)
    BY <1>1, ListFacts
  <1>3. fs = [k \in DOMAIN found |-> AuthFinding("AUTH-HARDCODED-PWD",
                PasswordSeverity(found[k].s, file.place), found[k].at, "")]
    BY DEF DetectHardcodedPasswords
  <1> HIDE DEF found, fs
  <1>4. /\ DOMAIN fs = 1..Len(found) /\ fs = [k \in DOMAIN fs |-> fs[k]]
        /\ \A k \in DOMAIN fs : fs[k].rule # rule
    BY <1>2, <1>3 DEF AuthFinding
  <1>5. IsList(fs)
    BY <1>2, <1>4, FunctionIsList
  <1>6. Lacks(rule, fs)
    BY <1>4, <1>5 DEF Lacks
  <1> QED BY <1>6 DEF fs

\* So are length policies.
LEMMA PolicyLacks ==
    ASSUME NEW file, AuthParsed(file), NEW rule, rule \notin {"AUTH-WEAK-POLICY", "AUTH-BYTE-COUNT"}
    PROVE  Lacks(rule, DetectWeakPasswordPolicy(file))
  <1> DEFINE checks == PlacesOf(file, {"len"})
             S == {i \in DOMAIN checks : IsWeakThreshold(NormalizeLenComparison(checks[i].s), checks[i].s.n)}
             weak == Where(checks, S)
             rows == [k \in DOMAIN weak |-> PolicyFlag(weak[k])]
  <1>1. DetectWeakPasswordPolicy(file) = FlattenSeq(rows)
    BY DEF DetectWeakPasswordPolicy, PolicyFlag
  <1>2. IsList(checks)
    BY PlacesOfKind
  <1>3. S \in SUBSET DOMAIN checks
    OBVIOUS
  <1> HIDE DEF S, checks
  <1>4. IsList(weak)
    BY <1>2, <1>3, ListWhere
  <1> HIDE DEF weak
  <1>5. Len(weak) \in Nat /\ DOMAIN weak = 1..Len(weak)
    BY <1>4, ListFacts
  <1>6. ASSUME NEW p PROVE Lacks(rule, PolicyFlag(p))
    <2> DEFINE f == AuthFinding("AUTH-WEAK-POLICY", "CRITICAL", p.at, "")
               g == AuthFinding("AUTH-BYTE-COUNT", "MEDIUM", p.at, "")
    <2>1. f.rule # rule /\ g.rule # rule
      BY DEF AuthFinding
    <2>2. PolicyFlag(p) = <<f>> \o IF p.s.to = "bytes" THEN <<g>> ELSE <<>>
      BY DEF PolicyFlag
    <2> HIDE DEF f, g
    <2>3. Lacks(rule, <<f>>) /\ Lacks(rule, <<g>>) /\ Lacks(rule, <<>>)
      BY <2>1, LacksShort
    <2>4. \A t : Lacks(rule, t) => Lacks(rule, <<f>> \o t)
      BY <2>3, LacksJoin
    <2> QED BY <2>2, <2>3, <2>4
  <1>7. DOMAIN rows = 1..Len(weak) /\ rows = [k \in DOMAIN rows |-> rows[k]]
        /\ \A k \in DOMAIN rows : Lacks(rule, rows[k])
    BY <1>5, <1>6
  <1> HIDE DEF rows
  <1>8. IsList(rows)
    BY <1>5, <1>7, FunctionIsList
  <1> QED BY <1>1, <1>7, <1>8, LacksFlatten

\* A list without findings about second factors.
NoMfa(fs) == IsList(fs) /\ \A k \in DOMAIN fs : ~IsMfa(fs[k])

\* So is one such list after another.
LEMMA NoMfaJoin ==
    ASSUME NEW s, NEW t, NoMfa(s), NoMfa(t)
    PROVE  NoMfa(s \o t)
  <1>1. IsList(s) /\ IsList(t)
    BY DEF NoMfa
  <1>2. /\ IsList(s \o t)
        /\ \A k \in DOMAIN (s \o t) :
              \/ k \in DOMAIN s /\ (s \o t)[k] = s[k]
              \/ k - Len(s) \in DOMAIN t /\ (s \o t)[k] = t[k - Len(s)]
    BY <1>1, ListJoin
  <1> QED BY <1>2 DEF NoMfa

\* One other finding, or none.
LEMMA NoMfaShort ==
    ASSUME NEW f, ~IsMfa(f)
    PROVE  NoMfa(<<f>>) /\ NoMfa(<<>>)
  <1>1. /\ IsList(<<>>) /\ DOMAIN <<>> = {}
        /\ IsList(<<f>>) /\ DOMAIN <<f>> = {1} /\ <<f>>[1] = f
    BY ShortLists
  <1> QED BY <1>1 DEF NoMfa

\* That is a list that lacks the rule.
LEMMA NoMfaLacks ==
    ASSUME NEW fs
    PROVE  NoMfa(fs) <=> Lacks("AUTH-MISSING-MFA", fs)
  BY DEF NoMfa, Lacks, IsMfa

\* Passwords.
LEMMA PasswordsNoMfa ==
    ASSUME NEW file, AuthParsed(file)
    PROVE  NoMfa(DetectHardcodedPasswords(file))
  <1>1. Lacks("AUTH-MISSING-MFA", DetectHardcodedPasswords(file))
    BY PasswordsLack
  <1> QED BY <1>1, NoMfaLacks

\* Length policies.
LEMMA PolicyNoMfa ==
    ASSUME NEW file, AuthParsed(file)
    PROVE  NoMfa(DetectWeakPasswordPolicy(file))
  <1>1. Lacks("AUTH-MISSING-MFA", DetectWeakPasswordPolicy(file))
    BY PolicyLacks
  <1> QED BY <1>1, NoMfaLacks

\* Webhook handlers.
LEMMA WebhookNoMfa ==
    ASSUME NEW file, NEW k, NEW v
    PROVE  NoMfa(<<WebhookFinding(file, k, v)>>)
  <1> DEFINE f == WebhookFinding(file, k, v)
  <1>1. ~IsMfa(f)
    BY DEF WebhookFinding, AuthFinding, IsMfa
  <1> HIDE DEF f
  <1>2. NoMfa(<<f>>)
    BY <1>1, NoMfaShort
  <1> QED BY <1>2 DEF f

\* The findings of second factors in fs, if they are those of a file.
MfaFound(file, fs) ==
    /\ \A i, j \in DOMAIN fs : IsMfa(fs[i]) /\ IsMfa(fs[j]) /\ fs[i].at = fs[j].at => i = j
    /\ \A i \in DOMAIN fs : IsMfa(fs[i]) => About(fs[i]) \in Missing(file)
    /\ \A e \in Missing(file) : \E i \in DOMAIN fs : IsMfa(fs[i]) /\ About(fs[i]) = e

\* They are, once the walk's findings are appended to others.
LEMMA MfaAdded ==
    ASSUME NEW file, AuthParsed(file), NEW fs, NoMfa(fs)
    PROVE  MfaFound(file, fs \o ApplyS2SDowngrade(file, DetectMissingMFA(file)))
  <1> DEFINE ds == DetectMissingMFA(file)
             t == ApplyS2SDowngrade(file, ds)
             u == fs \o t
  <1>1. MfaList(file, ds) /\ \A e \in Missing(file) : \E i \in DOMAIN ds : About(ds[i]) = e
    BY MfaDetected
  <1> HIDE DEF ds
  <1>2. MfaList(file, t) /\ DOMAIN t = DOMAIN ds /\ \A i \in DOMAIN ds : About(t[i]) = About(ds[i])
    BY <1>1, MfaDowngraded
  <1> HIDE DEF t
  <1>3. IsList(fs) /\ IsList(t) /\ Apart(t) /\ (\A k \in DOMAIN fs : ~IsMfa(fs[k]))
        /\ \A i \in DOMAIN t : IsMfa(t[i]) /\ About(t[i]) \in Missing(file)
    BY <1>2 DEF NoMfa, MfaList
  <1>4. /\ \A k \in DOMAIN t : Len(fs) + k \in DOMAIN u /\ u[Len(fs) + k] = t[k]
        /\ \A k \in DOMAIN u :
              \/ k \in DOMAIN fs /\ u[k] = fs[k]
              \/ k - Len(fs) \in DOMAIN t /\ u[k] = t[k - Len(fs)]
        /\ IsList(u)
    <2>1. Follows(u, fs, t)
      BY <1>3, JoinFollows
    <2> HIDE DEF u
    <2> QED BY <2>1 DEF Follows
  <1> HIDE DEF u
  <1>5. DOMAIN u \subseteq Int /\ Len(fs) \in Nat
    BY <1>3, <1>4, ListFacts
  <1>6. \A k \in DOMAIN u : IsMfa(u[k]) => k - Len(fs) \in DOMAIN t /\ u[k] = t[k - Len(fs)]
    BY <1>3, <1>4
  <1>7. ASSUME NEW i \in DOMAIN u, NEW j \in DOMAIN u, IsMfa(u[i]), IsMfa(u[j]), u[i].at = u[j].at
        PROVE  i = j
    <2>1. i - Len(fs) = j - Len(fs)
      BY <1>3, <1>6, <1>7 DEF Apart
    <2> QED BY <1>5, <2>1
  <1>8. \A i \in DOMAIN u : IsMfa(u[i]) => About(u[i]) \in Missing(file)
    BY <1>3, <1>6
  <1>9. ASSUME NEW e \in Missing(file) PROVE \E i \in DOMAIN u : IsMfa(u[i]) /\ About(u[i]) = e
    <2>1. PICK i \in DOMAIN t : About(t[i]) = e
      BY <1>1, <1>2
    <2>2. Len(fs) + i \in DOMAIN u /\ u[Len(fs) + i] = t[i] /\ IsMfa(t[i])
      BY <1>3, <1>4
    <2> QED BY <2>1, <2>2
  <1>10. MfaFound(file, u)
    BY <1>7, <1>8, <1>9 DEF MfaFound
  <1> QED BY <1>10 DEF u, t, ds

\* They remain so when other findings follow.
LEMMA MfaKept ==
    ASSUME NEW file, NEW fs, IsList(fs), NEW t, NoMfa(t)
    PROVE  /\ MfaFound(file, fs) => MfaFound(file, fs \o t)
           /\ NoMfa(fs) => NoMfa(fs \o t)
  <1> DEFINE u == fs \o t
  <1>1. IsList(t) /\ \A k \in DOMAIN t : ~IsMfa(t[k])
    BY DEF NoMfa
  <1>6. Follows(u, fs, t)
    BY <1>1, JoinFollows
  <1> HIDE DEF u
  <1>2. /\ \A k \in DOMAIN fs : k \in DOMAIN u /\ u[k] = fs[k]
        /\ \A k \in DOMAIN u :
              \/ k \in DOMAIN fs /\ u[k] = fs[k]
              \/ k - Len(fs) \in DOMAIN t /\ u[k] = t[k - Len(fs)]
    BY <1>6 DEF Follows
  <1>3. \A k \in DOMAIN u : IsMfa(u[k]) => k \in DOMAIN fs /\ u[k] = fs[k]
    BY <1>1, <1>2
  <1>4. MfaFound(file, fs) => MfaFound(file, u)
    BY <1>2, <1>3 DEF MfaFound
  <1>5. NoMfa(fs) => NoMfa(fs \o t)
    BY NoMfaJoin
  <1> QED BY <1>4, <1>5 DEF u

\* A scan of one file, in pass at: no finding about a second factor before
\* the pass that looks for them, and all of them after it.
MfaSoFar(file, at, w) ==
    /\ w.file = 1 /\ at \in {"start", "policy", "mfa"} => NoMfa(w.findings)
    /\ ~file.generated /\ at # "failed" /\ (at \in {"webhook", "cover"} \/ w.file > 1)
         => MfaFound(file, w.findings)

\* The inductive invariant of second factors, for scans of one file.
AuthMfaInv ==
    scanner = "auth" /\ Len(project.dirs[1].files) = 1 =>
        MfaSoFar(project.dirs[1].files[1], pc, work)

\* Passes before the one for second factors, and those after it.
MfaPasses == {{"start", "policy", "mfa"}, {"webhook", "cover"}}

\* A pass that reports something else.
LEMMA MfaSameFile ==
    ASSUME NEW file, NEW at, NEW next, NEW w, NEW v, NEW t, MfaSoFar(file, at, w), w.file = 1,
           v.file = w.file, IsList(w.findings), NoMfa(t), v.findings = w.findings \o t,
           NEW group \in MfaPasses, at \in group, next \in group
    PROVE  MfaSoFar(file, next, v)
  <1> DEFINE fs == w.findings
             gs == v.findings
  <1>1. /\ MfaFound(file, fs) => MfaFound(file, gs)
        /\ NoMfa(fs) => NoMfa(gs)
    BY MfaKept
  <1>2. (w.file > 1) = FALSE /\ (v.file > 1) = FALSE /\ v.file = 1
    OBVIOUS
  <1> HIDE DEF fs, gs
  <1>3. /\ at \in {"start", "policy", "mfa"} => NoMfa(fs)
        /\ ~file.generated /\ at \in {"webhook", "cover"} => MfaFound(file, fs)
    BY <1>2 DEF MfaSoFar, fs
  <1>4. /\ at \in {"start", "policy", "mfa"} <=> next \in {"start", "policy", "mfa"}
        /\ at \in {"webhook", "cover"} <=> next \in {"webhook", "cover"}
    BY DEF MfaPasses
  <1>5. /\ next \in {"start", "policy", "mfa"} => NoMfa(gs)
        /\ ~file.generated /\ next \in {"webhook", "cover"} => MfaFound(file, gs)
    BY <1>1, <1>3, <1>4
  <1> QED BY <1>2, <1>5 DEF MfaSoFar, gs

\* The file is done, or not looked at.
LEMMA MfaFileLeft ==
    ASSUME NEW file, NEW at, NEW w, NEW v, MfaSoFar(file, at, w), w.file = 1,
           v.file = w.file + 1, v.findings = w.findings, at = "webhook" \/ file.generated
    PROVE  MfaSoFar(file, "start", v)
  <1>1. v.file = 2
    OBVIOUS
  <1>2. ~file.generated => MfaFound(file, w.findings)
    BY DEF MfaSoFar
  <1> QED BY <1>1, <1>2 DEF MfaSoFar

\* Every pass preserves it.
LEMMA AuthMfaInductive ==
    ASSUME AuthPolicyInv, AuthMfaInv, [Next]_callVars
    PROVE  AuthMfaInv'
  <1> SUFFICES ASSUME scanner' = "auth", Len(project.dirs[1].files)' = 1 PROVE AuthMfaInv'
    BY DEF AuthMfaInv
  <1> DEFINE files == project.dirs[1].files
             file == files[1]
             w == work
             v == work'
             ok == project' = project /\ MfaSoFar(file, pc', v)
  <1>1. scanner = "auth"
    BY ScannerStays
  <1>2. /\ project \in AuthSources
        /\ DOMAIN work = AuthWork /\ work.file \in Nat \ {0} /\ IsList(work.findings)
        /\ AuthInFile(files, pc, work)
    BY <1>1 DEF AuthPolicyInv
  <1>3. IsList(files) /\ \A i \in DOMAIN files : AuthParsed(files[i])
    BY <1>2, AuthSourcesParsed
  <1>4. NoMfa(<<>>) /\ w.findings = w.findings \o <<>>
    <2>1. IsList(<<>>) /\ DOMAIN <<>> = {}
      BY ShortLists
    <2> QED BY <1>2, <2>1, NothingAdded DEF NoMfa
  <1>5. project' = project => Len(files) = 1
    OBVIOUS
  <1>6. Len(files) = 1 => /\ DOMAIN files = {1} /\ AuthParsed(file) /\ MfaSoFar(file, pc, w)
    <2>1. DOMAIN files = 1..Len(files)
      BY <1>3, ListFacts
    <2>2. Len(files) = 1 => MfaSoFar(file, pc, w)
      BY <1>1 DEF AuthMfaInv
    <2>3. Len(files) = 1 => DOMAIN files = {1}
      BY <2>1
    <2> QED BY <1>3, <2>2, <2>3
  <1>7. Len(files) = 1 /\ (work.file <= Len(files) \/ pc \in {"policy", "mfa", "webhook", "cover"})
           => w.file = 1 /\ AuthFile = file
    <2>1. Len(files) = 1 /\ pc \in {"policy", "mfa", "webhook", "cover"} => w.file = 1
      BY <1>2, <1>6 DEF AuthInFile
    <2>2. Len(files) = 1 /\ work.file <= Len(files) => w.file = 1
      BY <1>2
    <2> QED BY <2>1, <2>2 DEF AuthFile
  <1> SUFFICES ok
    BY DEF AuthMfaInv
  <1>8. CASE AuthParse
    <2>0. project' = project
      BY <1>8 DEF AuthParse, Pass
    <2>1. CASE work.file > Len(files) /\ pc = "start" /\ pc' = "done" /\ work' = work
      BY <1>5, <1>6, <2>0, <2>1 DEF MfaSoFar
    <2>2. CASE pc' = "failed"
      BY <2>0, <2>2 DEF MfaSoFar
    <2>3. CASE /\ work.file <= Len(files) /\ AuthFile.generated
               /\ pc = "start" /\ pc' = "start" /\ work' = [work EXCEPT !.file = @ + 1]
      <3>1. v.file = w.file + 1 /\ v.findings = w.findings
        BY <1>2, <2>3 DEF AuthWork
      <3>2. w.file = 1 /\ AuthFile = file /\ MfaSoFar(file, pc, w)
        BY <1>5, <1>6, <1>7, <2>0, <2>3
      <3> QED BY <2>0, <2>3, <3>1, <3>2, MfaFileLeft
    <2>4. CASE /\ work.file <= Len(files)
               /\ pc = "start" /\ pc' = "policy" /\ work' = Add(DetectHardcodedPasswords(AuthFile))
      <3> DEFINE fs == DetectHardcodedPasswords(AuthFile)
      <3>1. w.file = 1 /\ AuthFile = file /\ MfaSoFar(file, pc, w) /\ AuthParsed(file)
        BY <1>5, <1>6, <1>7, <2>0, <2>4
      <3>2. NoMfa(fs)
        BY <3>1, PasswordsNoMfa
      <3>3. v.file = w.file /\ v.findings = w.findings \o fs
        BY <1>2, <2>4 DEF Add, AuthWork
      <3>4. {"start", "policy", "mfa"} \in MfaPasses /\ pc \in {"start", "policy", "mfa"}
            /\ pc' \in {"start", "policy", "mfa"}
        BY <2>4 DEF MfaPasses
      <3> HIDE DEF fs, v, w, file
      <3> QED BY <1>2, <2>0, <3>1, <3>2, <3>3, <3>4, MfaSameFile DEF w
    <2> QED BY <1>8, <2>1, <2>2, <2>3, <2>4 DEF AuthParse, Pass
  <1>9. CASE AuthPolicy
    <2> DEFINE fs == DetectWeakPasswordPolicy(AuthFile)
    <2>1. project' = project /\ pc = "policy" /\ pc' = "mfa" /\ work' = Add(fs)
      BY <1>9 DEF AuthPolicy, Pass
    <2>2. w.file = 1 /\ AuthFile = file /\ MfaSoFar(file, pc, w) /\ AuthParsed(file)
      BY <1>5, <1>6, <1>7, <2>1
    <2>3. NoMfa(fs)
      BY <2>2, PolicyNoMfa
    <2>4. v.file = w.file /\ v.findings = w.findings \o fs
      BY <1>2, <2>1 DEF Add, AuthWork
    <2>5. {"start", "policy", "mfa"} \in MfaPasses /\ pc \in {"start", "policy", "mfa"}
          /\ pc' \in {"start", "policy", "mfa"}
      BY <2>1 DEF MfaPasses
    <2> HIDE DEF fs, v, w, file
    <2> QED BY <1>2, <2>1, <2>2, <2>3, <2>4, <2>5, MfaSameFile DEF w
  <1>10. CASE AuthMFA
    <2> DEFINE fs == ApplyS2SDowngrade(AuthFile, DetectMissingMFA(AuthFile))
    <2>1. project' = project /\ pc = "mfa" /\ pc' = "webhook" /\ work' = [Add(fs) EXCEPT !.decl = 1]
      BY <1>10 DEF AuthMFA, Pass
    <2>2. w.file = 1 /\ AuthFile = file /\ MfaSoFar(file, pc, w) /\ AuthParsed(file)
      BY <1>5, <1>6, <1>7, <2>1
    <2>3. v.file = 1 /\ v.findings = w.findings \o fs
      BY <1>2, <2>1, <2>2 DEF Add, AuthWork
    <2>4. NoMfa(w.findings)
      BY <2>1, <2>2 DEF MfaSoFar
    <2>5. MfaFound(file, v.findings)
      BY <2>2, <2>3, <2>4, MfaAdded
    <2> HIDE DEF fs, v, w, file
    <2> QED BY <2>1, <2>3, <2>5 DEF MfaSoFar
  <1>11. CASE pc = "webhook" /\ AuthWebhook
    <2> DEFINE found == WebhookFinding(AuthFile, work.decl, TRUE)
    <2>1. /\ project' = project /\ pc' \in {"webhook", "cover"}
          /\ work' \in {NextDecl(work), NextDecl(Add(<<found>>)), work}
      BY <1>11 DEF AuthWebhook, Pass
    <2>2. NoMfa(<<found>>)
      BY WebhookNoMfa
    <2>3. w.file = 1 /\ MfaSoFar(file, pc, w)
      BY <1>5, <1>6, <1>7, <1>11, <2>1
    <2>4. {"webhook", "cover"} \in MfaPasses /\ pc \in {"webhook", "cover"}
      BY <1>11 DEF MfaPasses
    <2> HIDE DEF found
    <2>5. PICK t \in {<<>>, <<found>>} : v.file = w.file /\ v.findings = w.findings \o t
      <3>1. CASE work' = NextDecl(Add(<<found>>))
        BY <1>2, <3>1 DEF NextDecl, Add, AuthWork
      <3>2. CASE work' \in {NextDecl(work), work}
        <4>1. v.file = w.file /\ v.findings = w.findings
          BY <1>2, <3>2 DEF NextDecl, AuthWork
        <4> QED BY <1>4, <4>1
      <3> QED BY <2>1, <3>1, <3>2
    <2>6. NoMfa(t)
      BY <1>4, <2>2, <2>5
    <2> HIDE DEF v, w, file
    <2> QED BY <1>2, <2>1, <2>3, <2>4, <2>5, <2>6, MfaSameFile DEF w
  <1>12. CASE pc = "webhook" /\ AuthFileDone
    <2>1. project' = project /\ pc' = "start" /\ work' = [work EXCEPT !.file = @ + 1]
      BY <1>12 DEF AuthFileDone, Pass
    <2>2. v.file = w.file + 1 /\ v.findings = w.findings
      BY <1>2, <2>1 DEF AuthWork
    <2>3. w.file = 1 /\ MfaSoFar(file, pc, w)
      BY <1>5, <1>6, <1>7, <1>12, <2>1
    <2> QED BY <1>12, <2>1, <2>2, <2>3, MfaFileLeft
  <1>13. CASE pc = "cover" /\ AuthCover
    <2> DEFINE found(y) == WebhookFinding(AuthFile, work.decl, y)
    <2>1. PICK ctx : /\ project' = project /\ pc' \in {"webhook", "cover"}
                     /\ \/ \E y : work' = [NextDecl(Add(<<found(y)>>)) EXCEPT !.cache = CacheWith(@, work.dir, ctx)]
                        \/ work' = [[work EXCEPT !.dir = @ + 1] EXCEPT !.cache = CacheWith(@, work.dir, ctx)]
      BY <1>13 DEF AuthCover, Pass
    <2>2. \A y : NoMfa(<<found(y)>>)
      BY WebhookNoMfa
    <2>3. w.file = 1 /\ MfaSoFar(file, pc, w)
      BY <1>5, <1>6, <1>7, <1>13, <2>1
    <2>4. {"webhook", "cover"} \in MfaPasses /\ pc \in {"webhook", "cover"}
      BY <1>13 DEF MfaPasses
    <2> HIDE DEF found
    <2>5. PICK t : NoMfa(t) /\ v.file = w.file /\ v.findings = w.findings \o t
      <3>1. ASSUME NEW y, work' = [NextDecl(Add(<<found(y)>>)) EXCEPT !.cache = CacheWith(@, work.dir, ctx)]
            PROVE  \E t : NoMfa(t) /\ v.file = w.file /\ v.findings = w.findings \o t
        <4> DEFINE fs == <<found(y)>>
        <4>1. NoMfa(fs) /\ work' = [NextDecl(Add(fs)) EXCEPT !.cache = CacheWith(@, work.dir, ctx)]
          BY <2>2, <3>1
        <4> HIDE DEF fs
        <4>2. v.file = w.file /\ v.findings = w.findings \o fs
          BY <1>2, <4>1 DEF NextDecl, Add, AuthWork
        <4> QED BY <4>1, <4>2
      <3>2. CASE work' = [[work EXCEPT !.dir = @ + 1] EXCEPT !.cache = CacheWith(@, work.dir, ctx)]
        <4>1. v.file = w.file /\ v.findings = w.findings
          BY <1>2, <3>2 DEF AuthWork
        <4> QED BY <1>4, <4>1
      <3> QED BY <2>1, <3>1, <3>2
    <2> HIDE DEF v, w, file
    <2> QED BY <1>2, <2>1, <2>3, <2>4, <2>5, MfaSameFile DEF w
  <1>14. CASE UNCHANGED callVars
    <2>1. project' = project /\ work' = work /\ pc' = pc
      BY <1>14 DEF callVars
    <2> QED BY <1>5, <1>6, <2>1
  <1> QED BY <1>1, <1>8, <1>9, <1>10, <1>11, <1>12, <1>13, <1>14 DEF Next, AuthNext, Returned

(* AuthMfaInv holds of every call on every project: once the pass is over, *)
(* the findings about second factors of a file scanned alone are, one for  *)
(* each, the routes and the handlers that lack one.                        *)
THEOREM AuthMfaInvariant == Spec => []AuthMfaInv
  <1>1. Init => AuthMfaInv
    <2> SUFFICES ASSUME Init, scanner = "auth" PROVE AuthMfaInv
      BY DEF AuthMfaInv
    <2>1. work = AuthIdle /\ pc = "start"
      BY DEF Init, SqlInit, AuditInit, AuthInit, PanInit, Called
    <2>2. work.file = 1 /\ work.findings = <<>>
      BY <2>1 DEF AuthIdle
    <2>3. NoMfa(<<>>)
      <3>1. IsList(<<>>) /\ DOMAIN <<>> = {}
        BY ShortLists
      <3> QED BY <3>1 DEF NoMfa
    <2> QED BY <2>1, <2>2, <2>3 DEF AuthMfaInv, MfaSoFar
  <1>2. AuthPolicyInv /\ AuthMfaInv /\ [Next]_callVars => AuthMfaInv'
    BY AuthMfaInductive
  <1>3. Spec => []AuthPolicyInv
    BY AuthPolicyInvariant
  <1> QED BY <1>1, <1>2, <1>3, PTL DEF Spec

------------------------------------------------------------------------------
(* Counting the findings of one handler.                                   *)

\* Two sets matched one to one have as many elements.
LEMMA OneToOne ==
    ASSUME NEW S, NEW T, IsFiniteSet(S), NEW f \in [S -> T],
           \A i, j \in S : f[i] = f[j] => i = j,
           \A t \in T : \E i \in S : f[i] = t
    PROVE  Cardinality(T) = Cardinality(S)
  <1>1. f \in Bijection(S, T)
    BY Fun_IsBij
  <1> QED BY <1>1, FS_Bijection DEF ExistsBijection

\* The payment routes of a handler, and the handlers of a name that no
\* payment route names and that should ask for a second factor.
RoutesTo(file, name) == {p \in Range(Places(file)) : IsPaymentRoute(p.s) /\ p.s.to = name}
OwnOf(file, name) ==
    {k \in DOMAIN file.decls :
        /\ file.decls[k].name = name /\ RoutesTo(file, name) = {}
        /\ IsPaymentContext(file, file.decls[k])
        /\ IsHTTPHandler(file.decls[k], "http")
        /\ ~BodyContainsMFACall(file.decls[k].body)
        /\ ~IsDelegationOnlyHandler(file.decls[k].body)}

\* With the routes first, those are the handlers that the walk reports.
LEMMA OwnReported ==
    ASSUME NEW file, RoutesFirst(file), NEW k \in DOMAIN file.decls
    PROVE  OwnMfa(file, k) <=> k \in OwnOf(file, file.decls[k].name)
  <1> DEFINE n == file.decls[k].name
             all == Range(Places(file))
  <1>1. ASSUME RoutesTo(file, n) = {} PROVE n \notin RegisteredBefore(file, k)
    BY <1>1 DEF RoutesTo, RegisteredBefore
  <1>2. ASSUME NEW p \in RoutesTo(file, n) PROVE n \in RegisteredBefore(file, k)
    <2>1. p \in all /\ IsPaymentRoute(p.s) /\ p.s.to = n
      BY <1>2 DEF RoutesTo
    <2>2. p.at[1] < k
      BY <2>1 DEF RoutesFirst
    <2> QED BY <2>1, <2>2 DEF RegisteredBefore
  <1>3. RoutesTo(file, n) = {} <=> n \notin RegisteredBefore(file, k)
    BY <1>1, <1>2
  <1> QED BY <1>3 DEF OwnMfa, OwnOf

\* A place of a statement is not that of a declaration.
LEMMA PlaceInBody ==
    ASSUME NEW file, AuthParsed(file), NEW p \in Range(Places(file))
    PROVE  p.at[2] # 0
  <1>1. PICK i \in DOMAIN Places(file) : p = Places(file)[i]
    BY DEF Range
  <1>2. PICK k \in DOMAIN file.decls : \E j \in DOMAIN file.decls[k].body : PlaceAt(file, p, k, j)
    BY <1>1, PlacesListed
  <1>3. PICK j \in DOMAIN file.decls[k].body : PlaceAt(file, p, k, j)
    BY <1>2
  <1>4. IsList(file.decls[k].body)
    BY DEF AuthParsed
  <1>5. DOMAIN file.decls[k].body = 1..Len(file.decls[k].body) /\ Len(file.decls[k].body) \in Nat
    BY <1>4, ListFacts
  <1>6. p.at[2] = j
    BY <1>3 DEF PlaceAt
  <1> QED BY <1>5, <1>6

\* The findings of a handler, and those of them at a statement.
FlaggedMfa(fs, name) == {i \in DOMAIN fs : IsMfa(fs[i]) /\ fs[i].handler = name}
AtStatement(fs, S) == {i \in S : fs[i].at[2] # 0}

\* There is one at a statement for each unguarded payment route.
LEMMA FlaggedRoutes ==
    ASSUME NEW file, AuthParsed(file), NEW fs, IsList(fs), MfaFound(file, fs), NEW name
    PROVE  Cardinality({p \in RoutesTo(file, name) : p.s.wrap # "mfa"})
             = Cardinality(AtStatement(fs, FlaggedMfa(fs, name)))
  <1> DEFINE S == AtStatement(fs, FlaggedMfa(fs, name))
             T == {p \in RoutesTo(file, name) : p.s.wrap # "mfa"}
             all == Range(Places(file))
             route(i) == CHOOSE p \in T : p.at = fs[i].at
             f == [i \in S |-> route(i)]
  <1>1. \A p, q \in all : p.at = q.at => p = q
    BY PlaceUnique DEF Range
  <1>2. \A p : p \in T <=> p \in all /\ Unguarded(p) /\ p.s.to = name
    BY DEF RoutesTo, Unguarded
  <1>3. \A i : i \in S <=> i \in DOMAIN fs /\ IsMfa(fs[i]) /\ fs[i].handler = name /\ fs[i].at[2] # 0
    BY DEF AtStatement, FlaggedMfa
  <1>4. IsFiniteSet(S)
    <2>1. DOMAIN fs = 1..Len(fs) /\ Len(fs) \in Nat
      BY ListFacts
    <2>2. IsFiniteSet(DOMAIN fs)
      BY <2>1, FS_Interval
    <2> QED BY <1>3, <2>2, FS_Subset
  <1> HIDE DEF S, T
  <1>5. ASSUME NEW i \in S PROVE \E p \in T : p.at = fs[i].at
    <2>1. About(fs[i]) \in Missing(file) /\ fs[i].handler = name /\ fs[i].at[2] # 0
      BY <1>3 DEF MfaFound
    <2>2. CASE About(fs[i]) \in RoutesMissing(file)
      <3>1. PICK p \in all : Unguarded(p) /\ About(fs[i]) = <<p.at, p.s.to>>
        BY <2>2 DEF RoutesMissing
      <3>2. p.at = fs[i].at /\ p.s.to = name
        BY <2>1, <3>1 DEF About
      <3> QED BY <1>2, <3>1, <3>2
    <2>3. CASE About(fs[i]) \in HandlersMissing(file)
      <3>1. PICK k : About(fs[i]) = <<<<k, 0>>, file.decls[k].name>>
        BY <2>3 DEF HandlersMissing
      <3>2. fs[i].at = <<k, 0>>
        BY <3>1 DEF About
      <3> QED BY <2>1, <3>2
    <2> QED BY <2>1, <2>2, <2>3 DEF Missing
  <1>6. \A i \in S : f[i] \in T /\ f[i].at = fs[i].at
    BY <1>5
  <1>7. f \in [S -> T]
    BY <1>6
  <1> HIDE DEF f
  <1>8. \A i, j \in S : f[i] = f[j] => i = j
    <2>1. \A i, j \in S : fs[i].at = fs[j].at => i = j
      BY <1>3 DEF MfaFound
    <2> QED BY <1>6, <2>1
  <1>9. ASSUME NEW p \in T PROVE \E i \in S : f[i] = p
    <2>1. p \in all /\ Unguarded(p) /\ p.s.to = name
      BY <1>2
    <2>2. <<p.at, p.s.to>> \in Missing(file)
      BY <2>1 DEF Missing, RoutesMissing
    <2>3. PICK i \in DOMAIN fs : IsMfa(fs[i]) /\ About(fs[i]) = <<p.at, p.s.to>>
      BY <2>2 DEF MfaFound
    <2>4. fs[i].at = p.at /\ fs[i].handler = name
      BY <2>1, <2>3 DEF About
    <2>5. p.at[2] # 0
      BY <2>1, PlaceInBody
    <2>6. i \in S
      BY <1>3, <2>3, <2>4, <2>5
    <2>7. f[i] \in all /\ f[i].at = p.at
      BY <1>2, <1>6, <2>4, <2>6
    <2> QED BY <1>1, <2>1, <2>6, <2>7
  <1>10. Cardinality(T) = Cardinality(S)
    BY <1>4, <1>7, <1>8, <1>9, OneToOne
  <1> QED BY <1>10 DEF S, T

\* There is one at a declaration for each handler that should ask by itself.
LEMMA FlaggedHandlers ==
    ASSUME NEW file, AuthParsed(file), RoutesFirst(file), NEW fs, IsList(fs), MfaFound(file, fs), NEW name
    PROVE  Cardinality(OwnOf(file, name))
             = Cardinality(FlaggedMfa(fs, name) \ AtStatement(fs, FlaggedMfa(fs, name)))
  <1> DEFINE S == FlaggedMfa(fs, name) \ AtStatement(fs, FlaggedMfa(fs, name))
             T == OwnOf(file, name)
             f == [i \in S |-> fs[i].at[1]]
  <1>1. \A k : k \in T <=> k \in DOMAIN file.decls /\ file.decls[k].name = name /\ OwnMfa(file, k)
    <2>1. \A k \in DOMAIN file.decls : file.decls[k].name = name => (OwnMfa(file, k) <=> k \in OwnOf(file, name))
      BY OwnReported
    <2>2. \A k \in T : k \in DOMAIN file.decls /\ file.decls[k].name = name
      BY DEF OwnOf
    <2> QED BY <2>1, <2>2
  <1>2. \A i : i \in S <=> i \in DOMAIN fs /\ IsMfa(fs[i]) /\ fs[i].handler = name /\ fs[i].at[2] = 0
    BY DEF AtStatement, FlaggedMfa
  <1>3. IsFiniteSet(S)
    <2>1. DOMAIN fs = 1..Len(fs) /\ Len(fs) \in Nat
      BY ListFacts
    <2>2. IsFiniteSet(DOMAIN fs)
      BY <2>1, FS_Interval
    <2> QED BY <1>2, <2>2, FS_Subset
  <1> HIDE DEF S, T
  <1>4. ASSUME NEW i \in S PROVE fs[i].at[1] \in T /\ fs[i].at = <<fs[i].at[1], 0>>
    <2>1. About(fs[i]) \in Missing(file) /\ fs[i].handler = name /\ fs[i].at[2] = 0
      BY <1>2 DEF MfaFound
    <2>2. CASE About(fs[i]) \in RoutesMissing(file)
      <3>1. PICK p \in Range(Places(file)) : About(fs[i]) = <<p.at, p.s.to>>
        BY <2>2 DEF RoutesMissing
      <3>2. p.at = fs[i].at
        BY <3>1 DEF About
      <3>3. p.at[2] # 0
        BY PlaceInBody
      <3> QED BY <2>1, <3>2, <3>3
    <2>3. CASE About(fs[i]) \in HandlersMissing(file)
      <3>1. PICK k \in DOMAIN file.decls : OwnMfa(file, k) /\ About(fs[i]) = <<<<k, 0>>, file.decls[k].name>>
        BY <2>3 DEF HandlersMissing
      <3>2. fs[i].at = <<k, 0>> /\ file.decls[k].name = name
        BY <2>1, <3>1 DEF About
      <3> QED BY <1>1, <3>1, <3>2
    <2> QED BY <2>1, <2>2, <2>3 DEF Missing
  <1>5. \A i \in S : f[i] \in T /\ fs[i].at = <<f[i], 0>>
    BY <1>4
  <1>6. f \in [S -> T]
    BY <1>5
  <1> HIDE DEF f
  <1>7. \A i, j \in S : f[i] = f[j] => i = j
    <2>1. \A i, j \in S : fs[i].at = fs[j].at => i = j
      BY <1>2 DEF MfaFound
    <2> QED BY <1>5, <2>1
  <1>8. ASSUME NEW k \in T PROVE \E i \in S : f[i] = k
    <2>1. k \in DOMAIN file.decls /\ file.decls[k].name = name /\ OwnMfa(file, k)
      BY <1>1
    <2>2. <<<<k, 0>>, name>> \in Missing(file)
      BY <2>1 DEF Missing, HandlersMissing
    <2>3. PICK i \in DOMAIN fs : IsMfa(fs[i]) /\ About(fs[i]) = <<<<k, 0>>, name>>
      BY <2>2 DEF MfaFound
    <2>4. fs[i].at = <<k, 0>> /\ fs[i].handler = name
      BY <2>3 DEF About
    <2>5. i \in S
      BY <1>2, <2>3, <2>4
    <2>6. <<f[i], 0>> = <<k, 0>>
      BY <1>5, <2>4, <2>5
    <2> QED BY <2>5, <2>6
  <1>9. Cardinality(T) = Cardinality(S)
    BY <1>3, <1>6, <1>7, <1>8, OneToOne
  <1> QED BY <1>9 DEF S, T

\* Together they are all of its findings.
LEMMA FlaggedCount ==
    ASSUME NEW file, AuthParsed(file), RoutesFirst(file), NEW fs, IsList(fs), MfaFound(file, fs), NEW name
    PROVE  Cardinality(FlaggedMfa(fs, name))
             = Cardinality({p \in RoutesTo(file, name) : p.s.wrap # "mfa"}) + Cardinality(OwnOf(file, name))
  <1> DEFINE F == FlaggedMfa(fs, name)
             S == AtStatement(fs, F)
             T == F \ S
  <1>1. IsFiniteSet(F)
    <2>1. DOMAIN fs = 1..Len(fs) /\ Len(fs) \in Nat
      BY ListFacts
    <2>2. IsFiniteSet(DOMAIN fs)
      BY <2>1, FS_Interval
    <2> QED BY <2>2, FS_Subset DEF FlaggedMfa
  <1>2. S \subseteq F
    BY DEF AtStatement
  <1>3. Cardinality({p \in RoutesTo(file, name) : p.s.wrap # "mfa"}) = Cardinality(S)
    BY FlaggedRoutes
  <1>4. Cardinality(OwnOf(file, name)) = Cardinality(T)
    BY FlaggedHandlers
  <1> HIDE DEF F, S
  <1>5. IsFiniteSet(S) /\ IsFiniteSet(T) /\ S \cup T = F /\ S \cap T = {}
    BY <1>1, <1>2, FS_Subset
  <1> HIDE DEF T
  <1>6. Cardinality(F) = Cardinality(S) + Cardinality(T) - Cardinality(S \cap T)
    BY <1>5, FS_Union
  <1>7. Cardinality(S \cap T) = 0 /\ Cardinality(S) \in Nat /\ Cardinality(T) \in Nat
    BY <1>5, FS_EmptySet, FS_CardinalityType
  <1> QED BY <1>3, <1>4, <1>6, <1>7 DEF F

(* In a file scanned alone, with the routes before the handlers, a name is *)
(* flagged once for every payment route that leaves it unprotected or, if  *)
(* no payment route names it, once for every function or method of that    *)
(* name that takes payments and does not ask for a second factor.          *)
THEOREM AuthMfaAlwaysOnce == Spec => []AuthMfaOncePerHandler
  <1>1. AuthPolicyInv /\ AuthMfaInv => AuthMfaOncePerHandler
    <2> DEFINE files == project.dirs[1].files
               file == files[1]
               fs == work.findings
               flagged(name) == {i \in DOMAIN fs : fs[i].rule = "AUTH-MISSING-MFA" /\ fs[i].handler = name}
    <2> SUFFICES ASSUME AuthPolicyInv, AuthMfaInv, Done("auth"), Len(files) = 1,
                        RoutesFirst(file), ~file.generated, NEW d \in Range(file.decls)
                 PROVE  Cardinality(flagged(d.name))
                          = Cardinality({p \in RoutesTo(file, d.name) : p.s.wrap # "mfa"})
                              + Cardinality(OwnOf(file, d.name))
      BY DEF AuthMfaOncePerHandler, RoutesTo, OwnOf
    <2>1. /\ project \in AuthSources /\ work.file \in Nat /\ IsList(fs) /\ pc = "done" /\ work.file > 1
          /\ MfaSoFar(file, pc, work)
      BY DEF AuthPolicyInv, AuthMfaInv, Done
    <2>2. IsList(files) /\ \A i \in DOMAIN files : AuthParsed(files[i])
      BY <2>1, AuthSourcesParsed
    <2>3. AuthParsed(file)
      <3>1. DOMAIN files = 1..Len(files)
        BY <2>2, ListFacts
      <3> QED BY <2>2, <3>1
    <2>4. MfaFound(file, fs)
      BY <2>1 DEF MfaSoFar
    <2>5. flagged(d.name) = FlaggedMfa(fs, d.name)
      BY DEF FlaggedMfa, IsMfa
    <2> HIDE DEF flagged, files, file, fs
    <2> QED BY <2>1, <2>3, <2>4, <2>5, FlaggedCount
  <1>2. Spec => []AuthPolicyInv
    BY AuthPolicyInvariant
  <1>3. Spec => []AuthMfaInv
    BY AuthMfaInvariant
  <1> QED BY <1>1, <1>2, <1>3, PTL

------------------------------------------------------------------------------
(* Packages: their functions, and the effects of their statements.         *)

\* What the parser gives for a package.
PkgParsed(pkg) ==
    /\ IsList(pkg.files)
    /\ \A a \in DOMAIN pkg.files :
          /\ IsList(pkg.files[a].decls)
          /\ \A b \in DOMAIN pkg.files[a].decls : IsList(pkg.files[a].decls[b].body)

\* A function of the package and the imports of its file.
DeclAt(pkg, e, a, b) ==
    e = [fn |-> ParsePkgFiles(pkg)[a].decls[b], imports |-> ParsePkgFiles(pkg)[a].imports]

\* The files that parse are files of the package.
LEMMA ParsedFiles ==
    ASSUME NEW pkg, PkgParsed(pkg)
    PROVE  /\ IsList(ParsePkgFiles(pkg))
           /\ \A a \in DOMAIN ParsePkgFiles(pkg) :
                 \E c \in DOMAIN pkg.files : ParsePkgFiles(pkg)[a] = pkg.files[c]
  <1> DEFINE files == pkg.files
             S == {k \in DOMAIN files : files[k].parses}
  <1>1. ParsePkgFiles(pkg) = Where(files, S) /\ S \in SUBSET DOMAIN files /\ IsList(files)
    BY DEF ParsePkgFiles, PkgParsed
  <1>2. S \subseteq DOMAIN files
    OBVIOUS
  <1> HIDE DEF S, files
  <1>3. IsList(Where(files, S)) /\ \A k \in DOMAIN Where(files, S) : \E i \in S : Where(files, S)[k] = files[i]
    BY <1>1, ListWhere
  <1>4. \A k \in DOMAIN Where(files, S) : \E i \in DOMAIN files : Where(files, S)[k] = files[i]
    BY <1>2, <1>3
  <1> QED BY <1>1, <1>3, <1>4 DEF files

\* A parsed file is made of lists.
LEMMA ParsedFile ==
    ASSUME NEW pkg, PkgParsed(pkg), NEW a \in DOMAIN ParsePkgFiles(pkg)
    PROVE  /\ IsList(ParsePkgFiles(pkg)[a].decls)
           /\ \A b \in DOMAIN ParsePkgFiles(pkg)[a].decls : IsList(ParsePkgFiles(pkg)[a].decls[b].body)
  <1>1. PICK c \in DOMAIN pkg.files : ParsePkgFiles(pkg)[a] = pkg.files[c]
    BY ParsedFiles
  <1> QED BY <1>1 DEF PkgParsed

\* The functions of a package are those of its files that parse.
LEMMA PkgDeclsListed ==
    ASSUME NEW pkg, PkgParsed(pkg)
    PROVE  /\ IsList(PkgDecls(pkg))
           /\ \A i \in DOMAIN PkgDecls(pkg) : \E a \in DOMAIN ParsePkgFiles(pkg) :
                 \E b \in DOMAIN ParsePkgFiles(pkg)[a].decls : DeclAt(pkg, PkgDecls(pkg)[i], a, b)
           /\ \A a \in DOMAIN ParsePkgFiles(pkg) : \A b \in DOMAIN ParsePkgFiles(pkg)[a].decls :
                 \E i \in DOMAIN PkgDecls(pkg) : DeclAt(pkg, PkgDecls(pkg)[i], a, b)
  <1> DEFINE files == ParsePkgFiles(pkg)
             row(a) == [j \in DOMAIN files[a].decls |-> [fn |-> files[a].decls[j], imports |-> files[a].imports]]
             rows == [k \in DOMAIN files |-> row(k)]
  <1>1. PkgDecls(pkg) = FlattenSeq(rows)
    BY DEF PkgDecls
  <1>2. ASSUME NEW a \in DOMAIN files PROVE IsList(row(a))
    <2>1. IsList(files[a].decls)
      BY ParsedFile
    <2>2. Len(files[a].decls) \in Nat /\ DOMAIN files[a].decls = 1..Len(files[a].decls)
      BY <2>1, ListFacts
    <2>3. DOMAIN row(a) = 1..Len(files[a].decls) /\ row(a) = [i \in DOMAIN row(a) |-> row(a)[i]]
      BY <2>2
    <2> HIDE DEF row
    <2> QED BY <2>2, <2>3, FunctionIsList
  <1>3. \A a \in DOMAIN files : /\ DOMAIN row(a) = DOMAIN files[a].decls
                                /\ \A b \in DOMAIN row(a) : DeclAt(pkg, row(a)[b], a, b)
    BY DEF DeclAt
  <1> HIDE DEF row
  <1>4. IsList(files)
    BY ParsedFiles
  <1>5. Len(files) \in Nat /\ DOMAIN files = 1..Len(files)
    BY <1>4, ListFacts
  <1>6. DOMAIN rows = DOMAIN files /\ rows = [k \in DOMAIN rows |-> rows[k]]
        /\ \A k \in DOMAIN files : rows[k] = row(k)
    OBVIOUS
  <1> HIDE DEF rows, files
  <1>7. IsList(rows)
    BY <1>5, <1>6, FunctionIsList
  <1>8. \A k \in DOMAIN rows : IsList(rows[k])
    BY <1>2, <1>6
  <1>9. /\ IsList(FlattenSeq(rows))
        /\ \A k \in DOMAIN FlattenSeq(rows) :
              \E i \in DOMAIN rows : \E j \in DOMAIN rows[i] : FlattenSeq(rows)[k] = rows[i][j]
        /\ \A i \in DOMAIN rows : \A j \in DOMAIN rows[i] :
              \E k \in DOMAIN FlattenSeq(rows) : FlattenSeq(rows)[k] = rows[i][j]
    BY <1>7, <1>8, ListFlatten
  <1>10. \A i \in DOMAIN PkgDecls(pkg) : \E a \in DOMAIN files : \E b \in DOMAIN files[a].decls :
            DeclAt(pkg, PkgDecls(pkg)[i], a, b)
    BY <1>1, <1>3, <1>6, <1>9
  <1>11. \A a \in DOMAIN files : \A b \in DOMAIN files[a].decls :
            \E i \in DOMAIN PkgDecls(pkg) : DeclAt(pkg, PkgDecls(pkg)[i], a, b)
    <2> SUFFICES ASSUME NEW a \in DOMAIN files, NEW b \in DOMAIN files[a].decls
                 PROVE  \E i \in DOMAIN PkgDecls(pkg) : DeclAt(pkg, PkgDecls(pkg)[i], a, b)
      OBVIOUS
    <2>1. PICK k \in DOMAIN FlattenSeq(rows) : FlattenSeq(rows)[k] = rows[a][b]
      BY <1>3, <1>6, <1>9
    <2>2. DeclAt(pkg, rows[a][b], a, b)
      BY <1>3, <1>6
    <2> QED BY <1>1, <2>1, <2>2
  <1> QED BY <1>1, <1>9, <1>10, <1>11 DEF files

\* Statement s stands in function i of the package.
StandsIn(pkg, i, s) == i \in DOMAIN PkgDecls(pkg) /\ s \in Range(PkgDecls(pkg)[i].fn.body)

\* The placed statements, read off.
LEMMA PlacedIs ==
    ASSUME NEW pkg
    PROVE  /\ \A p \in Placed(pkg) : p = <<p[1], p[2]>> /\ StandsIn(pkg, p[1], p[2])
           /\ \A i, s : StandsIn(pkg, i, s) => <<i, s>> \in Placed(pkg)
  BY DEF Placed, StandsIn

\* The statements of a file, whatever function they are in.
LEMMA BodyListed ==
    ASSUME NEW file, IsList(file.decls), \A b \in DOMAIN file.decls : IsList(file.decls[b].body)
    PROVE  /\ IsList(Body(file))
           /\ \A k \in DOMAIN Body(file) :
                 \E b \in DOMAIN file.decls : \E j \in DOMAIN file.decls[b].body :
                    Body(file)[k] = file.decls[b].body[j]
           /\ \A b \in DOMAIN file.decls : \A j \in DOMAIN file.decls[b].body :
                 \E k \in DOMAIN Body(file) : Body(file)[k] = file.decls[b].body[j]
  <1> DEFINE rows == [k \in DOMAIN file.decls |-> file.decls[k].body]
  <1>1. Body(file) = FlattenSeq(rows)
    BY DEF Body
  <1>2. Len(file.decls) \in Nat /\ DOMAIN file.decls = 1..Len(file.decls)
    BY ListFacts
  <1>3. DOMAIN rows = DOMAIN file.decls /\ rows = [k \in DOMAIN rows |-> rows[k]]
        /\ \A k \in DOMAIN file.decls : rows[k] = file.decls[k].body
    OBVIOUS
  <1> HIDE DEF rows
  <1>4. IsList(rows)
    BY <1>2, <1>3, FunctionIsList
  <1>5. \A k \in DOMAIN rows : IsList(rows[k])
    BY <1>3
  <1>6. /\ IsList(FlattenSeq(rows))
        /\ \A k \in DOMAIN FlattenSeq(rows) :
              \E i \in DOMAIN rows : \E j \in DOMAIN rows[i] : FlattenSeq(rows)[k] = rows[i][j]
        /\ \A i \in DOMAIN rows : \A j \in DOMAIN rows[i] :
              \E k \in DOMAIN FlattenSeq(rows) : FlattenSeq(rows)[k] = rows[i][j]
    BY <1>4, <1>5, ListFlatten
  <1> QED BY <1>1, <1>3, <1>6

\* A set of indices of a list that is not empty has a greatest one.
LEMMA LastIndex ==
    ASSUME NEW s, IsList(s), NEW S \in SUBSET DOMAIN s, S # {}
    PROVE  \E k \in S : \A j \in S : j <= k
  <1>1. Len(s) \in Nat /\ DOMAIN s = 1..Len(s)
    BY ListFacts
  <1>2. IsFiniteSet(DOMAIN s)
    BY <1>1, FS_Interval
  <1>3. S \in SUBSET Int /\ IsFiniteSet(S)
    BY <1>1, <1>2, FS_Subset
  <1> QED BY <1>3, GreatestMember

\* What a context holds of a kind is a value of the last effect of that kind
\* and key.
LastOf(es, op, key, k) ==
    /\ k \in DOMAIN es /\ es[k].op = op /\ es[k].key = key
    /\ \A j \in DOMAIN es : es[j].op = op /\ es[j].key = key => j <= k

\* There is one, for every key of that kind.
LEMMA LastOfExists ==
    ASSUME NEW es, IsList(es), NEW op, NEW j \in DOMAIN es, es[j].op = op
    PROVE  \E k : LastOf(es, op, es[j].key, k)
  <1> DEFINE S == {k \in DOMAIN es : es[k].op = op /\ es[k].key = es[j].key}
  <1>1. S \in SUBSET DOMAIN es /\ S # {}
    OBVIOUS
  <1>2. \A k : k \in S <=> k \in DOMAIN es /\ es[k].op = op /\ es[k].key = es[j].key
    OBVIOUS
  <1> HIDE DEF S
  <1>3. PICK k \in S : \A i \in S : i <= k
    BY <1>1, LastIndex
  <1>4. LastOf(es, op, es[j].key, k)
    BY <1>2, <1>3 DEF LastOf
  <1> QED BY <1>4

\* The keys of the effects of a kind.
KeysOf(es, op) == {es[k].key : k \in {j \in DOMAIN es : es[j].op = op}}

\* A context and the effects that it is made of.
LEMMA CtxFrom ==
    ASSUME NEW es, IsList(es)
    PROVE  LET ctx == CtxOf(es)
           IN  /\ ctx.cover = KeysOf(es, "cover") /\ ctx.ir = KeysOf(es, "ir")
               /\ DOMAIN ctx.parent = KeysOf(es, "parent") /\ DOMAIN ctx.handler = KeysOf(es, "handler")
               /\ \A key \in DOMAIN ctx.parent :
                     \E k : LastOf(es, "parent", key, k) /\ ctx.parent[key] = es[k].val
               /\ \A key \in DOMAIN ctx.handler :
                     \E k : LastOf(es, "handler", key, k) /\ ctx.handler[key] = es[k].val
  <1> DEFINE last(op) == [key \in KeysOf(es, op) |->
                es[CHOOSE k \in DOMAIN es : es[k].op = op /\ es[k].key = key
                     /\ \A j \in DOMAIN es : es[j].op = op /\ es[j].key = key => j <= k].val]
             ctx == CtxOf(es)
  <1>1. ctx = [cover |-> KeysOf(es, "cover"), ir |-> KeysOf(es, "ir"),
               parent |-> last("parent"), handler |-> last("handler")]
    BY DEF CtxOf, KeysOf
  <1>2. ASSUME NEW op, NEW key \in KeysOf(es, op)
        PROVE  \E k : LastOf(es, op, key, k) /\ last(op)[key] = es[k].val
    <2> DEFINE k == CHOOSE k \in DOMAIN es : es[k].op = op /\ es[k].key = key
                     /\ \A j \in DOMAIN es : es[j].op = op /\ es[j].key = key => j <= k
    <2>1. PICK j \in DOMAIN es : es[j].op = op /\ es[j].key = key
      BY <1>2 DEF KeysOf
    <2>2. \E m : LastOf(es, op, key, m)
      BY <2>1, LastOfExists
    <2>3. LastOf(es, op, key, k)
      BY <2>2 DEF LastOf
    <2>4. last(op)[key] = es[k].val
      BY <1>2
    <2> HIDE DEF k
    <2> QED BY <2>3, <2>4
  <1>3. \A op : DOMAIN last(op) = KeysOf(es, op)
    OBVIOUS
  <1> HIDE DEF last
  <1>4. ctx.parent = last("parent") /\ ctx.handler = last("handler")
        /\ ctx.cover = KeysOf(es, "cover") /\ ctx.ir = KeysOf(es, "ir")
    BY <1>1
  <1> HIDE DEF ctx
  <1>5. DOMAIN ctx.parent = KeysOf(es, "parent") /\ DOMAIN ctx.handler = KeysOf(es, "handler")
    BY <1>3, <1>4
  <1>6. \A key \in DOMAIN ctx.parent : \E k : LastOf(es, "parent", key, k) /\ ctx.parent[key] = es[k].val
    BY <1>2, <1>4, <1>5
  <1>7. \A key \in DOMAIN ctx.handler : \E k : LastOf(es, "handler", key, k) /\ ctx.handler[key] = es[k].val
    BY <1>2, <1>4, <1>5
  <1> QED BY <1>4, <1>5, <1>6, <1>7 DEF ctx

\* Effects have finitely many keys.
LEMMA KeysFinite ==
    ASSUME NEW es, IsList(es), NEW op
    PROVE  IsFiniteSet(KeysOf(es, op))
  <1>1. Len(es) \in Nat /\ DOMAIN es = 1..Len(es)
    BY ListFacts
  <1> DEFINE D == {j \in DOMAIN es : es[j].op = op}
             f == [k \in D |-> es[k].key]
  <1>2. IsFiniteSet(D)
    <2>1. IsFiniteSet(DOMAIN es) /\ D \in SUBSET DOMAIN es
      BY <1>1, FS_Interval
    <2> QED BY <2>1, FS_Subset
  <1>3. f \in Surjection(D, KeysOf(es, op))
    BY DEF KeysOf, Surjection
  <1> HIDE DEF D, f
  <1> QED BY <1>2, <1>3, FS_Surjection

------------------------------------------------------------------------------
(* The groups above a group.                                               *)

\* One group up.
Above1(parent, g) == IF g \in DOMAIN parent THEN parent[g] ELSE g

\* A walk of n groups up from g.
ClimbsTo(f, parent, g, n) == f = [k \in 0..n |-> IF k = 0 THEN g ELSE Above1(parent, f[k - 1])]

\* Such walks exist.
LEMMA ClimbExists ==
    ASSUME NEW parent, NEW g, NEW n \in Nat
    PROVE  \E f : ClimbsTo(f, parent, g, n)
  <1> DEFINE Bad == {m \in 0..n : ~\E f : ClimbsTo(f, parent, g, m)}
  <1>1. SUFFICES ASSUME Bad # {} PROVE FALSE
    OBVIOUS
  <1>2. Bad \in SUBSET Int /\ IsFiniteSet(Bad)
    <2>1. IsFiniteSet(0..n) /\ Bad \in SUBSET (0..n)
      BY FS_Interval
    <2> QED BY <2>1, FS_Subset
  <1>3. PICK m \in Bad : \A j \in Bad : m <= j
    <2> HIDE DEF Bad
    <2> QED BY <1>1, <1>2, LeastMember
  <1>4. CASE m = 0
    <2>1. ClimbsTo([k \in 0..0 |-> g], parent, g, 0)
      BY DEF ClimbsTo
    <2> QED BY <1>4, <2>1
  <1>5. CASE m # 0
    <2>1. m \in 1..n /\ m - 1 \in 0..n /\ m - 1 \notin Bad
      BY <1>3, <1>5
    <2>2. PICK f : ClimbsTo(f, parent, g, m - 1)
      BY <2>1
    <2> DEFINE h == [k \in 0..m |-> IF k = m THEN Above1(parent, f[m - 1]) ELSE f[k]]
    <2>3. ASSUME NEW k \in 0..m
          PROVE  h[k] = IF k = 0 THEN g ELSE Above1(parent, h[k - 1])
      <3>1. CASE k = m
        <4>1. m \in 0..m /\ m - 1 \in 0..m /\ m - 1 # m /\ k # 0
          BY <2>1, <3>1
        <4>2. h[m] = Above1(parent, f[m - 1]) /\ h[m - 1] = f[m - 1]
          BY <4>1
        <4> HIDE DEF h
        <4> QED BY <3>1, <4>1, <4>2
      <3>2. CASE k # m /\ k = 0
        BY <2>1, <2>2, <3>2 DEF ClimbsTo
      <3>3. CASE k # m /\ k # 0
        <4>1. k \in 0..(m - 1) /\ k - 1 \in 0..(m - 1) /\ k - 1 \in 0..m /\ k - 1 # m
          BY <2>1, <3>3
        <4>2. h[k] = f[k] /\ h[k - 1] = f[k - 1]
          BY <3>3, <4>1
        <4>3. f[k] = Above1(parent, f[k - 1])
          BY <2>2, <3>3, <4>1 DEF ClimbsTo
        <4> QED BY <3>3, <4>2, <4>3
      <3> QED BY <3>1, <3>2, <3>3
    <2>4. ClimbsTo(h, parent, g, m)
      <3>1. h = [k \in 0..m |-> h[k]]
        OBVIOUS
      <3> HIDE DEF h
      <3>2. [k \in 0..m |-> h[k]] = [k \in 0..m |-> IF k = 0 THEN g ELSE Above1(parent, h[k - 1])]
        BY <2>3
      <3> QED BY <3>1, <3>2 DEF ClimbsTo
    <2> QED BY <2>4
  <1> QED BY <1>4, <1>5

\* One step of it.
LEMMA ClimbStep ==
    ASSUME NEW parent, NEW g, NEW n \in Nat, NEW f, ClimbsTo(f, parent, g, n)
    PROVE  f[0] = g /\ \A k \in 1..n : f[k] = Above1(parent, f[k - 1])
  BY DEF ClimbsTo

\* The chain of g is what a climb of enough steps meets.
ChainBy(ctx, g, f) ==
    /\ ClimbsTo(f, ctx.parent, g, Cardinality(DOMAIN ctx.parent))
    /\ f[0] = g
    /\ \A k \in 1..Cardinality(DOMAIN ctx.parent) : f[k] = Above1(ctx.parent, f[k - 1])
    /\ Chain(ctx, g) = {f[k] : k \in 0..Cardinality(DOMAIN ctx.parent)}

\* The chain of a group is what such a walk comes through.
LEMMA ChainClimbs ==
    ASSUME NEW ctx, NEW g, IsFiniteSet(DOMAIN ctx.parent)
    PROVE  Cardinality(DOMAIN ctx.parent) \in Nat /\ \E f : ChainBy(ctx, g, f)
  <1> DEFINE n == Cardinality(DOMAIN ctx.parent)
             f == CHOOSE h : h = [k \in 0..n |-> IF k = 0 THEN g
                      ELSE IF h[k - 1] \in DOMAIN ctx.parent THEN ctx.parent[h[k - 1]] ELSE h[k - 1]]
  <1>1. n \in Nat
    BY FS_CardinalityType
  <1>2. \E h : ClimbsTo(h, ctx.parent, g, n)
    BY <1>1, ClimbExists
  <1>3. ClimbsTo(f, ctx.parent, g, n)
    BY <1>2 DEF ClimbsTo, Above1
  <1>4. DOMAIN f = 0..n
    BY <1>3 DEF ClimbsTo
  <1>5. Chain(ctx, g) = {f[k] : k \in DOMAIN f}
    BY DEF Chain
  <1> HIDE DEF f, n
  <1>6. Chain(ctx, g) = {f[k] : k \in 0..n}
    BY <1>4, <1>5
  <1>7. f[0] = g /\ \A k \in 1..n : f[k] = Above1(ctx.parent, f[k - 1])
    BY <1>1, <1>3, ClimbStep
  <1>8. ChainBy(ctx, g, f)
    BY <1>3, <1>6, <1>7 DEF ChainBy, n
  <1> QED BY <1>1, <1>8 DEF n

------------------------------------------------------------------------------
(* Signature middleware: what a context covers is covered.                 *)

\* The effect of one statement of a file with these imports.
SigEffect(tree, imports, s) ==
    CASE s.op = "group" -> Effect("parent", <<s.to>>, <<s.on>>)
      [] s.op = "use" /\ s.wrap = "sig" -> Effect("cover", <<s.on>>, <<>>)
      [] s.op = "verb" /\ s.how \in SignatureVerbs /\ s.to # "" ->
            Effect("handler", <<s.to>>, IF s.wrap = "sig" THEN WrapperMarker ELSE <<s.on>>)
      [] s.op = "install" -> Effect("ir", <<s.on>>, <<>>)
      [] s.op = "aggregate" /\ s.how \in AggregatorFuncNames /\ s.to \in imports
            /\ SigResolveExternalMiddleware(tree, s.to) -> Effect("cover", <<s.on>>, <<>>)
      [] OTHER -> Effect("", <<>>, <<>>)

\* The effects of a package, in the order of its files.
SigEffects(tree, pkg) ==
    FlattenSeq([k \in DOMAIN ParsePkgFiles(pkg) |-> PassASignature(tree, ParsePkgFiles(pkg)[k])])

\* Effect e is that of statement s of function i.
SigEffectOf(tree, pkg, e, i, s) ==
    StandsIn(pkg, i, s) /\ e = SigEffect(tree, PkgDecls(pkg)[i].imports, s)

\* Every effect is that of a statement.
LEMMA SigEffectsListed ==
    ASSUME NEW tree, NEW pkg, PkgParsed(pkg)
    PROVE  /\ IsList(SigEffects(tree, pkg))
           /\ \A k \in DOMAIN SigEffects(tree, pkg) : \E i, s : SigEffectOf(tree, pkg, SigEffects(tree, pkg)[k], i, s)
  <1> DEFINE files == ParsePkgFiles(pkg)
             rows == [k \in DOMAIN files |-> PassASignature(tree, files[k])]
             es == SigEffects(tree, pkg)
  <1>1. es = FlattenSeq(rows)
    BY DEF SigEffects
  <1>2. IsList(files)
    BY ParsedFiles
  <1>3. Len(files) \in Nat /\ DOMAIN files = 1..Len(files)
    BY <1>2, ListFacts
  <1>4. DOMAIN rows = DOMAIN files /\ rows = [k \in DOMAIN rows |-> rows[k]]
        /\ \A k \in DOMAIN files : rows[k] = PassASignature(tree, files[k])
    OBVIOUS
  <1> HIDE DEF rows
  <1>5. IsList(rows)
    BY <1>3, <1>4, FunctionIsList
  <1>6. ASSUME NEW a \in DOMAIN files
        PROVE  /\ IsList(rows[a])
               /\ \A k \in DOMAIN rows[a] : \E i, s : SigEffectOf(tree, pkg, rows[a][k], i, s)
    <2> DEFINE file == files[a]
               es1 == PassASignature(tree, file)
               body == Body(file)
    <2>1. IsList(file.decls) /\ \A b \in DOMAIN file.decls : IsList(file.decls[b].body)
      BY ParsedFile
    <2>2. /\ IsList(body)
          /\ \A k \in DOMAIN body : \E b \in DOMAIN file.decls : \E j \in DOMAIN file.decls[b].body :
                body[k] = file.decls[b].body[j]
      BY <2>1, BodyListed
    <2>3. es1 = [k \in DOMAIN body |-> SigEffect(tree, file.imports, body[k])]
      BY DEF PassASignature, SigEffect
    <2>4. Len(body) \in Nat /\ DOMAIN body = 1..Len(body)
      BY <2>2, ListFacts
    <2> HIDE DEF es1, body
    <2>5. DOMAIN es1 = 1..Len(body) /\ es1 = [k \in DOMAIN es1 |-> es1[k]]
          /\ \A k \in DOMAIN es1 : k \in DOMAIN body /\ es1[k] = SigEffect(tree, file.imports, body[k])
      BY <2>3, <2>4
    <2>6. IsList(es1)
      BY <2>4, <2>5, FunctionIsList
    <2>7. ASSUME NEW k \in DOMAIN es1 PROVE \E i, s : SigEffectOf(tree, pkg, es1[k], i, s)
      <3>1. PICK b \in DOMAIN file.decls : \E j \in DOMAIN file.decls[b].body : body[k] = file.decls[b].body[j]
        BY <2>2, <2>5
      <3>2. body[k] \in Range(file.decls[b].body)
        BY <3>1 DEF Range
      <3>3. PICK i \in DOMAIN PkgDecls(pkg) : DeclAt(pkg, PkgDecls(pkg)[i], a, b)
        BY <3>1, PkgDeclsListed
      <3>4. PkgDecls(pkg)[i].fn = file.decls[b] /\ PkgDecls(pkg)[i].imports = file.imports
        BY <3>3 DEF DeclAt
      <3>5. SigEffectOf(tree, pkg, es1[k], i, body[k])
        BY <2>5, <3>2, <3>3, <3>4 DEF SigEffectOf, StandsIn
      <3> QED BY <3>5
    <2>8. rows[a] = es1
      BY <1>4 DEF es1
    <2> QED BY <2>6, <2>7, <2>8
  <1> HIDE DEF es
  <1>7. \A a \in DOMAIN rows : IsList(rows[a])
    BY <1>4, <1>6
  <1>8. /\ IsList(FlattenSeq(rows))
        /\ \A k \in DOMAIN FlattenSeq(rows) :
              \E a \in DOMAIN rows : \E j \in DOMAIN rows[a] : FlattenSeq(rows)[k] = rows[a][j]
    BY <1>5, <1>7, ListFlatten
  <1>9. \A k \in DOMAIN es : \E i, s : SigEffectOf(tree, pkg, es[k], i, s)
    BY <1>1, <1>4, <1>6, <1>8
  <1> QED BY <1>1, <1>8, <1>9 DEF es

\* A named statement: no variable is the marker, and groups have names.
StatementNamed(s) ==
    /\ <<s.on>> # WrapperMarker
    /\ s.op \in {"group", "use", "install", "aggregate"} => s.on # ""
    /\ s.op = "group" => s.to # ""
PkgNamed(pkg) == \A i, s : StandsIn(pkg, i, s) => StatementNamed(s)

\* What an effect of each kind comes from.
SigKind(tree, imports, s, e) ==
    /\ e.op = "parent" => s.op = "group" /\ e.key = <<s.to>> /\ e.val = <<s.on>>
    /\ e.op = "handler" => s.op = "verb" /\ e.key = <<s.to>> /\ (s.wrap # "sig" => e.val = <<s.on>>)
    /\ e.op = "ir" => s.op = "install" /\ e.key = <<s.on>>
    /\ e.op = "cover" =>
          /\ e.key = <<s.on>>
          /\ \/ s.op = "use" /\ s.wrap = "sig"
             \/ s.op = "aggregate" /\ s.to \in imports /\ SigResolveExternalMiddleware(tree, s.to)

LEMMA SigEffectKinds ==
    ASSUME NEW tree, NEW imports, NEW s
    PROVE  SigKind(tree, imports, s, SigEffect(tree, imports, s))
  <1> DEFINE val == IF s.wrap = "sig" THEN WrapperMarker ELSE <<s.on>>
             IsGroup == s.op = "group" /\ SigEffect(tree, imports, s) = Effect("parent", <<s.to>>, <<s.on>>)
             IsUse == s.op = "use" /\ s.wrap = "sig" /\ SigEffect(tree, imports, s) = Effect("cover", <<s.on>>, <<>>)
             IsVerb == s.op = "verb" /\ SigEffect(tree, imports, s) = Effect("handler", <<s.to>>, val)
             IsInstall == s.op = "install" /\ SigEffect(tree, imports, s) = Effect("ir", <<s.on>>, <<>>)
             IsAggregate == s.op = "aggregate" /\ s.to \in imports /\ SigResolveExternalMiddleware(tree, s.to)
                              /\ SigEffect(tree, imports, s) = Effect("cover", <<s.on>>, <<>>)
             IsNone == SigEffect(tree, imports, s) = Effect("", <<>>, <<>>)
  <1>1. IsGroup \/ IsUse \/ IsVerb \/ IsInstall \/ IsAggregate \/ IsNone
    BY DEF SigEffect
  <1>2. s.wrap # "sig" => val = <<s.on>>
    OBVIOUS
  <1>3. \A op, key, v : Effect(op, key, v).op = op /\ Effect(op, key, v).key = key /\ Effect(op, key, v).val = v
    BY DEF Effect
  <1> DEFINE e == SigEffect(tree, imports, s)
  <1> HIDE DEF val, e
  <1>4. ASSUME IsGroup PROVE SigKind(tree, imports, s, e)
    <2>1. e.op = "parent" /\ e.key = <<s.to>> /\ e.val = <<s.on>> /\ s.op = "group"
      BY <1>3, <1>4 DEF e
    <2> QED BY <2>1 DEF SigKind
  <1>5. ASSUME IsUse PROVE SigKind(tree, imports, s, e)
    <2>1. e.op = "cover" /\ e.key = <<s.on>> /\ s.op = "use" /\ s.wrap = "sig"
      BY <1>3, <1>5 DEF e
    <2> QED BY <2>1 DEF SigKind
  <1>6. ASSUME IsVerb PROVE SigKind(tree, imports, s, e)
    <2>1. e.op = "handler" /\ e.key = <<s.to>> /\ e.val = val /\ s.op = "verb"
      BY <1>3, <1>6 DEF e
    <2> QED BY <1>2, <2>1 DEF SigKind
  <1>7. ASSUME IsInstall PROVE SigKind(tree, imports, s, e)
    <2>1. e.op = "ir" /\ e.key = <<s.on>> /\ s.op = "install"
      BY <1>3, <1>7 DEF e
    <2> QED BY <2>1 DEF SigKind
  <1>8. ASSUME IsAggregate PROVE SigKind(tree, imports, s, e)
    <2>1. e.op = "cover" /\ e.key = <<s.on>> /\ s.op = "aggregate" /\ s.to \in imports
          /\ SigResolveExternalMiddleware(tree, s.to)
      BY <1>3, <1>8 DEF e
    <2> QED BY <2>1 DEF SigKind
  <1>9. ASSUME IsNone PROVE SigKind(tree, imports, s, e)
    <2>1. Effect("", <<>>, <<>>).op = ""
      BY DEF Effect
    <2>2. e.op = ""
      BY <1>9, <2>1 DEF e
    <2> QED BY <2>2 DEF SigKind
  <1>10. SigKind(tree, imports, s, e)
    BY <1>1, <1>4, <1>5, <1>6, <1>7, <1>8, <1>9
  <1> QED BY <1>10 DEF e

\* The names of groups in a function.
NamesIn(pkg, k) ==
    {s.on : s \in Range(PkgDecls(pkg)[k].fn.body)}
      \cup {s.to : s \in {t \in Range(PkgDecls(pkg)[k].fn.body) : t.op = "group"}}

\* In a tidy package no name is used in two functions.
LEMMA TidyNames ==
    ASSUME NEW pkg, SigTidy(pkg), NEW i \in DOMAIN PkgDecls(pkg), NEW j \in DOMAIN PkgDecls(pkg),
           NEW x \in NamesIn(pkg, i), x \in NamesIn(pkg, j), x # ""
    PROVE  i = j
  <1>1. i # j => NamesIn(pkg, i) \cap NamesIn(pkg, j) \subseteq {""}
    BY DEF SigTidy, NamesIn
  <1> QED BY <1>1

\* The parts of UnderSignature.
SigGroups(tree, pkg) ==
    {<<p[1], p[2].on>> : p \in {q \in Placed(pkg) :
        \/ q[2].op = "use" /\ q[2].wrap = "sig"
        \/ /\ q[2].op = "aggregate" /\ q[2].to \in PkgDecls(pkg)[q[1]].imports
           /\ SigResolveExternalMiddleware(tree, q[2].to)}}
SigSteps(pkg) ==
    {<<<<p[1], p[2].to>>, <<p[1], p[2].on>>>> : p \in {q \in Placed(pkg) : q[2].op = "group"}}
SigAll(tree, pkg) == SigGroups(tree, pkg) \cup UNION {{e[1], e[2]} : e \in SigSteps(pkg)}
SigClosed(tree, pkg, closed) ==
    SigGroups(tree, pkg) \subseteq closed /\ \A e \in SigSteps(pkg) : e[2] \in closed => e[1] \in closed

LEMMA UnderSignatureIs ==
    ASSUME NEW tree, NEW pkg
    PROVE  UnderSignature(tree, pkg) =
             {g \in SigAll(tree, pkg) : \A closed \in SUBSET SigAll(tree, pkg) :
                SigClosed(tree, pkg, closed) => g \in closed}
  BY DEF UnderSignature, SigAll, SigGroups, SigSteps, SigClosed

\* The context of a package with signature middleware.
SigCtx(tree, pkg) == CtxOf(SigEffects(tree, pkg))

\* What a context says comes from statements of its package.
SigSound(tree, pkg, ctx) ==
    /\ IsFiniteSet(DOMAIN ctx.parent)
    /\ \A g \in ctx.cover : \E i, s :
          StandsIn(pkg, i, s) /\ g = <<s.on>> /\ <<i, s.on>> \in SigGroups(tree, pkg)
            /\ s.op \in {"use", "aggregate"}
    /\ \A g \in ctx.ir : \E i, s : StandsIn(pkg, i, s) /\ s.op = "install" /\ g = <<s.on>>
    /\ \A g \in DOMAIN ctx.parent : \E i, s :
          StandsIn(pkg, i, s) /\ s.op = "group" /\ g = <<s.to>> /\ ctx.parent[g] = <<s.on>>
    /\ \A g \in DOMAIN ctx.handler : \E i, s :
          /\ StandsIn(pkg, i, s) /\ s.op = "verb" /\ g = <<s.to>>
          /\ s.wrap # "sig" => ctx.handler[g] = <<s.on>>

\* Every part of the context has a statement behind it.
LEMMA SigCtxFrom ==
    ASSUME NEW tree, NEW pkg, PkgParsed(pkg)
    PROVE  SigSound(tree, pkg, SigCtx(tree, pkg))
  <1> DEFINE es == SigEffects(tree, pkg)
             ctx == SigCtx(tree, pkg)
             from(e, i, s) == SigEffectOf(tree, pkg, e, i, s)
             imports(i) == PkgDecls(pkg)[i].imports
  <1>1. IsList(es) /\ \A k \in DOMAIN es : \E i, s : from(es[k], i, s)
    BY SigEffectsListed
  <1>2. ctx = CtxOf(es)
    BY DEF SigCtx
  <1> HIDE DEF ctx, es
  <1>3. /\ ctx.cover = KeysOf(es, "cover") /\ ctx.ir = KeysOf(es, "ir")
        /\ DOMAIN ctx.parent = KeysOf(es, "parent") /\ DOMAIN ctx.handler = KeysOf(es, "handler")
        /\ \A key \in DOMAIN ctx.parent : \E k : LastOf(es, "parent", key, k) /\ ctx.parent[key] = es[k].val
        /\ \A key \in DOMAIN ctx.handler : \E k : LastOf(es, "handler", key, k) /\ ctx.handler[key] = es[k].val
    BY <1>1, <1>2, CtxFrom
  <1>4. IsFiniteSet(DOMAIN ctx.parent)
    BY <1>1, <1>3, KeysFinite
  <1>5. ASSUME NEW g \in ctx.cover
        PROVE  \E i, s : StandsIn(pkg, i, s) /\ g = <<s.on>> /\ <<i, s.on>> \in SigGroups(tree, pkg)
                           /\ s.op \in {"use", "aggregate"}
    <2>1. PICK k \in DOMAIN es : es[k].op = "cover" /\ es[k].key = g
      BY <1>3 DEF KeysOf
    <2>2. PICK i, s : from(es[k], i, s)
      BY <1>1
    <2>3. StandsIn(pkg, i, s) /\ es[k] = SigEffect(tree, imports(i), s)
      BY <2>2 DEF SigEffectOf
    <2>9. SigKind(tree, imports(i), s, es[k])
      BY <2>3, SigEffectKinds
    <2>4. /\ g = <<s.on>>
          /\ \/ s.op = "use" /\ s.wrap = "sig"
             \/ s.op = "aggregate" /\ s.to \in imports(i) /\ SigResolveExternalMiddleware(tree, s.to)
      BY <2>1, <2>9 DEF SigKind
    <2>5. <<i, s>> \in Placed(pkg)
      BY <2>3, PlacedIs
    <2> DEFINE p == <<i, s>>
    <2>6. p[1] = i /\ p[2] = s
      OBVIOUS
    <2> HIDE DEF p
    <2>7. <<p[1], p[2].on>> \in SigGroups(tree, pkg)
      BY <2>4, <2>5, <2>6 DEF SigGroups, p
    <2> QED BY <2>3, <2>4, <2>6, <2>7
  <1>6. ASSUME NEW g \in ctx.ir PROVE \E i, s : StandsIn(pkg, i, s) /\ s.op = "install" /\ g = <<s.on>>
    <2>1. PICK k \in DOMAIN es : es[k].op = "ir" /\ es[k].key = g
      BY <1>3 DEF KeysOf
    <2>2. PICK i, s : from(es[k], i, s)
      BY <1>1
    <2>3. StandsIn(pkg, i, s) /\ es[k] = SigEffect(tree, imports(i), s)
      BY <2>2 DEF SigEffectOf
    <2>4. SigKind(tree, imports(i), s, es[k])
      BY <2>3, SigEffectKinds
    <2> QED BY <2>1, <2>3, <2>4 DEF SigKind
  <1>7. ASSUME NEW g \in DOMAIN ctx.parent
        PROVE  \E i, s : StandsIn(pkg, i, s) /\ s.op = "group" /\ g = <<s.to>> /\ ctx.parent[g] = <<s.on>>
    <2>1. PICK k : LastOf(es, "parent", g, k) /\ ctx.parent[g] = es[k].val
      BY <1>3
    <2>2. k \in DOMAIN es /\ es[k].op = "parent" /\ es[k].key = g
      BY <2>1 DEF LastOf
    <2>3. PICK i, s : from(es[k], i, s)
      BY <1>1, <2>2
    <2>4. StandsIn(pkg, i, s) /\ es[k] = SigEffect(tree, imports(i), s)
      BY <2>3 DEF SigEffectOf
    <2>5. SigKind(tree, imports(i), s, es[k])
      BY <2>4, SigEffectKinds
    <2> QED BY <2>1, <2>2, <2>4, <2>5 DEF SigKind
  <1>8. ASSUME NEW g \in DOMAIN ctx.handler
        PROVE  \E i, s : /\ StandsIn(pkg, i, s) /\ s.op = "verb" /\ g = <<s.to>>
                         /\ s.wrap # "sig" => ctx.handler[g] = <<s.on>>
    <2>1. PICK k : LastOf(es, "handler", g, k) /\ ctx.handler[g] = es[k].val
      BY <1>3
    <2>2. k \in DOMAIN es /\ es[k].op = "handler" /\ es[k].key = g
      BY <2>1 DEF LastOf
    <2>3. PICK i, s : from(es[k], i, s)
      BY <1>1, <2>2
    <2>4. StandsIn(pkg, i, s) /\ es[k] = SigEffect(tree, imports(i), s)
      BY <2>3 DEF SigEffectOf
    <2>5. SigKind(tree, imports(i), s, es[k])
      BY <2>4, SigEffectKinds
    <2> QED BY <2>1, <2>2, <2>4, <2>5 DEF SigKind
  <1>9. SigSound(tree, pkg, ctx)
    BY <1>4, <1>5, <1>6, <1>7, <1>8 DEF SigSound
  <1> QED BY <1>9 DEF ctx

\* What holds at m and passes one down holds at 0.
LEMMA DownToZero ==
    ASSUME NEW m \in Nat, NEW D, m \in D, \A k \in 1..m : k \in D => k - 1 \in D
    PROVE  0 \in D
  <1> DEFINE Bad == {k \in 0..m : \A j \in 0..k : j \notin D}
             Good == {k \in 0..m : k \in D}
  <1>1. Good \in SUBSET Int /\ IsFiniteSet(Good) /\ Good # {}
    <2>1. IsFiniteSet(0..m) /\ Good \in SUBSET (0..m) /\ m \in Good
      BY FS_Interval
    <2> QED BY <2>1, FS_Subset
  <1>2. PICK b \in Good : \A k \in Good : b <= k
    <2> HIDE DEF Good
    <2> QED BY <1>1, LeastMember
  <1>3. b \in 0..m /\ b \in D
    OBVIOUS
  <1>4. ASSUME b # 0 PROVE FALSE
    <2>1. b \in 1..m
      BY <1>3, <1>4
    <2>2. b - 1 \in D /\ b - 1 \in 0..m
      BY <1>3, <2>1
    <2>3. b - 1 \in Good
      BY <2>2
    <2> QED BY <1>2, <1>3, <2>3
  <1> QED BY <1>3, <1>4

\* The group called x, in whichever function it is, is one of closed.
GroupIn(pkg, g, closed) ==
    \A j, y : j \in DOMAIN PkgDecls(pkg) /\ y \in NamesIn(pkg, j) /\ y # "" /\ g = <<y>> => <<j, y>> \in closed

\* The variables of a statement are names of its function.
LEMMA StandsNames ==
    ASSUME NEW pkg, NEW i, NEW s, StandsIn(pkg, i, s)
    PROVE  /\ i \in DOMAIN PkgDecls(pkg) /\ s.on \in NamesIn(pkg, i)
           /\ s.op = "group" => s.to \in NamesIn(pkg, i)
  BY DEF StandsIn, NamesIn

\* A list of one name tells the name.
LEMMA OneName ==
    ASSUME NEW x, NEW y, <<x>> = <<y>>
    PROVE  x = y
  <1>1. <<x>>[1] = x /\ <<y>>[1] = y
    OBVIOUS
  <1> QED BY <1>1

\* A group with signature middleware of its own is in every closed set.
LEMMA SigCoverIn ==
    ASSUME NEW tree, NEW pkg, PkgParsed(pkg), SigTidy(pkg), NEW closed, SigClosed(tree, pkg, closed),
           NEW g \in SigCtx(tree, pkg).cover
    PROVE  GroupIn(pkg, g, closed)
  <1>0. SigSound(tree, pkg, SigCtx(tree, pkg))
    BY SigCtxFrom
  <1>1. PICK i, s : StandsIn(pkg, i, s) /\ g = <<s.on>> /\ <<i, s.on>> \in SigGroups(tree, pkg)
    BY <1>0 DEF SigSound
  <1>2. i \in DOMAIN PkgDecls(pkg) /\ s.on \in NamesIn(pkg, i)
    BY <1>1, StandsNames
  <1>3. <<i, s.on>> \in closed
    BY <1>1 DEF SigClosed
  <1>4. ASSUME NEW j, NEW y, j \in DOMAIN PkgDecls(pkg), y \in NamesIn(pkg, j), y # "", g = <<y>>
        PROVE  <<j, y>> \in closed
    <2>1. y = s.on
      BY <1>1, <1>4, OneName
    <2>2. i = j
      BY <1>2, <1>4, <2>1, TidyNames
    <2> QED BY <1>3, <2>1, <2>2
  <1> QED BY <1>4 DEF GroupIn

\* A group below one in a closed set is in it.
LEMMA SigParentIn ==
    ASSUME NEW tree, NEW pkg, PkgParsed(pkg), PkgNamed(pkg), SigTidy(pkg), NEW closed,
           SigClosed(tree, pkg, closed), NEW g, GroupIn(pkg, Above1(SigCtx(tree, pkg).parent, g), closed)
    PROVE  GroupIn(pkg, g, closed)
  <1> DEFINE parent == SigCtx(tree, pkg).parent
  <1>0. SigSound(tree, pkg, SigCtx(tree, pkg))
    BY SigCtxFrom
  <1>1. CASE g \notin DOMAIN parent
    BY <1>1 DEF Above1
  <1>2. CASE g \in DOMAIN parent
    <2>1. PICK i, s : StandsIn(pkg, i, s) /\ s.op = "group" /\ g = <<s.to>> /\ parent[g] = <<s.on>>
      BY <1>2, <1>0 DEF SigSound
    <2>2. i \in DOMAIN PkgDecls(pkg) /\ s.on \in NamesIn(pkg, i) /\ s.to \in NamesIn(pkg, i)
      BY <2>1, StandsNames
    <2>3. s.on # "" /\ s.to # ""
      BY <2>1 DEF PkgNamed, StatementNamed
    <2>4. GroupIn(pkg, <<s.on>>, closed)
      BY <1>2, <2>1 DEF Above1
    <2>5. <<i, s.on>> \in closed
      BY <2>2, <2>3, <2>4 DEF GroupIn
    <2>6. <<i, s>> \in Placed(pkg)
      BY <2>1, PlacedIs
    <2>7. <<<<i, s.to>>, <<i, s.on>>>> \in SigSteps(pkg)
      <3> DEFINE p == <<i, s>>
      <3>1. p[1] = i /\ p[2] = s
        OBVIOUS
      <3> HIDE DEF p
      <3>2. <<<<p[1], p[2].to>>, <<p[1], p[2].on>>>> \in SigSteps(pkg)
        BY <2>1, <2>6, <3>1 DEF SigSteps, p
      <3> QED BY <3>1, <3>2
    <2>8. <<i, s.to>> \in closed
      <3> DEFINE e == <<<<i, s.to>>, <<i, s.on>>>>
      <3>1. e[1] = <<i, s.to>> /\ e[2] = <<i, s.on>>
        OBVIOUS
      <3> HIDE DEF e
      <3>2. e \in SigSteps(pkg)
        BY <2>7 DEF e
      <3> QED BY <2>5, <3>1, <3>2 DEF SigClosed
    <2>9. ASSUME NEW j, NEW y, j \in DOMAIN PkgDecls(pkg), y \in NamesIn(pkg, j), y # "", g = <<y>>
          PROVE  <<j, y>> \in closed
      <3>1. y = s.to
        BY <2>1, <2>9, OneName
      <3>2. i = j
        BY <2>2, <2>9, <3>1, TidyNames
      <3> QED BY <2>8, <3>1, <3>2
    <2> QED BY <2>9 DEF GroupIn
  <1> QED BY <1>1, <1>2

\* A group whose chain comes to a group with signature middleware is in every
\* closed set.
LEMMA SigChainIn ==
    ASSUME NEW tree, NEW pkg, PkgParsed(pkg), PkgNamed(pkg), SigTidy(pkg), NEW closed,
           SigClosed(tree, pkg, closed), NEW g,
           Chain(SigCtx(tree, pkg), g) \cap SigCtx(tree, pkg).cover # {}
    PROVE  GroupIn(pkg, g, closed)
  <1> DEFINE ctx == SigCtx(tree, pkg)
             parent == ctx.parent
             n == Cardinality(DOMAIN parent)
  <1>0. SigSound(tree, pkg, SigCtx(tree, pkg))
    BY SigCtxFrom
  <1>1. IsFiniteSet(DOMAIN parent)
    BY <1>0 DEF SigSound
  <1>2. n \in Nat /\ \E f : ChainBy(ctx, g, f)
    BY <1>1, ChainClimbs
  <1>3. PICK f : ChainBy(ctx, g, f)
    BY <1>2
  <1>21. ClimbsTo(f, parent, g, n) /\ Chain(ctx, g) = {f[k] : k \in 0..n}
    BY <1>3 DEF ChainBy
  <1>4. PICK h : h \in Chain(ctx, g) /\ h \in ctx.cover
    OBVIOUS
  <1>5. PICK m \in 0..n : f[m] = h
    BY <1>4, <1>21
  <1>6. f[0] = g /\ \A k \in 1..n : f[k] = Above1(parent, f[k - 1])
    BY <1>3 DEF ChainBy
  <1> DEFINE D == {k \in 0..n : GroupIn(pkg, f[k], closed)}
  <1>7. m \in D
    BY <1>4, <1>5, SigCoverIn
  <1>8. ASSUME NEW k \in 1..m, k \in D PROVE k - 1 \in D
    <2>1. k \in 1..n /\ k - 1 \in 0..n
      BY <1>2, <1>5, <1>8
    <2>2. GroupIn(pkg, Above1(parent, f[k - 1]), closed)
      BY <1>6, <1>8, <2>1
    <2>3. GroupIn(pkg, f[k - 1], closed)
      BY <2>2, SigParentIn
    <2> QED BY <2>1, <2>3
  <1>9. m \in Nat
    BY <1>2, <1>5
  <1>10. \A k \in D : GroupIn(pkg, f[k], closed)
    OBVIOUS
  <1> HIDE DEF D
  <1>11. 0 \in D
    BY <1>7, <1>8, <1>9, DownToZero
  <1> QED BY <1>6, <1>10, <1>11

\* Such a group lies below one with signature middleware.
LEMMA SigChain ==
    ASSUME NEW tree, NEW pkg, PkgParsed(pkg), PkgNamed(pkg), SigTidy(pkg),
           NEW i \in DOMAIN PkgDecls(pkg), NEW x \in NamesIn(pkg, i), x # "",
           Chain(SigCtx(tree, pkg), <<x>>) \cap SigCtx(tree, pkg).cover # {}
    PROVE  <<i, x>> \in UnderSignature(tree, pkg)
  <1>1. ASSUME NEW closed, SigClosed(tree, pkg, closed) PROVE <<i, x>> \in closed
    <2>1. GroupIn(pkg, <<x>>, closed)
      BY <1>1, SigChainIn
    <2> QED BY <2>1 DEF GroupIn
  <1>2. SigClosed(tree, pkg, SigAll(tree, pkg))
    <2> DEFINE ends == {{e[1], e[2]} : e \in SigSteps(pkg)}
    <2>1. SigGroups(tree, pkg) \subseteq SigAll(tree, pkg) /\ UNION ends \subseteq SigAll(tree, pkg)
      BY DEF SigAll
    <2>2. ASSUME NEW e \in SigSteps(pkg) PROVE e[1] \in SigAll(tree, pkg)
      <3>1. {e[1], e[2]} \in ends
        BY <2>2
      <3>2. e[1] \in UNION ends
        BY <3>1
      <3> QED BY <2>1, <3>2
    <2> QED BY <2>1, <2>2 DEF SigClosed
  <1>3. <<i, x>> \in SigAll(tree, pkg)
    BY <1>1, <1>2
  <1> QED BY <1>1, <1>3, UnderSignatureIs

\* No chain leads from a variable without a name to signature middleware.
LEMMA SigChainNamed ==
    ASSUME NEW tree, NEW pkg, PkgParsed(pkg), PkgNamed(pkg), NEW x,
           Chain(SigCtx(tree, pkg), <<x>>) \cap SigCtx(tree, pkg).cover # {}
    PROVE  x # ""
  <1> DEFINE ctx == SigCtx(tree, pkg)
             parent == ctx.parent
             n == Cardinality(DOMAIN parent)
  <1>0. SigSound(tree, pkg, SigCtx(tree, pkg))
    BY SigCtxFrom
  <1>1. IsFiniteSet(DOMAIN parent)
    BY <1>0 DEF SigSound
  <1>2. n \in Nat /\ \E f : ChainBy(ctx, <<x>>, f)
    BY <1>1, ChainClimbs
  <1>3. PICK f : ChainBy(ctx, <<x>>, f)
    BY <1>2
  <1>21. ClimbsTo(f, parent, <<x>>, n) /\ Chain(ctx, <<x>>) = {f[k] : k \in 0..n}
    BY <1>3 DEF ChainBy
  <1>4. PICK h : h \in Chain(ctx, <<x>>) /\ h \in ctx.cover
    OBVIOUS
  <1>5. PICK m \in 0..n : f[m] = h
    BY <1>4, <1>21
  <1>6. f[0] = <<x>> /\ \A k \in 1..n : f[k] = Above1(parent, f[k - 1])
    BY <1>3 DEF ChainBy
  <1> DEFINE none == <<"">>
  <1>19. \A y : <<y>> = none => y = ""
    BY OneName
  <1>20. /\ \A g \in ctx.cover : \E i, s :
               StandsIn(pkg, i, s) /\ g = <<s.on>> /\ <<i, s.on>> \in SigGroups(tree, pkg)
                 /\ s.op \in {"use", "aggregate"}
         /\ \A g \in DOMAIN parent : \E i, s :
               StandsIn(pkg, i, s) /\ s.op = "group" /\ g = <<s.to>> /\ parent[g] = <<s.on>>
    BY <1>0 DEF SigSound
  <1> HIDE DEF n, parent, ctx, none
  <1>7. none \notin DOMAIN parent
    <2>1. ASSUME none \in DOMAIN parent PROVE FALSE
      <3>1. PICK i, s : StandsIn(pkg, i, s) /\ s.op = "group" /\ none = <<s.to>>
        BY <1>20, <2>1
      <3>2. s.to = ""
        BY <1>19, <3>1
      <3> QED BY <3>1, <3>2 DEF PkgNamed, StatementNamed
    <2> QED BY <2>1
  <1>8. h # none
    <2>1. PICK i, s : StandsIn(pkg, i, s) /\ h = <<s.on>> /\ s.op \in {"use", "aggregate"}
      BY <1>4, <1>20
    <2>2. s.on # ""
      BY <2>1 DEF PkgNamed, StatementNamed
    <2>3. ASSUME h = none PROVE FALSE
      <3>1. <<s.on>> = none
        BY <2>1, <2>3
      <3>2. s.on = ""
        BY <1>19, <3>1
      <3> QED BY <2>2, <3>2
    <2> QED BY <2>3
  <1> DEFINE D == {k \in 0..n : f[k] # none}
  <1>9. m \in D
    BY <1>5, <1>8
  <1>10. ASSUME NEW k \in 1..m, k \in D PROVE k - 1 \in D
    <2>0. n \in Nat /\ m \in 0..n /\ k \in 1..m
      BY <1>2, <1>5, <1>10
    <2>1. k \in 1..n /\ k - 1 \in 0..n
      BY ONLY <2>0
    <2>2. Above1(parent, f[k - 1]) # none
      BY <1>6, <1>10, <2>1
    <2>3. f[k - 1] # none
      BY <1>7, <2>2 DEF Above1
    <2> QED BY <2>1, <2>3
  <1>11. m \in Nat
    BY <1>2, <1>5
  <1>12. \A k \in D : f[k] # none
    OBVIOUS
  <1> HIDE DEF D
  <1>13. 0 \in D
    BY <1>9, <1>10, <1>11, DownToZero
  <1>14. <<x>> # none
    BY <1>6, <1>12, <1>13
  <1> QED BY <1>14 DEF none

------------------------------------------------------------------------------
(* What a finding of a verified webhook rests on.                          *)

\* Statement j of the body comes before every parser.
BeforeParsers(body, j) ==
    \A i \in DOMAIN body : body[i].op = "parse" /\ body[i].how \in BodyParsers => j < i

\* It compares a signature, or calls a function of the file that does.
ComparesAt(file, body, j) ==
    \/ body[j].op = "strong"
    \/ body[j].op = "call" /\ \E h \in Range(file.decls) : h.name = body[j].to /\ Does(h.body, "strong")

\* The handler of that name compares before it parses.
OwnCheck(pkg, name) ==
    \E file \in Range(pkg.files) : \E d \in Range(file.decls) :
        d.name = name /\ \E j \in DOMAIN d.body : BeforeParsers(d.body, j) /\ ComparesAt(file, d.body, j)

\* Its route is wrapped, or below signature middleware.
RouteCheck(tree, pkg, name) ==
    \E p \in Placed(pkg) : /\ p[2].op = "verb" /\ p[2].to = name
                           /\ p[2].wrap = "sig" \/ <<p[1], p[2].on>> \in UnderSignature(tree, pkg)

\* Routes are installed below signature middleware.
InstallCheck(tree, pkg) ==
    \E p \in Placed(pkg) : p[2].op = "install" /\ <<p[1], p[2].on>> \in UnderSignature(tree, pkg)

\* One of these, in the directories that count.
WebhookChecked(tree, name) ==
    \/ OwnCheck(tree.dirs[1], name)
    \/ RouteCheck(tree, tree.dirs[1], name)
    \/ \E d \in 2..SigLastDir(tree) : InstallCheck(tree, tree.dirs[d])

\* A handler whose route the context covers is checked at its route.
LEMMA RouteCovered ==
    ASSUME NEW tree, NEW pkg, PkgParsed(pkg), PkgNamed(pkg), SigTidy(pkg), NEW name,
           SigCoveredAt(SigCtx(tree, pkg), 1, name)
    PROVE  RouteCheck(tree, pkg, name)
  <1> DEFINE ctx == SigCtx(tree, pkg)
  <1>0. SigSound(tree, pkg, SigCtx(tree, pkg))
    BY SigCtxFrom
  <1>1. /\ <<name>> \in DOMAIN ctx.handler
        /\ \/ Chain(ctx, ctx.handler[<<name>>]) \cap ctx.cover # {}
           \/ ctx.handler[<<name>>] = WrapperMarker
    BY DEF SigCoveredAt, GroupHasCoverage
  <1>2. PICK i, s : /\ StandsIn(pkg, i, s) /\ s.op = "verb" /\ <<name>> = <<s.to>>
                    /\ s.wrap # "sig" => ctx.handler[<<name>>] = <<s.on>>
    BY <1>1, <1>0 DEF SigSound
  <1>3. name = s.to
    BY <1>2, OneName
  <1>4. ASSUME s.wrap # "sig" PROVE <<i, s.on>> \in UnderSignature(tree, pkg)
    <2>1. <<s.on>> # WrapperMarker
      BY <1>2 DEF PkgNamed, StatementNamed
    <2>2. Chain(ctx, <<s.on>>) \cap ctx.cover # {}
      BY <1>1, <1>2, <1>4, <2>1
    <2>3. s.on # ""
      BY <2>2, SigChainNamed
    <2>4. i \in DOMAIN PkgDecls(pkg) /\ s.on \in NamesIn(pkg, i)
      BY <1>2, StandsNames
    <2> HIDE DEF ctx
    <2> QED BY <2>2, <2>3, <2>4, SigChain DEF ctx
  <1>5. <<i, s>> \in Placed(pkg)
    BY <1>2, PlacedIs
  <1> DEFINE p == <<i, s>>
  <1>6. p[1] = i /\ p[2] = s
    OBVIOUS
  <1> HIDE DEF p
  <1>7. p \in Placed(pkg) /\ p[2].op = "verb" /\ p[2].to = name
    BY <1>2, <1>3, <1>5, <1>6 DEF p
  <1>8. p[2].wrap = "sig" \/ <<p[1], p[2].on>> \in UnderSignature(tree, pkg)
    BY <1>4, <1>6
  <1> QED BY <1>7, <1>8 DEF RouteCheck

\* A directory whose context covers what it installs checks it.
LEMMA InstallCovered ==
    ASSUME NEW tree, NEW pkg, PkgParsed(pkg), PkgNamed(pkg), SigTidy(pkg), NEW name,
           NEW d \in Nat, d > 1, SigCoveredAt(SigCtx(tree, pkg), d, name)
    PROVE  InstallCheck(tree, pkg)
  <1> DEFINE ctx == SigCtx(tree, pkg)
  <1>0. SigSound(tree, pkg, SigCtx(tree, pkg))
    BY SigCtxFrom
  <1>1. PICK g \in ctx.cover, h \in ctx.ir : g \in Chain(ctx, h)
    BY DEF SigCoveredAt, ParentHasMiddlewareCoveringChild
  <1>2. PICK i, s : StandsIn(pkg, i, s) /\ s.op = "install" /\ h = <<s.on>>
    BY <1>1, <1>0 DEF SigSound
  <1>3. s.on # ""
    BY <1>2 DEF PkgNamed, StatementNamed
  <1>4. i \in DOMAIN PkgDecls(pkg) /\ s.on \in NamesIn(pkg, i)
    BY <1>2, StandsNames
  <1>5. Chain(ctx, <<s.on>>) \cap ctx.cover # {}
    BY <1>1, <1>2
  <1>6. <<i, s.on>> \in UnderSignature(tree, pkg)
    <2> HIDE DEF ctx
    <2> QED BY <1>3, <1>4, <1>5, SigChain DEF ctx
  <1>7. <<i, s>> \in Placed(pkg)
    BY <1>2, PlacedIs
  <1> DEFINE p == <<i, s>>
  <1>8. p[1] = i /\ p[2] = s
    OBVIOUS
  <1> HIDE DEF p
  <1>9. p \in Placed(pkg) /\ p[2].op = "install" /\ <<p[1], p[2].on>> \in UnderSignature(tree, pkg)
    BY <1>2, <1>6, <1>7, <1>8 DEF p
  <1> QED BY <1>9 DEF InstallCheck

\* A helper that verifies is a function of the file that compares.
LEMMA HelperCompares ==
    ASSUME NEW file, IsList(file.decls), NEW name, HelperVerifies(file, name)
    PROVE  \E h \in Range(file.decls) : h.name = name /\ Does(h.body, "strong")
  <1> DEFINE decls == file.decls
             funcs == {k \in DOMAIN decls : decls[k].recv = ""}
             S == {k \in funcs : decls[k].name = name}
             m == CHOOSE k \in funcs : decls[k].name = name /\ \A j \in funcs : decls[j].name = name => j <= k
  <1>1. SameFileFuncs(file) = [n \in {decls[k].name : k \in funcs} |->
            decls[CHOOSE k \in funcs : decls[k].name = n /\ \A j \in funcs : decls[j].name = n => j <= k]]
    BY DEF SameFileFuncs
  <1>2. name \in {decls[k].name : k \in funcs} /\ Does(SameFileFuncs(file)[name].body, "strong")
    BY <1>1 DEF HelperVerifies
  <1>3. SameFileFuncs(file)[name] = decls[m]
    BY <1>1, <1>2
  <1>4. S \in SUBSET DOMAIN decls /\ S # {}
    BY <1>2
  <1>5. \A k : k \in S <=> k \in funcs /\ decls[k].name = name
    OBVIOUS
  <1>6. \E k \in S : \A j \in S : j <= k
    <2> HIDE DEF S, decls
    <2> QED BY <1>4, LastIndex DEF decls
  <1> HIDE DEF S
  <1>7. \E k \in funcs : decls[k].name = name /\ \A j \in funcs : decls[j].name = name => j <= k
    BY <1>5, <1>6
  <1>8. m \in funcs /\ decls[m].name = name
    BY <1>7
  <1>9. m \in DOMAIN decls
    BY <1>8
  <1> HIDE DEF m
  <1>10. decls[m] \in Range(decls)
    BY <1>9 DEF Range
  <1> QED BY <1>2, <1>3, <1>8, <1>10

\* A handler that verifies before its first parser is checked by itself.
LEMMA OwnVerified ==
    ASSUME NEW pkg, PkgParsed(pkg), NEW a \in DOMAIN pkg.files, NEW b \in DOMAIN pkg.files[a].decls,
           FirstBodyParserPos(pkg.files[a].decls[b].body) # 0,
           SignatureVerifiedBeforeParser(pkg.files[a], pkg.files[a].decls[b].body)
    PROVE  OwnCheck(pkg, pkg.files[a].decls[b].name)
  <1> DEFINE file == pkg.files[a]
             d == file.decls[b]
             body == d.body
             at == {j \in DOMAIN body : body[j].op = "parse" /\ body[j].how \in BodyParsers}
             first == FirstBodyParserPos(body)
  <1>1. file \in Range(pkg.files) /\ d \in Range(file.decls)
    BY DEF Range
  <1>2. IsList(file.decls) /\ IsList(body)
    BY DEF PkgParsed
  <1>3. at # {} /\ first = Min(at)
    BY DEF FirstBodyParserPos
  <1>4. Len(body) \in Nat /\ DOMAIN body = 1..Len(body)
    BY <1>2, ListFacts
  <1>5. at \in SUBSET Int /\ IsFiniteSet(at)
    <2>1. at \in SUBSET DOMAIN body
      OBVIOUS
    <2> HIDE DEF at, body
    <2>2. IsFiniteSet(DOMAIN body)
      BY <1>4, FS_Interval
    <2>3. IsFiniteSet(at)
      BY <2>1, <2>2, FS_Subset
    <2> QED BY <1>4, <2>1, <2>3
  <1>6. \E k \in at : \A j \in at : k <= j
    <2> HIDE DEF at
    <2> QED BY <1>3, <1>5, LeastMember
  <1>7. first \in at /\ \A j \in at : first <= j
    BY <1>3, <1>6 DEF Min
  <1>8. first \in 1..Len(body)
    BY <1>4, <1>7
  <1>9. PICK j \in 1..(first - 1) :
            body[j].op = "strong" \/ (body[j].op = "call" /\ HelperVerifies(file, body[j].to))
    BY DEF SignatureVerifiedBeforeParser
  <1>10. j \in DOMAIN body /\ j < first
    BY <1>4, <1>8, <1>9
  <1>11. BeforeParsers(body, j)
    <2>1. ASSUME NEW i \in DOMAIN body, body[i].op = "parse" /\ body[i].how \in BodyParsers
          PROVE  j < i
      <3>1. i \in at /\ i \in 1..Len(body)
        BY <1>4, <2>1
      <3>2. first <= i
        BY <1>7, <3>1
      <3>3. j \in 1..Len(body) /\ j < first
        BY <1>4, <1>10
      <3> HIDE DEF first, at, body, d, file
      <3>4. i \in Int /\ first \in Int /\ j \in Int
        BY <1>4, <1>8, <3>1, <3>3
      <3> QED BY <3>2, <3>3, <3>4
    <2> QED BY <2>1 DEF BeforeParsers
  <1> HIDE DEF first, at
  <1>12. ComparesAt(file, body, j)
    <2>1. CASE body[j].op = "strong"
      BY <2>1 DEF ComparesAt
    <2>2. CASE body[j].op = "call" /\ HelperVerifies(file, body[j].to)
      <3>1. \E h \in Range(file.decls) : h.name = body[j].to /\ Does(h.body, "strong")
        BY <1>2, <2>2, HelperCompares
      <3> QED BY <2>2, <3>1 DEF ComparesAt
    <2> QED BY <1>9, <2>1, <2>2
  <1> HIDE DEF d, file
  <1>13. OwnCheck(pkg, d.name)
    BY <1>1, <1>10, <1>11, <1>12 DEF OwnCheck
  <1> QED BY <1>13 DEF d, file

\* The directories of a project.
LEMMA TreeParsed ==
    ASSUME NEW tree \in AuthSources
    PROVE  /\ Len(tree.dirs) \in Nat \ {0} /\ DOMAIN tree.dirs = 1..Len(tree.dirs)
           /\ SigLastDir(tree) \in Nat \ {0} /\ SigLastDir(tree) <= Len(tree.dirs)
           /\ \A d \in DOMAIN tree.dirs : PkgParsed(tree.dirs[d]) /\ PkgNamed(tree.dirs[d])
  <1> DEFINE dirs == tree.dirs
             len == Len(dirs)
  <1>1. IsList(dirs) /\ dirs # <<>> /\ WebhookMaxParentWalk \in Nat
    BY AuthSourcesAssumption
  <1>2. len \in Nat \ {0} /\ DOMAIN dirs = 1..len
    <2> HIDE DEF dirs
    <2>1. dirs \in Seq(Range(dirs)) /\ DOMAIN dirs = 1..len
      BY <1>1, ListFacts
    <2> QED BY <1>1, <2>1
  <1>3. SigLastDir(tree) \in Nat \ {0} /\ SigLastDir(tree) <= len
    <2> DEFINE b == WebhookMaxParentWalk + 1
               S == {len, b}
    <2>1. SigLastDir(tree) = Min(S)
      BY DEF SigLastDir
    <2>2. b \in Nat \ {0}
      BY <1>1
    <2> HIDE DEF b, len
    <2>3. \E x \in S : \A y \in S : x <= y
      <3>1. len <= b \/ b <= len
        BY <1>2, <2>2
      <3> QED BY <1>2, <2>2, <3>1
    <2>4. Min(S) \in S /\ \A y \in S : Min(S) <= y
      BY <2>3 DEF Min
    <2> QED BY <1>2, <2>1, <2>2, <2>4
  <1>4. ASSUME NEW d \in DOMAIN dirs PROVE PkgParsed(dirs[d]) /\ PkgNamed(dirs[d])
    <2> DEFINE pkg == dirs[d]
    <2>1. pkg \in Range(dirs)
      BY DEF Range
    <2>2. /\ IsList(pkg.files)
          /\ \A file \in Range(pkg.files) :
                /\ IsList(file.decls)
                /\ \A f \in Range(file.decls) :
                      IsList(f.body) /\ \A s \in Range(f.body) : StatementNamed(s)
      BY <2>1, AuthSourcesAssumption DEF StatementNamed
    <2> HIDE DEF pkg
    <2>3. PkgParsed(pkg)
      BY <2>2 DEF PkgParsed, Range
    <2>4. ASSUME NEW i, NEW s, StandsIn(pkg, i, s) PROVE StatementNamed(s)
      <3>1. i \in DOMAIN PkgDecls(pkg) /\ s \in Range(PkgDecls(pkg)[i].fn.body)
        BY <2>4 DEF StandsIn
      <3>2. PICK a \in DOMAIN ParsePkgFiles(pkg) : \E b \in DOMAIN ParsePkgFiles(pkg)[a].decls :
               DeclAt(pkg, PkgDecls(pkg)[i], a, b)
        BY <2>3, <3>1, PkgDeclsListed
      <3>3. PICK b \in DOMAIN ParsePkgFiles(pkg)[a].decls : DeclAt(pkg, PkgDecls(pkg)[i], a, b)
        BY <3>2
      <3>4. PkgDecls(pkg)[i].fn = ParsePkgFiles(pkg)[a].decls[b]
        BY <3>3 DEF DeclAt
      <3>5. PICK c \in DOMAIN pkg.files : ParsePkgFiles(pkg)[a] = pkg.files[c]
        BY <2>3, ParsedFiles
      <3>6. pkg.files[c] \in Range(pkg.files) /\ PkgDecls(pkg)[i].fn \in Range(pkg.files[c].decls)
        BY <3>3, <3>4, <3>5 DEF Range
      <3> QED BY <2>2, <3>1, <3>6
    <2>5. PkgNamed(pkg)
      BY <2>4 DEF PkgNamed
    <2> QED BY <2>3, <2>5 DEF pkg
  <1> QED BY <1>2, <1>3, <1>4

------------------------------------------------------------------------------
(* Findings of verified webhooks through a scan.                           *)

\* Every finding of a verified webhook rests on a check.
AllChecked(tree, fs) ==
    /\ IsList(fs)
    /\ \A k \in DOMAIN fs : fs[k].rule = "AUTH-WEBHOOK-VERIFIED" => WebhookChecked(tree, fs[k].handler)

\* Other findings change nothing, nor does one that rests on a check.
LEMMA CheckedLists ==
    ASSUME NEW tree
    PROVE  /\ AllChecked(tree, <<>>)
           /\ \A fs : Lacks("AUTH-WEBHOOK-VERIFIED", fs) => AllChecked(tree, fs)
           /\ \A f : (f.rule = "AUTH-WEBHOOK-VERIFIED" => WebhookChecked(tree, f.handler)) => AllChecked(tree, <<f>>)
  <1>1. IsList(<<>>) /\ DOMAIN <<>> = {}
    BY ShortLists
  <1>2. \A f : IsList(<<f>>) /\ DOMAIN <<f>> = {1} /\ <<f>>[1] = f
    BY ShortLists
  <1> QED BY <1>1, <1>2 DEF AllChecked, Lacks

\* Two such lists joined.
LEMMA CheckedJoin ==
    ASSUME NEW tree, NEW s, NEW t, AllChecked(tree, s), AllChecked(tree, t)
    PROVE  AllChecked(tree, s \o t)
  <1>1. IsList(s) /\ IsList(t)
    BY DEF AllChecked
  <1>2. /\ IsList(s \o t)
        /\ \A k \in DOMAIN (s \o t) :
              \/ k \in DOMAIN s /\ (s \o t)[k] = s[k]
              \/ k - Len(s) \in DOMAIN t /\ (s \o t)[k] = t[k - Len(s)]
    BY <1>1, ListJoin
  <1> QED BY <1>2 DEF AllChecked

\* The downgraded findings about second factors are of their own rule.
LEMMA MfaLacks ==
    ASSUME NEW file, AuthParsed(file)
    PROVE  Lacks("AUTH-WEBHOOK-VERIFIED", ApplyS2SDowngrade(file, DetectMissingMFA(file)))
  <1> DEFINE ds == DetectMissingMFA(file)
             t == ApplyS2SDowngrade(file, ds)
  <1>1. MfaList(file, ds)
    BY MfaDetected
  <1> HIDE DEF ds
  <1>2. MfaList(file, t)
    BY <1>1, MfaDowngraded
  <1> HIDE DEF t
  <1>3. IsList(t) /\ \A i \in DOMAIN t : IsMfa(t[i])
    BY <1>2 DEF MfaList
  <1>4. Lacks("AUTH-WEBHOOK-VERIFIED", t)
    BY <1>3 DEF Lacks, IsMfa
  <1> QED BY <1>4 DEF t, ds

\* The scan in pass at: the directory and declaration in hand exist, the
\* contexts kept are those of their directories, the findings rest on checks.
VerifiedSoFar(tree, at, w) ==
    /\ w.dir \in 1..SigLastDir(tree) /\ w.decl \in Nat \ {0}
    /\ at = "cover" => w.decl \in DOMAIN tree.dirs[1].files[w.file].decls
    /\ \A d \in DOMAIN w.cache : w.cache[d] = SigCtx(tree, tree.dirs[d])
    /\ AllChecked(tree, w.findings)

\* Trees whose packages name each route and group once.
AllTidy(tree) == \A d \in DOMAIN tree.dirs : SigTidy(tree.dirs[d])

\* The inductive invariant of verified webhooks.
AuthVerifiedInv == scanner = "auth" /\ AllTidy(project) => VerifiedSoFar(project, pc, work)

\* A pass that leaves the contexts alone and reports what rests on checks.
LEMMA VerifiedPass ==
    ASSUME NEW tree \in AuthSources, NEW at, NEW next, NEW w, NEW v, NEW t,
           VerifiedSoFar(tree, at, w), next # "cover",
           v.dir \in {1, w.dir}, v.decl \in {1, w.decl, w.decl + 1}, v.cache = w.cache,
           v.findings = w.findings \o t, AllChecked(tree, t)
    PROVE  VerifiedSoFar(tree, next, v)
  <1>1. SigLastDir(tree) \in Nat \ {0}
    BY TreeParsed
  <1>2. w.dir \in 1..SigLastDir(tree) /\ w.decl \in Nat \ {0}
    BY DEF VerifiedSoFar
  <1>3. v.dir \in 1..SigLastDir(tree) /\ v.decl \in Nat \ {0}
    BY <1>1, <1>2
  <1>4. AllChecked(tree, v.findings)
    BY CheckedJoin DEF VerifiedSoFar
  <1> QED BY <1>3, <1>4 DEF VerifiedSoFar

\* The context that a directory has, and what it covers.
LEMMA DirChecked ==
    ASSUME NEW tree \in AuthSources, AllTidy(tree), NEW d \in 1..SigLastDir(tree), NEW name,
           SigCoveredAt(SigCtx(tree, tree.dirs[d]), d, name)
    PROVE  WebhookChecked(tree, name)
  <1> DEFINE pkg == tree.dirs[d]
  <1>1. d \in Nat /\ d \in DOMAIN tree.dirs /\ PkgParsed(pkg) /\ PkgNamed(pkg) /\ SigTidy(pkg)
    BY TreeParsed DEF AllTidy
  <1>2. CASE d = 1
    <2>1. RouteCheck(tree, pkg, name)
      <3>1. SigCoveredAt(SigCtx(tree, pkg), 1, name)
        BY <1>2
      <3> HIDE DEF pkg
      <3> QED BY <1>1, <3>1, RouteCovered
    <2> QED BY <1>2, <2>1 DEF WebhookChecked
  <1>3. CASE d # 1
    <2>1. d > 1 /\ d \in 2..SigLastDir(tree)
      <3>1. SigLastDir(tree) \in Nat
        BY TreeParsed
      <3> QED BY <1>3, <3>1
    <2>2. InstallCheck(tree, pkg)
      <3>1. SigCoveredAt(SigCtx(tree, pkg), d, name)
        OBVIOUS
      <3> HIDE DEF pkg
      <3> QED BY <1>1, <2>1, <3>1, InstallCovered
    <2> QED BY <2>1, <2>2 DEF WebhookChecked
  <1> QED BY <1>2, <1>3

\* The lookup of the context of one directory.
CtxAt(tree, w) == IF w.dir \in DOMAIN w.cache THEN w.cache[w.dir] ELSE BuildSignatureCtx(tree, w.dir)

\* It gives the context of that directory, and keeps only such.
LEMMA CtxLookup ==
    ASSUME NEW tree, NEW w, \A d \in DOMAIN w.cache : w.cache[d] = SigCtx(tree, tree.dirs[d])
    PROVE  /\ CtxAt(tree, w) = SigCtx(tree, tree.dirs[w.dir])
           /\ \A d \in DOMAIN CacheWith(w.cache, w.dir, CtxAt(tree, w)) :
                 CacheWith(w.cache, w.dir, CtxAt(tree, w))[d] = SigCtx(tree, tree.dirs[d])
  <1>1. \A d : BuildSignatureCtx(tree, d) = SigCtx(tree, tree.dirs[d])
    BY DEF BuildSignatureCtx, SigCtx, SigEffects
  <1>2. CtxAt(tree, w) = SigCtx(tree, tree.dirs[w.dir])
    BY <1>1 DEF CtxAt
  <1> DEFINE ctx == CtxAt(tree, w)
             kept == CacheWith(w.cache, w.dir, ctx)
  <1> HIDE DEF ctx
  <1>3. kept = [k \in DOMAIN w.cache \cup {w.dir} |-> IF k = w.dir THEN ctx ELSE w.cache[k]]
    BY DEF CacheWith
  <1> HIDE DEF kept
  <1>4. ASSUME NEW d \in DOMAIN kept PROVE kept[d] = SigCtx(tree, tree.dirs[d])
    <2>1. d \in DOMAIN w.cache \cup {w.dir} /\ kept[d] = IF d = w.dir THEN ctx ELSE w.cache[d]
      BY <1>3, <1>4
    <2> QED BY <1>2, <2>1 DEF ctx
  <1> QED BY <1>2, <1>4 DEF kept, ctx

\* Every pass preserves it.
LEMMA AuthVerifiedInductive ==
    ASSUME AuthPolicyInv, AuthVerifiedInv, [Next]_callVars
    PROVE  AuthVerifiedInv'
  <1> SUFFICES ASSUME scanner' = "auth", AllTidy(project)' PROVE AuthVerifiedInv'
    BY DEF AuthVerifiedInv
  <1> DEFINE tree == project
             files == tree.dirs[1].files
             w == work
             v == work'
             ok == project' = project /\ VerifiedSoFar(tree, pc', v)
  <1>1. scanner = "auth"
    BY ScannerStays
  <1>2. /\ tree \in AuthSources
        /\ DOMAIN work = AuthWork /\ work.file \in Nat \ {0} /\ IsList(work.findings)
        /\ AuthInFile(files, pc, work)
    BY <1>1 DEF AuthPolicyInv
  <1>3. IsList(files) /\ \A i \in DOMAIN files : AuthParsed(files[i])
    BY <1>2, AuthSourcesParsed
  <1>4. AllChecked(tree, <<>>) /\ w.findings = w.findings \o <<>>
    <2>1. w.findings = w.findings \o <<>>
      BY <1>2, NothingAdded
    <2> QED BY <2>1, CheckedLists
  <1>5. project' = project => AllTidy(tree) /\ VerifiedSoFar(tree, pc, w)
    <2>1. AllTidy(project)' /\ project' = project => AllTidy(project)
      BY DEF AllTidy
    <2> QED BY <1>1, <2>1 DEF AuthVerifiedInv
  <1>6. work.file <= Len(files) \/ pc \in {"policy", "mfa", "webhook", "cover"}
           => w.file \in DOMAIN files /\ AuthFile = files[w.file] /\ AuthParsed(AuthFile)
    <2>1. DOMAIN files = 1..Len(files) /\ Len(files) \in Nat
      BY <1>3, ListFacts
    <2>2. work.file <= Len(files) => w.file \in DOMAIN files
      BY <1>2, <2>1
    <2>3. pc \in {"policy", "mfa", "webhook", "cover"} => w.file \in DOMAIN files
      BY <1>2 DEF AuthInFile
    <2> QED BY <1>3, <2>2, <2>3 DEF AuthFile
  <1> SUFFICES ok
    BY DEF AuthVerifiedInv
  <1>7. ASSUME project' = project, NEW t, AllChecked(tree, t), pc' # "cover",
               v.dir \in {1, w.dir}, v.decl \in {1, w.decl, w.decl + 1}, v.cache = w.cache,
               v.findings = w.findings \o t
        PROVE  ok
    <2> HIDE DEF w, v, tree
    <2>1. tree \in AuthSources /\ VerifiedSoFar(tree, pc, w) /\ project' = project
      BY <1>2, <1>5, <1>7
    <2> QED BY <1>7, <2>1, VerifiedPass
  <1>8. CASE AuthParse
    <2>0. project' = project
      BY <1>8 DEF AuthParse, Pass
    <2>1. CASE pc' = "done" /\ work' = work
      <3>1. v.findings = w.findings \o <<>> /\ v.dir = w.dir /\ v.decl = w.decl /\ v.cache = w.cache
        BY <1>4, <2>1
      <3> HIDE DEF w, v, ok
      <3> QED BY <1>4, <1>7, <2>0, <2>1, <3>1
    <2>2. CASE pc' = "failed" /\ work' = [work EXCEPT !.findings = <<>>]
      <3>1. v.dir = w.dir /\ v.decl = w.decl /\ v.cache = w.cache /\ v.findings = <<>>
        BY <1>2, <2>2 DEF AuthWork
      <3>2. VerifiedSoFar(tree, pc, w)
        BY <1>5, <2>0
      <3> HIDE DEF w, v
      <3> QED BY <1>4, <2>0, <2>2, <3>1, <3>2 DEF VerifiedSoFar
    <2>3. CASE pc' = "start" /\ work' = [work EXCEPT !.file = @ + 1]
      <3>1. v.dir = w.dir /\ v.decl = w.decl /\ v.cache = w.cache /\ v.findings = w.findings
        BY <1>2, <2>3 DEF AuthWork
      <3> HIDE DEF w, v, ok
      <3> QED BY <1>4, <1>7, <2>0, <2>3, <3>1
    <2>4. CASE work.file <= Len(files) /\ pc' = "policy" /\ work' = Add(DetectHardcodedPasswords(AuthFile))
      <3> DEFINE fs == DetectHardcodedPasswords(AuthFile)
      <3>1. Lacks("AUTH-WEBHOOK-VERIFIED", fs)
        BY <1>6, <2>4, PasswordsLack
      <3> HIDE DEF fs
      <3>2. AllChecked(tree, fs)
        BY <3>1, CheckedLists
      <3>3. v.dir = w.dir /\ v.decl = w.decl /\ v.cache = w.cache /\ v.findings = w.findings \o fs
        BY <1>2, <2>4 DEF Add, AuthWork, fs
      <3> HIDE DEF w, v, ok
      <3> QED BY <1>7, <2>0, <2>4, <3>2, <3>3
    <2> QED BY <1>8, <2>1, <2>2, <2>3, <2>4 DEF AuthParse, Pass
  <1>9. CASE AuthPolicy
    <2> DEFINE fs == DetectWeakPasswordPolicy(AuthFile)
    <2>1. project' = project /\ pc = "policy" /\ pc' = "mfa" /\ work' = Add(fs)
      BY <1>9 DEF AuthPolicy, Pass
    <2>2. Lacks("AUTH-WEBHOOK-VERIFIED", fs)
      BY <1>6, <2>1, PolicyLacks
    <2> HIDE DEF fs
    <2>3. AllChecked(tree, fs)
      BY <2>2, CheckedLists
    <2>4. v.dir = w.dir /\ v.decl = w.decl /\ v.cache = w.cache /\ v.findings = w.findings \o fs
      BY <1>2, <2>1 DEF Add, AuthWork
    <2> HIDE DEF w, v, ok
    <2> QED BY <1>7, <2>1, <2>3, <2>4
  <1>10. CASE AuthMFA
    <2> DEFINE fs == ApplyS2SDowngrade(AuthFile, DetectMissingMFA(AuthFile))
    <2>1. project' = project /\ pc = "mfa" /\ pc' = "webhook" /\ work' = [Add(fs) EXCEPT !.decl = 1]
      BY <1>10 DEF AuthMFA, Pass
    <2>2. Lacks("AUTH-WEBHOOK-VERIFIED", fs)
      BY <1>6, <2>1, MfaLacks
    <2> HIDE DEF fs
    <2>3. AllChecked(tree, fs)
      BY <2>2, CheckedLists
    <2>4. v.dir = w.dir /\ v.decl = 1 /\ v.cache = w.cache /\ v.findings = w.findings \o fs
      BY <1>2, <2>1 DEF Add, AuthWork
    <2> HIDE DEF w, v, ok
    <2> QED BY <1>7, <2>1, <2>3, <2>4
  <1>11. CASE pc = "webhook" /\ AuthWebhook
    <2> DEFINE d == AuthFile.decls[work.decl]
               found == WebhookFinding(AuthFile, work.decl, TRUE)
    <2>1. /\ project' = project /\ work.decl <= Len(AuthFile.decls)
          /\ \/ pc' = "webhook" /\ work' = NextDecl(work)
             \/ pc' = "cover" /\ work' = work
             \/ /\ pc' = "webhook" /\ work' = NextDecl(Add(<<found>>))
                /\ FirstBodyParserPos(d.body) # 0 /\ SignatureVerifiedBeforeParser(AuthFile, d.body)
      BY <1>11 DEF AuthWebhook, Pass
    <2>2. VerifiedSoFar(tree, pc, w) /\ w.decl \in Nat \ {0} /\ AllTidy(tree)
      BY <1>5, <2>1 DEF VerifiedSoFar
    <2>3. w.file \in DOMAIN files /\ AuthFile = files[w.file] /\ IsList(AuthFile.decls)
      BY <1>6, <1>11 DEF AuthParsed
    <2>4. work.decl \in DOMAIN AuthFile.decls
      <3>1. Len(AuthFile.decls) \in Nat /\ DOMAIN AuthFile.decls = 1..Len(AuthFile.decls)
        BY <2>3, ListFacts
      <3> QED BY <2>1, <2>2, <3>1
    <2>5. CASE pc' = "webhook" /\ work' = NextDecl(work)
      <3>1. v.dir = 1 /\ v.decl = w.decl + 1 /\ v.cache = w.cache /\ v.findings = w.findings
        BY <1>2, <2>5 DEF NextDecl, AuthWork
      <3> HIDE DEF w, v, ok
      <3> QED BY <1>4, <1>7, <2>1, <2>5, <3>1
    <2>6. CASE pc' = "cover" /\ work' = work
      <3>1. w.decl \in DOMAIN tree.dirs[1].files[w.file].decls
        BY <2>3, <2>4
      <3>2. v = w
        BY <2>6
      <3> HIDE DEF w, v
      <3> QED BY <2>1, <2>2, <2>6, <3>1, <3>2 DEF VerifiedSoFar
    <2>7. CASE /\ pc' = "webhook" /\ work' = NextDecl(Add(<<found>>))
               /\ FirstBodyParserPos(d.body) # 0 /\ SignatureVerifiedBeforeParser(AuthFile, d.body)
      <3> DEFINE pkg == tree.dirs[1]
      <3>1. PkgParsed(pkg)
        BY <1>2, TreeParsed
      <3>2. AuthFile = pkg.files[w.file] /\ w.file \in DOMAIN pkg.files
        BY <2>3
      <3>3. OwnCheck(pkg, d.name)
        <4> HIDE DEF pkg
        <4> QED BY <2>4, <2>7, <3>1, <3>2, OwnVerified
      <3>4. found.handler = d.name
        BY DEF WebhookFinding, AuthFinding
      <3>5. WebhookChecked(tree, found.handler)
        BY <3>3, <3>4 DEF WebhookChecked
      <3> HIDE DEF found
      <3>6. AllChecked(tree, <<found>>)
        BY <3>5, CheckedLists
      <3> DEFINE fs == <<found>>
      <3>7. work' = NextDecl(Add(fs)) /\ AllChecked(tree, fs)
        BY <2>7, <3>6
      <3> HIDE DEF fs
      <3>8. v.dir = 1 /\ v.decl = w.decl + 1 /\ v.cache = w.cache /\ v.findings = w.findings \o fs
        BY <1>2, <3>7 DEF NextDecl, Add, AuthWork
      <3> HIDE DEF w, v, ok
      <3> QED BY <1>7, <2>1, <2>7, <3>7, <3>8
    <2> QED BY <2>1, <2>5, <2>6, <2>7
  <1>12. CASE pc = "webhook" /\ AuthFileDone
    <2>1. project' = project /\ pc' = "start" /\ work' = [work EXCEPT !.file = @ + 1]
      BY <1>12 DEF AuthFileDone, Pass
    <2>2. v.dir = w.dir /\ v.decl = w.decl /\ v.cache = w.cache /\ v.findings = w.findings
      BY <1>2, <2>1 DEF AuthWork
    <2> HIDE DEF w, v, ok
    <2> QED BY <1>4, <1>7, <2>1, <2>2
  <1>13. CASE pc = "cover" /\ AuthCover
    <2> DEFINE d == AuthFile.decls[work.decl]
               ctx == CtxAt(tree, work)
               found(y) == WebhookFinding(AuthFile, work.decl, y)
               kept == CacheWith(work.cache, work.dir, ctx)
    <2>1. project' = project
      BY <1>13 DEF AuthCover, Pass
    <2>2. /\ AllTidy(tree) /\ w.dir \in 1..SigLastDir(tree) /\ w.decl \in Nat \ {0}
          /\ w.decl \in DOMAIN tree.dirs[1].files[w.file].decls
          /\ \A e \in DOMAIN w.cache : w.cache[e] = SigCtx(tree, tree.dirs[e])
          /\ AllChecked(tree, w.findings)
      BY <1>5, <1>13, <2>1 DEF VerifiedSoFar
    <2>3. /\ ctx = SigCtx(tree, tree.dirs[w.dir])
          /\ \A e \in DOMAIN kept : kept[e] = SigCtx(tree, tree.dirs[e])
      <3>1. \A e \in DOMAIN w.cache : w.cache[e] = SigCtx(tree, tree.dirs[e])
        BY <2>2
      <3> HIDE DEF tree
      <3> QED BY <3>1, CtxLookup
    <2>4. \/ /\ SigCoveredAt(ctx, work.dir, d.name) /\ pc' = "webhook"
             /\ work' = [NextDecl(Add(<<found(TRUE)>>)) EXCEPT !.cache = CacheWith(@, work.dir, ctx)]
          \/ /\ work.dir < SigLastDir(tree) /\ pc' = "cover"
             /\ work' = [[work EXCEPT !.dir = @ + 1] EXCEPT !.cache = CacheWith(@, work.dir, ctx)]
          \/ /\ pc' = "webhook"
             /\ work' = [NextDecl(Add(<<found(FALSE)>>)) EXCEPT !.cache = CacheWith(@, work.dir, ctx)]
      BY <1>13 DEF AuthCover, Pass, CtxAt
    <2>5. SigLastDir(tree) \in Nat \ {0} /\ 1 \in 1..SigLastDir(tree)
      BY <1>2, TreeParsed
    <2>6. SigCoveredAt(ctx, work.dir, d.name) => WebhookChecked(tree, d.name)
      <3> HIDE DEF d, ctx, tree
      <3> QED BY <1>2, <2>2, <2>3, DirChecked
    <2>7. \A y : found(y).handler = d.name /\ (~y => found(y).rule # "AUTH-WEBHOOK-VERIFIED")
      BY DEF WebhookFinding, AuthFinding
    <2> HIDE DEF found, ctx, d
    <2>8. ASSUME NEW y, y => WebhookChecked(tree, d.name), y \in BOOLEAN, pc' = "webhook",
                 work' = [NextDecl(Add(<<found(y)>>)) EXCEPT !.cache = CacheWith(@, work.dir, ctx)]
          PROVE  ok
      <3> DEFINE fs == <<found(y)>>
      <3>1. found(y).rule = "AUTH-WEBHOOK-VERIFIED" => WebhookChecked(tree, found(y).handler)
        BY <2>7, <2>8
      <3>2. AllChecked(tree, fs)
        BY <3>1, CheckedLists
      <3>3. work' = [NextDecl(Add(fs)) EXCEPT !.cache = CacheWith(@, work.dir, ctx)]
        BY <2>8
      <3> HIDE DEF fs
      <3>4. v.dir = 1 /\ v.decl = w.decl + 1 /\ v.cache = kept /\ v.findings = w.findings \o fs
        BY <1>2, <3>3 DEF NextDecl, Add, AuthWork
      <3> HIDE DEF w, v, kept
      <3>5. AllChecked(tree, v.findings)
        BY <2>2, <3>2, <3>4, CheckedJoin
      <3>6. v.decl \in Nat \ {0}
        BY <2>2, <3>4
      <3> QED BY <2>1, <2>3, <2>5, <2>8, <3>4, <3>5, <3>6 DEF VerifiedSoFar
    <2>9. CASE /\ work.dir < SigLastDir(tree) /\ pc' = "cover"
               /\ work' = [[work EXCEPT !.dir = @ + 1] EXCEPT !.cache = CacheWith(@, work.dir, ctx)]
      <3>1. v.dir = w.dir + 1 /\ v.decl = w.decl /\ v.cache = kept /\ v.findings = w.findings /\ v.file = w.file
        BY <1>2, <2>9 DEF AuthWork
      <3>2. w.dir < SigLastDir(tree)
        BY <2>9
      <3> HIDE DEF w, v, kept
      <3>3. v.dir \in 1..SigLastDir(tree)
        BY <2>2, <2>5, <3>1, <3>2
      <3> QED BY <2>1, <2>2, <2>3, <2>9, <3>1, <3>3 DEF VerifiedSoFar
    <2> QED BY <2>4, <2>6, <2>8, <2>9
  <1>14. CASE UNCHANGED callVars
    <2>1. project' = project /\ work' = work /\ pc' = pc
      BY <1>14 DEF callVars
    <2> QED BY <1>5, <2>1
  <1> QED BY <1>1, <1>8, <1>9, <1>10, <1>11, <1>12, <1>13, <1>14 DEF Next, AuthNext, Returned

(* AuthVerifiedInv holds of every call on every project: on tidy packages, *)
(* a webhook handler is only ever called verified when its own body, its   *)
(* route or an installing directory has a check for it, and the contexts   *)
(* kept for that are those of their directories.                           *)
THEOREM AuthVerifiedInvariant == Spec => []AuthVerifiedInv
  <1>1. Init => AuthVerifiedInv
    <2> SUFFICES ASSUME Init, scanner = "auth" PROVE AuthVerifiedInv
      BY DEF AuthVerifiedInv
    <2>1. work = AuthIdle /\ pc = "start" /\ project \in AuthSources
      BY DEF Init, SqlInit, AuditInit, AuthInit, PanInit, Called
    <2>2. work.dir = 1 /\ work.decl = 1 /\ work.findings = <<>> /\ work.cache = <<>>
      BY <2>1 DEF AuthIdle
    <2>3. AllChecked(project, <<>>)
      BY CheckedLists
    <2>4. DOMAIN work.cache = {}
      BY <2>2, ShortLists
    <2>5. SigLastDir(project) \in Nat \ {0}
      BY <2>1, TreeParsed
    <2>6. work.dir \in 1..SigLastDir(project)
      BY <2>2, <2>5
    <2> QED BY <2>1, <2>2, <2>3, <2>4, <2>6 DEF AuthVerifiedInv, VerifiedSoFar
  <1>2. AuthPolicyInv /\ AuthVerifiedInv /\ [Next]_callVars => AuthVerifiedInv'
    BY AuthVerifiedInductive
  <1>3. Spec => []AuthPolicyInv
    BY AuthPolicyInvariant
  <1> QED BY <1>1, <1>2, <1>3, PTL DEF Spec

(* AuthVerifiedIsReal holds of every call on every project.                *)
THEOREM AuthVerifiedAlwaysReal == Spec => []AuthVerifiedIsReal
  <1> DEFINE pkg == project.dirs[1]
             rule == "AUTH-WEBHOOK-VERIFIED"
             route(name) == {p \in Placed(pkg) : p[2].op = "verb" /\ p[2].to = name}
             installs(d) == {<<p[1], p[2].on>> : p \in {q \in Placed(project.dirs[d]) : q[2].op = "install"}}
             before(file, d, j) == \A i \in DOMAIN d.body :
                                     d.body[i].op = "parse" /\ d.body[i].how \in BodyParsers => j < i
             ByItself(name) ==
               \E file \in Range(pkg.files) : \E d \in Range(file.decls) :
                 /\ d.name = name
                 /\ \E j \in DOMAIN d.body :
                      /\ before(file, d, j)
                      /\ \/ d.body[j].op = "strong"
                         \/ /\ d.body[j].op = "call"
                            /\ \E h \in Range(file.decls) : h.name = d.body[j].to /\ Does(h.body, "strong")
             AtRoute(name) ==
               \E p \in route(name) : p[2].wrap = "sig" \/ <<p[1], p[2].on>> \in UnderSignature(project, pkg)
             Above == \E d \in 2..SigLastDir(project) :
                        installs(d) \cap UnderSignature(project, project.dirs[d]) # {}
  <1>1. ASSUME AuthPolicyInv, AuthVerifiedInv PROVE AuthVerifiedIsReal
    <2> SUFFICES ASSUME Done("auth"), \A d \in DOMAIN project.dirs : SigTidy(project.dirs[d]),
                        NEW f \in Range(AuthOf(rule))
                 PROVE  ByItself(f.handler) \/ AtRoute(f.handler) \/ Above
      BY DEF AuthVerifiedIsReal
    <2>1. IsList(work.findings) /\ AllChecked(project, work.findings)
      BY <1>1 DEF Done, AuthPolicyInv, AuthVerifiedInv, AllTidy, VerifiedSoFar
    <2> DEFINE fs == work.findings
               S == {i \in DOMAIN fs : fs[i].rule = rule}
    <2>2. AuthOf(rule) = Where(fs, S) /\ S \in SUBSET DOMAIN fs
      BY DEF AuthOf
    <2>3. \A i \in S : i \in DOMAIN fs /\ fs[i].rule = rule
      OBVIOUS
    <2> HIDE DEF S, fs, rule
    <2>4. \A k \in DOMAIN Where(fs, S) : \E i \in S : Where(fs, S)[k] = fs[i]
      BY <2>1, <2>2, ListWhere DEF fs
    <2>5. PICK k \in DOMAIN AuthOf(rule) : f = AuthOf(rule)[k]
      BY DEF Range
    <2>6. PICK i \in S : f = fs[i]
      BY <2>2, <2>4, <2>5
    <2>7. WebhookChecked(project, f.handler)
      BY <2>1, <2>3, <2>6 DEF AllChecked, fs, rule
    <2> DEFINE name == f.handler
    <2> HIDE DEF name
    <2>8. OwnCheck(pkg, name) => ByItself(name)
      BY DEF OwnCheck, BeforeParsers, ComparesAt
    <2>9. RouteCheck(project, pkg, name) => AtRoute(name)
      BY DEF RouteCheck
    <2>10. ASSUME NEW d \in 2..SigLastDir(project), InstallCheck(project, project.dirs[d]) PROVE Above
      <3>1. PICK p \in Placed(project.dirs[d]) :
               p[2].op = "install" /\ <<p[1], p[2].on>> \in UnderSignature(project, project.dirs[d])
        BY <2>10 DEF InstallCheck
      <3>2. <<p[1], p[2].on>> \in installs(d)
        BY <3>1
      <3> HIDE DEF installs
      <3> QED BY <3>1, <3>2
    <2> HIDE DEF ByItself, AtRoute, Above
    <2>11. ByItself(name) \/ AtRoute(name) \/ Above
      BY <2>7, <2>8, <2>9, <2>10 DEF WebhookChecked, name
    <2> QED BY <2>11 DEF name
  <1>2. Spec => []AuthPolicyInv
    BY AuthPolicyInvariant
  <1>3. Spec => []AuthVerifiedInv
    BY AuthVerifiedInvariant
  <1> QED BY <1>1, <1>2, <1>3, PTL

------------------------------------------------------------------------------
(* The groups above a group: the walk comes back to where it was, or stops.*)

\* What holds at 0 and passes one up holds up to m.
LEMMA UpToAll ==
    ASSUME NEW m \in Nat, NEW D, 0 \in D, \A k \in 1..m : k - 1 \in D => k \in D
    PROVE  \A k \in 0..m : k \in D
  <1> DEFINE Bad == {k \in 0..m : k \notin D}
  <1>1. SUFFICES ASSUME Bad # {} PROVE FALSE
    OBVIOUS
  <1>2. Bad \in SUBSET Int /\ IsFiniteSet(Bad)
    <2>1. IsFiniteSet(0..m) /\ Bad \in SUBSET (0..m)
      BY FS_Interval
    <2> QED BY <2>1, FS_Subset
  <1>3. PICK b \in Bad : \A k \in Bad : b <= k
    <2> HIDE DEF Bad
    <2> QED BY <1>1, <1>2, LeastMember
  <1>4. b \in 0..m /\ b \notin D
    OBVIOUS
  <1>5. b \in 1..m /\ b - 1 \in 0..m
    BY <1>4
  <1>6. b - 1 \notin Bad
    BY <1>3, <1>5
  <1> QED BY <1>4, <1>5, <1>6

\* As many steps as there are groups with a parent are enough: one more comes
\* to a group that was met before.
LEMMA ClimbEnough ==
    ASSUME NEW parent, IsFiniteSet(DOMAIN parent), NEW g, NEW f,
           ClimbsTo(f, parent, g, Cardinality(DOMAIN parent))
    PROVE  \A k \in 0..Cardinality(DOMAIN parent) :
              \E j \in 0..Cardinality(DOMAIN parent) : f[j] = Above1(parent, f[k])
  <1> DEFINE n == Cardinality(DOMAIN parent)
             D == DOMAIN parent
  <1>1. n \in Nat
    BY FS_CardinalityType
  <1>2. f[0] = g /\ (\A k \in 1..n : f[k] = Above1(parent, f[k - 1])) /\ DOMAIN f = 0..n
        /\ f = [k \in 0..n |-> f[k]]
    BY <1>1, ClimbStep DEF ClimbsTo
  <1> HIDE DEF n
  <1>3. ASSUME NEW k \in 0..n, k # n PROVE \E j \in 0..n : f[j] = Above1(parent, f[k])
    <2>1. k + 1 \in 1..n /\ k + 1 \in 0..n /\ (k + 1) - 1 = k
      BY <1>1, <1>3
    <2> QED BY <1>2, <2>1
  <1>4. SUFFICES ASSUME \A j \in 0..n : f[j] # Above1(parent, f[n]) PROVE FALSE
    BY <1>3 DEF n
  <1>5. ASSUME NEW k \in 0..n PROVE f[k] \in D
    <2> SUFFICES ASSUME f[k] \notin D PROVE FALSE
      OBVIOUS
    <2> DEFINE S == {t \in 0..(n - k) : f[k + t] = f[k]}
    <2>1. n - k \in Nat /\ 0 \in S
      BY <1>1
    <2>2. ASSUME NEW t \in 1..(n - k), t - 1 \in S PROVE t \in S
      <3>1. k + t \in 1..n /\ (k + t) - 1 = k + (t - 1) /\ t \in 0..(n - k)
        BY <1>1, <2>2
      <3>2. f[k + t] = Above1(parent, f[k + (t - 1)])
        BY <1>2, <3>1
      <3>3. f[k + (t - 1)] = f[k]
        BY <2>2
      <3> QED BY <3>1, <3>2, <3>3 DEF Above1
    <2>3. \A t \in S : f[k + t] = f[k]
      OBVIOUS
    <2> HIDE DEF S
    <2>4. n - k \in S
      <3>1. \A t \in 0..(n - k) : t \in S
        BY <2>1, <2>2, UpToAll
      <3> QED BY <2>1, <3>1
    <2>5. k + (n - k) = n
      BY <1>1
    <2>6. f[n] = f[k]
      BY <2>3, <2>4, <2>5
    <2> QED BY <1>1, <1>4, <2>6 DEF Above1
  <1>6. IsFiniteSet(0..n) /\ Cardinality(0..n) = n + 1
    <2>1. 0 \in Int /\ n \in Int /\ 0 <= n
      BY <1>1
    <2> QED BY <2>1, FS_Interval
  <1>7. f \in [0..n -> D]
    BY <1>2, <1>5
  <1>8. Cardinality(D) < Cardinality(0..n)
    BY <1>1, <1>6 DEF n
  <1>9. \E x, y \in 0..n : x # y /\ f[x] = f[y]
    BY <1>6, <1>7, <1>8, FS_PigeonHole
  <1>10. PICK i, j \in 0..n : i < j /\ f[i] = f[j]
    <2>1. PICK x, y \in 0..n : x # y /\ f[x] = f[y]
      BY <1>9
    <2>2. x < y \/ y < x
      BY <1>1, <2>1
    <2> QED BY <2>1, <2>2
  <1> DEFINE S == {t \in 0..(n - j) : f[i + t] = f[j + t]}
  <1>11. n - j \in Nat /\ 0 \in S
    BY <1>1, <1>10
  <1>12. ASSUME NEW t \in 1..(n - j), t - 1 \in S PROVE t \in S
    <2>1. /\ i + t \in 1..n /\ j + t \in 1..n /\ t \in 0..(n - j)
          /\ (i + t) - 1 = i + (t - 1) /\ (j + t) - 1 = j + (t - 1)
      BY <1>1, <1>10, <1>12
    <2>2. f[i + t] = Above1(parent, f[i + (t - 1)]) /\ f[j + t] = Above1(parent, f[j + (t - 1)])
      BY <1>2, <2>1
    <2>3. f[i + (t - 1)] = f[j + (t - 1)]
      BY <1>12
    <2> QED BY <2>1, <2>2, <2>3
  <1>13. \A t \in S : f[i + t] = f[j + t]
    OBVIOUS
  <1> HIDE DEF S
  <1>14. n - j \in S
    <2>1. \A t \in 0..(n - j) : t \in S
      BY <1>11, <1>12, UpToAll
    <2> QED BY <1>11, <2>1
  <1> DEFINE l == (i + (n - j)) + 1
  <1>15. j + (n - j) = n /\ l \in 1..n /\ l \in 0..n /\ l - 1 = i + (n - j)
    BY <1>1, <1>10
  <1>16. f[i + (n - j)] = f[n]
    BY <1>13, <1>14, <1>15
  <1> HIDE DEF l
  <1>17. f[l] = Above1(parent, f[n])
    BY <1>2, <1>15, <1>16
  <1> QED BY <1>4, <1>15, <1>17

\* A group with a logger of its own has coverage.
LEMMA CoverReached ==
    ASSUME NEW ctx, IsFiniteSet(DOMAIN ctx.parent), NEW g \in ctx.cover
    PROVE  GroupHasCoverage(ctx, g)
  <1> DEFINE n == Cardinality(DOMAIN ctx.parent)
  <1>0. n \in Nat /\ \E f : ChainBy(ctx, g, f)
    BY ChainClimbs
  <1>1. PICK f : ChainBy(ctx, g, f)
    BY <1>0
  <1>2. n \in Nat /\ f[0] = g /\ Chain(ctx, g) = {f[k] : k \in 0..n}
    BY <1>0, <1>1 DEF ChainBy
  <1>3. g \in Chain(ctx, g)
    <2> HIDE DEF n
    <2> QED BY <1>2
  <1> QED BY <1>3 DEF GroupHasCoverage

\* So has a group below one that has.
LEMMA ParentReached ==
    ASSUME NEW ctx, IsFiniteSet(DOMAIN ctx.parent), NEW g \in DOMAIN ctx.parent,
           GroupHasCoverage(ctx, ctx.parent[g])
    PROVE  GroupHasCoverage(ctx, g)
  <1> DEFINE parent == ctx.parent
             n == Cardinality(DOMAIN ctx.parent)
             up == ctx.parent[g]
  <1>0. n \in Nat /\ (\E f : ChainBy(ctx, g, f)) /\ \E h : ChainBy(ctx, up, h)
    BY ChainClimbs
  <1>21. PICK f : ChainBy(ctx, g, f)
    BY <1>0
  <1>22. PICK h : ChainBy(ctx, up, h)
    BY <1>0
  <1>1. n \in Nat /\ ClimbsTo(f, parent, g, n) /\ Chain(ctx, g) = {f[k] : k \in 0..n}
    BY <1>0, <1>21 DEF ChainBy
  <1>2. Chain(ctx, up) = {h[k] : k \in 0..n}
    BY <1>22 DEF ChainBy
  <1>3. f[0] = g
    BY <1>21 DEF ChainBy
  <1>4. h[0] = up /\ \A k \in 1..n : h[k] = Above1(parent, h[k - 1])
    BY <1>22 DEF ChainBy
  <1>5. \A k \in 0..n : \E j \in 0..n : f[j] = Above1(parent, f[k])
    BY <1>1, ClimbEnough
  <1> DEFINE S == {k \in 0..n : \E j \in 0..n : f[j] = h[k]}
  <1>6. 0 \in S
    <2>1. Above1(parent, f[0]) = up
      BY <1>3 DEF Above1
    <2> QED BY <1>1, <1>4, <1>5, <2>1
  <1>7. ASSUME NEW k \in 1..n, k - 1 \in S PROVE k \in S
    <2>1. PICK j \in 0..n : f[j] = h[k - 1]
      BY <1>7
    <2>2. h[k] = Above1(parent, f[j]) /\ k \in 0..n
      BY <1>1, <1>4, <2>1
    <2> QED BY <1>5, <2>2
  <1>8. \A k \in S : \E j \in 0..n : f[j] = h[k]
    OBVIOUS
  <1>9. PICK x : x \in Chain(ctx, up) /\ x \in ctx.cover
    BY DEF GroupHasCoverage
  <1> HIDE DEF S, n
  <1>10. PICK k \in 0..n : h[k] = x
    BY <1>2, <1>9
  <1>11. k \in S
    BY <1>1, <1>6, <1>7, UpToAll
  <1>12. x \in Chain(ctx, g)
    BY <1>1, <1>8, <1>10, <1>11
  <1> QED BY <1>9, <1>12 DEF GroupHasCoverage

------------------------------------------------------------------------------
(* What the two passes over a package do: one effect per statement, then   *)
(* one per statement of an InstallRoutes method and argument.              *)

\* The effect of one statement of a file with these imports.
StmEffect(tree, imports, s) ==
    CASE s.on = "" -> Effect("", <<>>, <<>>)
      [] s.on # "" /\ s.op = "group" -> Effect("parent", <<s.to>>, <<s.on>>)
      [] s.on # "" /\ s.op = "verb" -> Effect("handler", <<s.to>>, <<s.on>>)
      [] s.on # "" /\ s.op = "install" -> Effect("ir", <<s.on>>, <<>>)
      [] s.on # "" /\ (\/ s.op = "use" /\ s.how = "logger"
                       \/ /\ s.op = "aggregate" /\ s.how \in AggregatorFuncNames
                          /\ s.to \in imports
                          /\ ResolveExternalMiddleware(tree, s.to)) -> Effect("cover", <<s.on>>, <<>>)
      [] OTHER -> Effect("", <<>>, <<>>)

\* Effect e is that of statement s of function i.
EffectOf(tree, pkg, e, i, s) ==
    StandsIn(pkg, i, s) /\ e = StmEffect(tree, PkgDecls(pkg)[i].imports, s)

\* The effects of the first pass, in the order of the files.
FirstPass(tree, pkg) ==
    FlattenSeq([k \in DOMAIN ParsePkgFiles(pkg) |-> PassA(tree, ParsePkgFiles(pkg)[k])])

\* The effects of a file are those of its statements.
FileEffects(tree, pkg, file, es) ==
    /\ IsList(es)
    /\ \A k \in DOMAIN es : \E i, s : EffectOf(tree, pkg, es[k], i, s)
    /\ \A b \in DOMAIN file.decls : \A j \in DOMAIN file.decls[b].body :
          \E k \in DOMAIN es : es[k] = StmEffect(tree, file.imports, file.decls[b].body[j])

LEMMA FilePass ==
    ASSUME NEW tree, NEW pkg, PkgParsed(pkg), NEW a \in DOMAIN ParsePkgFiles(pkg)
    PROVE  FileEffects(tree, pkg, ParsePkgFiles(pkg)[a], PassA(tree, ParsePkgFiles(pkg)[a]))
  <1> DEFINE file == ParsePkgFiles(pkg)[a]
             es == PassA(tree, file)
             body == Body(file)
  <1>1. IsList(file.decls) /\ \A b \in DOMAIN file.decls : IsList(file.decls[b].body)
    BY ParsedFile
  <1>2. /\ IsList(body)
        /\ \A k \in DOMAIN body : \E b \in DOMAIN file.decls : \E j \in DOMAIN file.decls[b].body :
              body[k] = file.decls[b].body[j]
        /\ \A b \in DOMAIN file.decls : \A j \in DOMAIN file.decls[b].body :
              \E k \in DOMAIN body : body[k] = file.decls[b].body[j]
    BY <1>1, BodyListed
  <1>3. es = [k \in DOMAIN body |-> StmEffect(tree, file.imports, body[k])]
    BY DEF PassA, StmEffect
  <1>4. Len(body) \in Nat /\ DOMAIN body = 1..Len(body)
    BY <1>2, ListFacts
  <1> HIDE DEF es, body
  <1>5. DOMAIN es = 1..Len(body) /\ es = [k \in DOMAIN es |-> es[k]] /\ DOMAIN es = DOMAIN body
        /\ \A k \in DOMAIN body : es[k] = StmEffect(tree, file.imports, body[k])
    BY <1>3, <1>4
  <1>6. IsList(es)
    BY <1>4, <1>5, FunctionIsList
  <1>7. ASSUME NEW k \in DOMAIN es PROVE \E i, s : EffectOf(tree, pkg, es[k], i, s)
    <2>1. PICK b \in DOMAIN file.decls : \E j \in DOMAIN file.decls[b].body : body[k] = file.decls[b].body[j]
      BY <1>2, <1>5
    <2>2. body[k] \in Range(file.decls[b].body)
      BY <2>1 DEF Range
    <2>3. PICK i \in DOMAIN PkgDecls(pkg) : DeclAt(pkg, PkgDecls(pkg)[i], a, b)
      BY <2>1, PkgDeclsListed
    <2>4. PkgDecls(pkg)[i].fn = file.decls[b] /\ PkgDecls(pkg)[i].imports = file.imports
      BY <2>3 DEF DeclAt
    <2>5. EffectOf(tree, pkg, es[k], i, body[k])
      BY <1>5, <2>2, <2>3, <2>4 DEF EffectOf, StandsIn
    <2> QED BY <2>5
  <1>8. \A b \in DOMAIN file.decls : \A j \in DOMAIN file.decls[b].body :
           \E k \in DOMAIN es : es[k] = StmEffect(tree, file.imports, file.decls[b].body[j])
    <2> SUFFICES ASSUME NEW b \in DOMAIN file.decls, NEW j \in DOMAIN file.decls[b].body
                 PROVE  \E k \in DOMAIN es : es[k] = StmEffect(tree, file.imports, file.decls[b].body[j])
      OBVIOUS
    <2>1. PICK k \in DOMAIN body : body[k] = file.decls[b].body[j]
      BY <1>2
    <2> QED BY <1>5, <2>1
  <1>9. FileEffects(tree, pkg, file, es)
    BY <1>6, <1>7, <1>8 DEF FileEffects
  <1> QED BY <1>9 DEF es

\* The first pass: an effect for every statement, and no others.
LEMMA FirstPassListed ==
    ASSUME NEW tree, NEW pkg, PkgParsed(pkg)
    PROVE  /\ IsList(FirstPass(tree, pkg))
           /\ \A k \in DOMAIN FirstPass(tree, pkg) : \E i, s : EffectOf(tree, pkg, FirstPass(tree, pkg)[k], i, s)
           /\ \A i, s : StandsIn(pkg, i, s) =>
                 \E k \in DOMAIN FirstPass(tree, pkg) : EffectOf(tree, pkg, FirstPass(tree, pkg)[k], i, s)
  <1> DEFINE files == ParsePkgFiles(pkg)
             rows == [k \in DOMAIN files |-> PassA(tree, files[k])]
             es == FirstPass(tree, pkg)
  <1>1. es = FlattenSeq(rows)
    BY DEF FirstPass
  <1>2. IsList(files)
    BY ParsedFiles
  <1>3. Len(files) \in Nat /\ DOMAIN files = 1..Len(files)
    BY <1>2, ListFacts
  <1>4. DOMAIN rows = DOMAIN files /\ rows = [k \in DOMAIN rows |-> rows[k]]
        /\ \A k \in DOMAIN files : rows[k] = PassA(tree, files[k])
    OBVIOUS
  <1> HIDE DEF rows
  <1>5. IsList(rows)
    BY <1>3, <1>4, FunctionIsList
  <1>6. \A a \in DOMAIN rows :
           /\ IsList(rows[a])
           /\ \A k \in DOMAIN rows[a] : \E i, s : EffectOf(tree, pkg, rows[a][k], i, s)
           /\ \A b \in DOMAIN files[a].decls : \A j \in DOMAIN files[a].decls[b].body :
                 \E k \in DOMAIN rows[a] : rows[a][k] = StmEffect(tree, files[a].imports, files[a].decls[b].body[j])
    <2> SUFFICES ASSUME NEW a \in DOMAIN rows
                 PROVE  /\ IsList(rows[a])
                        /\ \A k \in DOMAIN rows[a] : \E i, s : EffectOf(tree, pkg, rows[a][k], i, s)
                        /\ \A b \in DOMAIN files[a].decls : \A j \in DOMAIN files[a].decls[b].body :
                              \E k \in DOMAIN rows[a] :
                                 rows[a][k] = StmEffect(tree, files[a].imports, files[a].decls[b].body[j])
      OBVIOUS
    <2>1. rows[a] = PassA(tree, files[a]) /\ a \in DOMAIN files
      BY <1>4
    <2>2. FileEffects(tree, pkg, files[a], PassA(tree, files[a]))
      BY <2>1, FilePass
    <2>3. FileEffects(tree, pkg, files[a], rows[a])
      BY <2>1, <2>2
    <2> HIDE DEF files
    <2> QED BY <2>3 DEF FileEffects
  <1> HIDE DEF es, files
  <1>7. /\ IsList(FlattenSeq(rows))
        /\ \A k \in DOMAIN FlattenSeq(rows) :
              \E a \in DOMAIN rows : \E j \in DOMAIN rows[a] : FlattenSeq(rows)[k] = rows[a][j]
        /\ \A a \in DOMAIN rows : \A j \in DOMAIN rows[a] :
              \E k \in DOMAIN FlattenSeq(rows) : FlattenSeq(rows)[k] = rows[a][j]
    BY <1>5, <1>6, ListFlatten
  <1>8. \A k \in DOMAIN es : \E i, s : EffectOf(tree, pkg, es[k], i, s)
    BY <1>1, <1>6, <1>7
  <1>9. ASSUME NEW i, NEW s, StandsIn(pkg, i, s)
        PROVE  \E k \in DOMAIN es : EffectOf(tree, pkg, es[k], i, s)
    <2>1. i \in DOMAIN PkgDecls(pkg) /\ s \in Range(PkgDecls(pkg)[i].fn.body)
      BY <1>9 DEF StandsIn
    <2>2. PICK a \in DOMAIN files : \E b \in DOMAIN files[a].decls : DeclAt(pkg, PkgDecls(pkg)[i], a, b)
      BY <2>1, PkgDeclsListed DEF files
    <2>3. PICK b \in DOMAIN files[a].decls : DeclAt(pkg, PkgDecls(pkg)[i], a, b)
      BY <2>2
    <2>4. PkgDecls(pkg)[i].fn = files[a].decls[b] /\ PkgDecls(pkg)[i].imports = files[a].imports
      BY <2>3 DEF DeclAt, files
    <2>5. PICK j \in DOMAIN files[a].decls[b].body : s = files[a].decls[b].body[j]
      BY <2>1, <2>4 DEF Range
    <2>6. PICK k \in DOMAIN rows[a] : rows[a][k] = StmEffect(tree, files[a].imports, s)
      BY <1>4, <1>6, <2>5
    <2>7. PICK l \in DOMAIN FlattenSeq(rows) : FlattenSeq(rows)[l] = rows[a][k]
      BY <1>4, <1>7
    <2>8. EffectOf(tree, pkg, es[l], i, s)
      BY <1>1, <1>9, <2>4, <2>6, <2>7 DEF EffectOf
    <2> QED BY <1>1, <2>7, <2>8
  <1> QED BY <1>1, <1>7, <1>8, <1>9 DEF es

\* A logger of statement s, in a file with these imports.
Logs(tree, imports, s) ==
    \/ s.op = "use" /\ s.how = "logger"
    \/ /\ s.op = "aggregate" /\ s.how \in AggregatorFuncNames
       /\ s.to \in imports /\ ResolveExternalMiddleware(tree, s.to)

\* What an effect of each kind comes from, and what each statement does.
StmKind(tree, imports, s, e) ==
    /\ e.op = "parent" => s.on # "" /\ s.op = "group" /\ e.key = <<s.to>> /\ e.val = <<s.on>>
    /\ e.op = "handler" => s.on # "" /\ s.op = "verb" /\ e.key = <<s.to>> /\ e.val = <<s.on>>
    /\ e.op = "ir" => s.on # "" /\ s.op = "install" /\ e.key = <<s.on>>
    /\ e.op = "cover" => s.on # "" /\ Logs(tree, imports, s) /\ e.key = <<s.on>>
    /\ s.on # "" /\ s.op = "group" => e.op = "parent"
    /\ s.on # "" /\ s.op = "verb" => e.op = "handler"
    /\ s.on # "" /\ s.op = "install" => e.op = "ir"
    /\ s.on # "" /\ Logs(tree, imports, s) => e.op = "cover"

LEMMA StmKinds ==
    ASSUME NEW tree, NEW imports, NEW s
    PROVE  StmKind(tree, imports, s, StmEffect(tree, imports, s))
  <1> DEFINE logs == Logs(tree, imports, s)
             none == Effect("", <<>>, <<>>)
             e == StmEffect(tree, imports, s)
  <1>1. /\ s.on = "" => e = none
        /\ s.on # "" /\ s.op = "group" => e = Effect("parent", <<s.to>>, <<s.on>>)
        /\ s.on # "" /\ s.op = "verb" => e = Effect("handler", <<s.to>>, <<s.on>>)
        /\ s.on # "" /\ s.op = "install" => e = Effect("ir", <<s.on>>, <<>>)
        /\ s.on # "" /\ logs => e = Effect("cover", <<s.on>>, <<>>)
        /\ s.on # "" /\ s.op \notin {"group", "verb", "install"} /\ ~logs => e = none
    BY DEF StmEffect, Logs
  <1>2. \A op, key, v : Effect(op, key, v).op = op /\ Effect(op, key, v).key = key /\ Effect(op, key, v).val = v
    BY DEF Effect
  <1>3. logs => s.op \in {"use", "aggregate"}
    BY DEF Logs
  <1> HIDE DEF e, none, logs
  <1>4. none.op = ""
    BY <1>2 DEF none
  <1>5. CASE s.on = ""
    BY <1>1, <1>4, <1>5 DEF StmKind, e
  <1>6. CASE s.on # "" /\ s.op = "group"
    <2>1. e = Effect("parent", <<s.to>>, <<s.on>>)
      BY <1>1, <1>6
    <2>2. e.op = "parent" /\ e.key = <<s.to>> /\ e.val = <<s.on>>
      BY <1>2, <2>1
    <2>3. ~logs
      BY <1>3, <1>6
    <2> QED BY <1>6, <2>2, <2>3 DEF StmKind, e, logs
  <1>7. CASE s.on # "" /\ s.op = "verb"
    <2>1. e = Effect("handler", <<s.to>>, <<s.on>>)
      BY <1>1, <1>7
    <2>2. e.op = "handler" /\ e.key = <<s.to>> /\ e.val = <<s.on>>
      BY <1>2, <2>1
    <2>3. ~logs
      BY <1>3, <1>7
    <2> QED BY <1>7, <2>2, <2>3 DEF StmKind, e, logs
  <1>8. CASE s.on # "" /\ s.op = "install"
    <2>1. e = Effect("ir", <<s.on>>, <<>>)
      BY <1>1, <1>8
    <2>2. e.op = "ir" /\ e.key = <<s.on>>
      BY <1>2, <2>1
    <2>3. ~logs
      BY <1>3, <1>8
    <2> QED BY <1>8, <2>2, <2>3 DEF StmKind, e, logs
  <1>9. CASE s.on # "" /\ logs
    <2>1. e = Effect("cover", <<s.on>>, <<>>)
      BY <1>1, <1>9
    <2>2. e.op = "cover" /\ e.key = <<s.on>>
      BY <1>2, <2>1
    <2>3. s.op \notin {"group", "verb", "install"}
      BY <1>3, <1>9
    <2> QED BY <1>9, <2>2, <2>3 DEF StmKind, e, logs
  <1>10. CASE s.on # "" /\ s.op \notin {"group", "verb", "install"} /\ ~logs
    <2>1. e.op = ""
      BY <1>1, <1>4, <1>10
    <2> QED BY <1>10, <2>1 DEF StmKind, e, logs
  <1> QED BY <1>5, <1>6, <1>7, <1>8, <1>9, <1>10

\* The body of a function of a package is a list.
LEMMA DeclBody ==
    ASSUME NEW pkg, PkgParsed(pkg), NEW i \in DOMAIN PkgDecls(pkg)
    PROVE  IsList(PkgDecls(pkg)[i].fn.body)
  <1>1. PICK a \in DOMAIN ParsePkgFiles(pkg) : \E b \in DOMAIN ParsePkgFiles(pkg)[a].decls :
           DeclAt(pkg, PkgDecls(pkg)[i], a, b)
    BY PkgDeclsListed
  <1>2. PICK b \in DOMAIN ParsePkgFiles(pkg)[a].decls : DeclAt(pkg, PkgDecls(pkg)[i], a, b)
    BY <1>1
  <1>3. IsList(ParsePkgFiles(pkg)[a].decls[b].body)
    BY <1>2, ParsedFile
  <1> QED BY <1>2, <1>3 DEF DeclAt

\* Function m of the package is an InstallRoutes method.
IsMethodAt(pkg, m) == m \in DOMAIN PkgDecls(pkg) /\ IsInstallRoutes(PkgDecls(pkg)[m].fn)

\* The InstallRoutes methods.
LEMMA MethodsListed ==
    ASSUME NEW pkg, PkgParsed(pkg)
    PROVE  /\ IsList(InstallRoutesMethods(pkg))
           /\ \A k \in DOMAIN InstallRoutesMethods(pkg) :
                 \E m : IsMethodAt(pkg, m) /\ InstallRoutesMethods(pkg)[k] = PkgDecls(pkg)[m]
           /\ \A m : IsMethodAt(pkg, m) =>
                 \E k \in DOMAIN InstallRoutesMethods(pkg) : InstallRoutesMethods(pkg)[k] = PkgDecls(pkg)[m]
  <1> DEFINE ds == PkgDecls(pkg)
             S == {k \in DOMAIN ds : IsInstallRoutes(ds[k].fn)}
  <1>1. InstallRoutesMethods(pkg) = Where(ds, S) /\ S \in SUBSET DOMAIN ds
    BY DEF InstallRoutesMethods
  <1>2. \A k : k \in S <=> IsMethodAt(pkg, k)
    BY DEF IsMethodAt
  <1>3. IsList(ds)
    BY PkgDeclsListed
  <1> HIDE DEF S, ds
  <1>4. /\ IsList(Where(ds, S))
        /\ \A k \in DOMAIN Where(ds, S) : \E i \in S : Where(ds, S)[k] = ds[i]
        /\ \A i \in S : \E k \in DOMAIN Where(ds, S) : Where(ds, S)[k] = ds[i]
    BY <1>1, <1>3, ListWhere
  <1> QED BY <1>1, <1>2, <1>4 DEF ds

\* At most one of them, if the list of them is that short.
LEMMA OneMethod ==
    ASSUME NEW pkg, PkgParsed(pkg), Len(InstallRoutesMethods(pkg)) <= 1, NEW m, NEW k,
           IsMethodAt(pkg, m), IsMethodAt(pkg, k)
    PROVE  m = k
  <1> DEFINE ds == PkgDecls(pkg)
             S == {i \in DOMAIN ds : IsInstallRoutes(ds[i].fn)}
  <1>1. InstallRoutesMethods(pkg) = Where(ds, S) /\ S \in SUBSET DOMAIN ds
    BY DEF InstallRoutesMethods
  <1>2. m \in S /\ k \in S
    BY DEF IsMethodAt
  <1>3. IsList(ds)
    BY PkgDeclsListed
  <1>4. Len(ds) \in Nat /\ DOMAIN ds = 1..Len(ds)
    BY <1>3, ListFacts
  <1> HIDE DEF S, ds
  <1>5. IsFiniteSet(S)
    <2>1. IsFiniteSet(DOMAIN ds)
      BY <1>4, FS_Interval
    <2> QED BY <1>1, <2>1, FS_Subset
  <1>6. Cardinality(S) \in Nat
    BY <1>5, FS_CardinalityType
  <1>7. Len(Where(ds, S)) = Cardinality(S)
    <2> DEFINE W == Where(ds, S)
    <2>1. DOMAIN W = 1..Cardinality(S) /\ W = [i \in DOMAIN W |-> W[i]]
      BY DEF Where
    <2> HIDE DEF W
    <2>2. Len(W) = Cardinality(S)
      BY <1>6, <2>1, FunctionIsList
    <2> QED BY <2>2 DEF W
  <1>8. Cardinality(S) <= 1
    BY <1>1, <1>7
  <1>9. S # {} /\ (Cardinality(S) = 0 <=> S = {})
    BY <1>2, <1>5, FS_EmptySet
  <1>10. Cardinality(S) = 1
    BY <1>6, <1>8, <1>9
  <1>11. \E x : S = {x}
    BY <1>5, <1>10, FS_Singleton
  <1> QED BY <1>2, <1>11

\* The arguments that InstallRoutes is called with.
Arguments(pkg) == {p[2].on : p \in On(pkg, "install")}

\* Effect e is that of statement l of method m for argument x.
MethodEffectOf(pkg, e, m, l, x) ==
    /\ IsMethodAt(pkg, m) /\ l \in DOMAIN PkgDecls(pkg)[m].fn.body
    /\ e = WalkMethodBody(PkgDecls(pkg)[m].fn, x)[l]

\* The effects of the second pass for one argument.
MethodPass(pkg, order, x) ==
    FlattenSeq([k \in DOMAIN order |-> WalkMethodBody(InstallRoutesMethods(pkg)[order[k]].fn, x)])

LEMMA MethodPassListed ==
    ASSUME NEW pkg, PkgParsed(pkg), Len(InstallRoutesMethods(pkg)) <= 1,
           NEW order \in MethodOrders(pkg), NEW x
    PROVE  /\ IsList(MethodPass(pkg, order, x))
           /\ \A k \in DOMAIN MethodPass(pkg, order, x) :
                 \E m, l : MethodEffectOf(pkg, MethodPass(pkg, order, x)[k], m, l, x)
           /\ \A m, l : IsMethodAt(pkg, m) /\ l \in DOMAIN PkgDecls(pkg)[m].fn.body =>
                 \E k \in DOMAIN MethodPass(pkg, order, x) :
                    MethodEffectOf(pkg, MethodPass(pkg, order, x)[k], m, l, x)
  <1> DEFINE ms == InstallRoutesMethods(pkg)
             n == Len(ms)
             rows == [k \in DOMAIN order |-> WalkMethodBody(ms[order[k]].fn, x)]
             es == MethodPass(pkg, order, x)
  <1>1. /\ IsList(ms) /\ n \in Nat /\ DOMAIN ms = 1..n
        /\ \A k \in DOMAIN ms : \E m : IsMethodAt(pkg, m) /\ ms[k] = PkgDecls(pkg)[m]
        /\ \A m : IsMethodAt(pkg, m) => \E k \in DOMAIN ms : ms[k] = PkgDecls(pkg)[m]
    <2>1. /\ IsList(ms)
          /\ \A k \in DOMAIN ms : \E m : IsMethodAt(pkg, m) /\ ms[k] = PkgDecls(pkg)[m]
          /\ \A m : IsMethodAt(pkg, m) => \E k \in DOMAIN ms : ms[k] = PkgDecls(pkg)[m]
      BY MethodsListed
    <2> HIDE DEF ms
    <2>2. n \in Nat /\ DOMAIN ms = 1..n
      BY <2>1, ListFacts
    <2> QED BY <2>1, <2>2
  <1>2. order \in [1..n -> 1..n]
    BY DEF MethodOrders
  <1>3. n <= 1
    OBVIOUS
  <1>4. es = FlattenSeq(rows)
    BY DEF MethodPass
  <1> HIDE DEF ms, n
  <1>5. /\ DOMAIN rows = 1..n /\ rows = [k \in DOMAIN rows |-> rows[k]]
        /\ \A k \in 1..n : rows[k] = WalkMethodBody(ms[order[k]].fn, x)
    BY <1>2
  <1> HIDE DEF rows, es
  <1>6. ASSUME NEW k \in 1..n PROVE order[k] = k
    <2>1. n \in Nat /\ n <= 1
      BY <1>1, <1>3
    <2>2. order[k] \in 1..n
      BY <1>2
    <2> QED BY <2>1, <2>2
  <1>7. IsList(rows)
    BY <1>1, <1>5, FunctionIsList
  <1>8. ASSUME NEW k \in 1..n
        PROVE  /\ IsList(rows[k])
               /\ \A l \in DOMAIN rows[k] : \E m : MethodEffectOf(pkg, rows[k][l], m, l, x)
               /\ \A m : ms[k] = PkgDecls(pkg)[m] => DOMAIN rows[k] = DOMAIN PkgDecls(pkg)[m].fn.body
    <2>1. PICK m : IsMethodAt(pkg, m) /\ ms[k] = PkgDecls(pkg)[m]
      BY <1>1
    <2> DEFINE fn == PkgDecls(pkg)[m].fn
    <2>2. IsList(fn.body)
      BY <2>1, DeclBody DEF IsMethodAt
    <2>3. Len(fn.body) \in Nat /\ DOMAIN fn.body = 1..Len(fn.body)
      BY <2>2, ListFacts
    <2>4. rows[k] = WalkMethodBody(fn, x)
      BY <1>5, <1>6, <2>1
    <2> DEFINE w == WalkMethodBody(fn, x)
    <2>5. DOMAIN w = DOMAIN fn.body /\ w = [i \in DOMAIN w |-> w[i]]
      BY DEF WalkMethodBody
    <2> HIDE DEF w
    <2>6. IsList(w)
      BY <2>3, <2>5, FunctionIsList
    <2>7. ASSUME NEW l \in DOMAIN w PROVE MethodEffectOf(pkg, w[l], m, l, x)
      BY <2>1, <2>5, <2>7 DEF MethodEffectOf, w
    <2>8. \A i : ms[k] = PkgDecls(pkg)[i] => DOMAIN w = DOMAIN PkgDecls(pkg)[i].fn.body
      BY <2>1, <2>5
    <2>9. rows[k] = w
      BY <2>4 DEF w
    <2> HIDE DEF fn
    <2> QED BY <2>6, <2>7, <2>8, <2>9
  <1>9. /\ IsList(FlattenSeq(rows))
        /\ \A k \in DOMAIN FlattenSeq(rows) :
              \E a \in DOMAIN rows : \E j \in DOMAIN rows[a] : FlattenSeq(rows)[k] = rows[a][j]
        /\ \A a \in DOMAIN rows : \A j \in DOMAIN rows[a] :
              \E k \in DOMAIN FlattenSeq(rows) : FlattenSeq(rows)[k] = rows[a][j]
    <2>1. \A k \in DOMAIN rows : IsList(rows[k])
      BY <1>5, <1>8
    <2> QED BY <1>7, <2>1, ListFlatten
  <1>10. \A k \in DOMAIN es : \E m, l : MethodEffectOf(pkg, es[k], m, l, x)
    BY <1>4, <1>5, <1>8, <1>9
  <1>11. ASSUME NEW m, NEW l, IsMethodAt(pkg, m), l \in DOMAIN PkgDecls(pkg)[m].fn.body
         PROVE  \E k \in DOMAIN es : MethodEffectOf(pkg, es[k], m, l, x)
    <2>1. PICK k \in DOMAIN ms : ms[k] = PkgDecls(pkg)[m]
      BY <1>1, <1>11
    <2>2. k \in 1..n /\ l \in DOMAIN rows[k]
      BY <1>1, <1>8, <1>11, <2>1
    <2>3. PICK j \in DOMAIN FlattenSeq(rows) : FlattenSeq(rows)[j] = rows[k][l]
      BY <1>5, <1>9, <2>2
    <2>4. rows[k] = WalkMethodBody(PkgDecls(pkg)[m].fn, x)
      BY <1>5, <1>6, <2>1, <2>2
    <2>5. MethodEffectOf(pkg, es[j], m, l, x)
      BY <1>4, <1>11, <2>3, <2>4 DEF MethodEffectOf
    <2> QED BY <1>4, <2>3, <2>5
  <1> QED BY <1>4, <1>9, <1>10, <1>11 DEF es

\* The calls of InstallRoutes that the first pass came upon.
InstallCalls(es) == Where(es, {k \in DOMAIN es : es[k].op = "ir"})

LEMMA CallsListed ==
    ASSUME NEW tree, NEW pkg, PkgParsed(pkg)
    PROVE  /\ IsList(InstallCalls(FirstPass(tree, pkg)))
           /\ \A k \in DOMAIN InstallCalls(FirstPass(tree, pkg)) : InstallCalls(FirstPass(tree, pkg))[k].key[1] \in Arguments(pkg)
           /\ \A x \in Arguments(pkg) :
                 \E k \in DOMAIN InstallCalls(FirstPass(tree, pkg)) : InstallCalls(FirstPass(tree, pkg))[k].key[1] = x
  <1> DEFINE es == FirstPass(tree, pkg)
             S == {k \in DOMAIN es : es[k].op = "ir"}
             calls == InstallCalls(es)
             imports(i) == PkgDecls(pkg)[i].imports
  <1>1. /\ IsList(es)
        /\ \A k \in DOMAIN es : \E i, s : EffectOf(tree, pkg, es[k], i, s)
        /\ \A i, s : StandsIn(pkg, i, s) => \E k \in DOMAIN es : EffectOf(tree, pkg, es[k], i, s)
    BY FirstPassListed
  <1> HIDE DEF es
  <1>2. calls = Where(es, S) /\ S \in SUBSET DOMAIN es
    BY DEF InstallCalls
  <1>3. \A k : k \in S <=> k \in DOMAIN es /\ es[k].op = "ir"
    OBVIOUS
  <1> HIDE DEF S, calls
  <1>4. /\ IsList(Where(es, S))
        /\ \A k \in DOMAIN Where(es, S) : \E i \in S : Where(es, S)[k] = es[i]
        /\ \A i \in S : \E k \in DOMAIN Where(es, S) : Where(es, S)[k] = es[i]
    BY <1>1, <1>2, ListWhere
  <1>5. ASSUME NEW k \in DOMAIN calls PROVE calls[k].key[1] \in Arguments(pkg)
    <2>1. PICK j \in S : calls[k] = es[j]
      BY <1>2, <1>4
    <2>2. PICK i, s : EffectOf(tree, pkg, es[j], i, s)
      BY <1>1, <1>3, <2>1
    <2>3. StandsIn(pkg, i, s) /\ es[j] = StmEffect(tree, imports(i), s)
      BY <2>2 DEF EffectOf
    <2>4. StmKind(tree, imports(i), s, es[j])
      BY <2>3, StmKinds
    <2>5. s.on # "" /\ s.op = "install" /\ es[j].key = <<s.on>>
      BY <1>3, <2>1, <2>4 DEF StmKind
    <2> DEFINE p == <<i, s>>
    <2>6. p \in Placed(pkg)
      BY <2>3, PlacedIs
    <2>7. p[2] = s
      OBVIOUS
    <2> HIDE DEF p
    <2>8. p \in On(pkg, "install")
      BY <2>5, <2>6, <2>7 DEF On
    <2>9. <<s.on>>[1] = s.on
      OBVIOUS
    <2> QED BY <2>1, <2>5, <2>7, <2>8, <2>9 DEF Arguments
  <1>6. ASSUME NEW x \in Arguments(pkg) PROVE \E k \in DOMAIN calls : calls[k].key[1] = x
    <2>1. PICK p : p \in On(pkg, "install") /\ x = p[2].on
      BY DEF Arguments
    <2>2. p \in Placed(pkg) /\ p[2].op = "install" /\ p[2].on # ""
      BY <2>1 DEF On
    <2>3. StandsIn(pkg, p[1], p[2])
      BY <2>2, PlacedIs
    <2>4. PICK k \in DOMAIN es : EffectOf(tree, pkg, es[k], p[1], p[2])
      BY <1>1, <2>3
    <2>5. es[k] = StmEffect(tree, imports(p[1]), p[2])
      BY <2>4 DEF EffectOf
    <2>6. StmKind(tree, imports(p[1]), p[2], es[k])
      BY <2>5, StmKinds
    <2>7. es[k].op = "ir" /\ es[k].key = <<p[2].on>>
      BY <2>2, <2>6 DEF StmKind
    <2>8. k \in S
      BY <1>3, <2>7
    <2>9. PICK j \in DOMAIN calls : calls[j] = es[k]
      BY <1>2, <1>4, <2>8
    <2>10. <<x>>[1] = x
      OBVIOUS
    <2> QED BY <2>1, <2>7, <2>9, <2>10
  <1> QED BY <1>2, <1>4, <1>5, <1>6 DEF es, calls

\* The second pass: an effect for every statement and argument, and no others.
SecondPass(tree, pkg, order) ==
    FlattenSeq([k \in DOMAIN InstallCalls(FirstPass(tree, pkg)) |->
        MethodPass(pkg, order, InstallCalls(FirstPass(tree, pkg))[k].key[1])])

SecondEffects(pkg, es) ==
    /\ IsList(es)
    /\ \A k \in DOMAIN es : \E m, l, x : x \in Arguments(pkg) /\ MethodEffectOf(pkg, es[k], m, l, x)
    /\ \A m, l, x : x \in Arguments(pkg) /\ IsMethodAt(pkg, m) /\ l \in DOMAIN PkgDecls(pkg)[m].fn.body =>
          \E k \in DOMAIN es : MethodEffectOf(pkg, es[k], m, l, x)

LEMMA SecondPassListed ==
    ASSUME NEW tree, NEW pkg, PkgParsed(pkg), Len(InstallRoutesMethods(pkg)) <= 1,
           NEW order \in MethodOrders(pkg)
    PROVE  SecondEffects(pkg, SecondPass(tree, pkg, order))
  <1> DEFINE calls == InstallCalls(FirstPass(tree, pkg))
             arg(k) == calls[k].key[1]
             rows == [k \in DOMAIN calls |-> MethodPass(pkg, order, arg(k))]
             es == SecondPass(tree, pkg, order)
  <1>1. /\ IsList(calls) /\ \A k \in DOMAIN calls : arg(k) \in Arguments(pkg)
        /\ \A x \in Arguments(pkg) : \E k \in DOMAIN calls : arg(k) = x
    BY CallsListed
  <1>2. es = FlattenSeq(rows)
    BY DEF SecondPass
  <1> HIDE DEF calls, es
  <1>3. Len(calls) \in Nat /\ DOMAIN calls = 1..Len(calls)
    BY <1>1, ListFacts
  <1>4. DOMAIN rows = DOMAIN calls /\ rows = [k \in DOMAIN rows |-> rows[k]]
        /\ \A k \in DOMAIN calls : rows[k] = MethodPass(pkg, order, arg(k))
    OBVIOUS
  <1> HIDE DEF rows, arg
  <1>5. IsList(rows)
    BY <1>3, <1>4, FunctionIsList
  <1>6. ASSUME NEW k \in DOMAIN rows
        PROVE  /\ IsList(rows[k])
               /\ \A l \in DOMAIN rows[k] : \E m, i : MethodEffectOf(pkg, rows[k][l], m, i, arg(k))
               /\ \A m, l : IsMethodAt(pkg, m) /\ l \in DOMAIN PkgDecls(pkg)[m].fn.body =>
                     \E i \in DOMAIN rows[k] : MethodEffectOf(pkg, rows[k][i], m, l, arg(k))
    <2> DEFINE x == arg(k)
               w == MethodPass(pkg, order, x)
    <2> HIDE DEF x
    <2>1. /\ IsList(w)
          /\ \A l \in DOMAIN w : \E m, i : MethodEffectOf(pkg, w[l], m, i, x)
          /\ \A m, l : IsMethodAt(pkg, m) /\ l \in DOMAIN PkgDecls(pkg)[m].fn.body =>
                \E i \in DOMAIN w : MethodEffectOf(pkg, w[i], m, l, x)
      BY MethodPassListed
    <2>2. rows[k] = w
      BY <1>4 DEF x
    <2> HIDE DEF w
    <2> QED BY <2>1, <2>2 DEF x
  <1>7. /\ IsList(FlattenSeq(rows))
        /\ \A k \in DOMAIN FlattenSeq(rows) :
              \E a \in DOMAIN rows : \E j \in DOMAIN rows[a] : FlattenSeq(rows)[k] = rows[a][j]
        /\ \A a \in DOMAIN rows : \A j \in DOMAIN rows[a] :
              \E k \in DOMAIN FlattenSeq(rows) : FlattenSeq(rows)[k] = rows[a][j]
    BY <1>5, <1>6, ListFlatten
  <1>8. ASSUME NEW k \in DOMAIN es
        PROVE  \E m, l, x : x \in Arguments(pkg) /\ MethodEffectOf(pkg, es[k], m, l, x)
    <2>1. PICK a \in DOMAIN rows : \E j \in DOMAIN rows[a] : es[k] = rows[a][j]
      BY <1>2, <1>7
    <2>2. PICK j \in DOMAIN rows[a] : es[k] = rows[a][j]
      BY <2>1
    <2>3. PICK m, i : MethodEffectOf(pkg, rows[a][j], m, i, arg(a))
      BY <1>6
    <2>4. arg(a) \in Arguments(pkg)
      BY <1>1, <1>4 DEF arg
    <2> QED BY <2>2, <2>3, <2>4
  <1>9. ASSUME NEW m, NEW l, NEW x, x \in Arguments(pkg), IsMethodAt(pkg, m),
               l \in DOMAIN PkgDecls(pkg)[m].fn.body
        PROVE  \E k \in DOMAIN es : MethodEffectOf(pkg, es[k], m, l, x)
    <2>1. PICK a \in DOMAIN rows : arg(a) = x
      BY <1>1, <1>4, <1>9 DEF arg
    <2>2. PICK i \in DOMAIN rows[a] : MethodEffectOf(pkg, rows[a][i], m, l, x)
      BY <1>6, <1>9, <2>1
    <2>3. PICK k \in DOMAIN FlattenSeq(rows) : FlattenSeq(rows)[k] = rows[a][i]
      BY <1>7
    <2> QED BY <1>2, <2>2, <2>3
  <1>10. SecondEffects(pkg, es)
    BY <1>2, <1>7, <1>8, <1>9 DEF SecondEffects
  <1> QED BY <1>10 DEF es

\* All effects of a package: the first n are of the first pass.
EffectsAre(tree, pkg, es, n) ==
    /\ IsList(es) /\ n \in Nat
    /\ \A k \in DOMAIN es : k <= n => \E i, s : EffectOf(tree, pkg, es[k], i, s)
    /\ \A k \in DOMAIN es : k > n =>
          \E m, l, x : x \in Arguments(pkg) /\ MethodEffectOf(pkg, es[k], m, l, x)
    /\ \A i, s : StandsIn(pkg, i, s) => \E k \in DOMAIN es : k <= n /\ EffectOf(tree, pkg, es[k], i, s)
    /\ \A m, l, x : x \in Arguments(pkg) /\ IsMethodAt(pkg, m) /\ l \in DOMAIN PkgDecls(pkg)[m].fn.body =>
          \E k \in DOMAIN es : k > n /\ MethodEffectOf(pkg, es[k], m, l, x)

LEMMA EffectsListed ==
    ASSUME NEW tree, NEW pkg, PkgParsed(pkg), Len(InstallRoutesMethods(pkg)) <= 1,
           NEW order \in MethodOrders(pkg)
    PROVE  \E n : EffectsAre(tree, pkg, Effects(tree, pkg, order), n)
  <1> DEFINE a == FirstPass(tree, pkg)
             b == SecondPass(tree, pkg, order)
             es == a \o b
             n == Len(a)
  <1>1. Effects(tree, pkg, order) = es
    BY DEF Effects, FirstPass, SecondPass, InstallCalls, MethodPass
  <1>2. /\ IsList(a)
        /\ \A k \in DOMAIN a : \E i, s : EffectOf(tree, pkg, a[k], i, s)
        /\ \A i, s : StandsIn(pkg, i, s) => \E k \in DOMAIN a : EffectOf(tree, pkg, a[k], i, s)
    BY FirstPassListed
  <1>3. SecondEffects(pkg, b)
    BY SecondPassListed
  <1> HIDE DEF a, b
  <1>4. IsList(b)
    BY <1>3 DEF SecondEffects
  <1>5. /\ IsList(es)
        /\ \A k \in DOMAIN a : k \in DOMAIN es /\ es[k] = a[k]
        /\ \A k \in DOMAIN b : n + k \in DOMAIN es /\ es[n + k] = b[k]
        /\ \A k \in DOMAIN es : \/ k \in DOMAIN a /\ es[k] = a[k]
                                \/ k - n \in DOMAIN b /\ es[k] = b[k - n]
    <2>1. IsList(a)
      BY <1>2
    <2> QED BY ONLY <2>1, <1>4, ListJoin
  <1>6. n \in Nat /\ DOMAIN a = 1..n /\ Len(b) \in Nat /\ DOMAIN b = 1..Len(b)
    BY <1>2, <1>4, ListFacts
  <1>7. Len(es) \in Nat /\ DOMAIN es = 1..Len(es)
    BY <1>5, ListFacts
  <1> HIDE DEF es, n
  <1>8. ASSUME NEW k \in DOMAIN es, k <= n PROVE \E i, s : EffectOf(tree, pkg, es[k], i, s)
    <2>1. k - n \notin DOMAIN b
      BY <1>6, <1>7, <1>8
    <2> QED BY <1>2, <1>5, <2>1
  <1>9. ASSUME NEW k \in DOMAIN es, k > n
        PROVE  \E m, l, x : x \in Arguments(pkg) /\ MethodEffectOf(pkg, es[k], m, l, x)
    <2>1. k \notin DOMAIN a
      BY <1>6, <1>7, <1>9
    <2>2. k - n \in DOMAIN b /\ es[k] = b[k - n]
      BY <1>5, <2>1
    <2> QED BY <1>3, <2>2 DEF SecondEffects
  <1>10. ASSUME NEW i, NEW s, StandsIn(pkg, i, s)
         PROVE  \E k \in DOMAIN es : k <= n /\ EffectOf(tree, pkg, es[k], i, s)
    <2>1. PICK k \in DOMAIN a : EffectOf(tree, pkg, a[k], i, s)
      BY <1>2, <1>10
    <2>2. k <= n
      BY <1>6
    <2> QED BY <1>5, <2>1, <2>2
  <1>11. ASSUME NEW m, NEW l, NEW x, x \in Arguments(pkg), IsMethodAt(pkg, m),
                l \in DOMAIN PkgDecls(pkg)[m].fn.body
         PROVE  \E k \in DOMAIN es : k > n /\ MethodEffectOf(pkg, es[k], m, l, x)
    <2>1. PICK k \in DOMAIN b : MethodEffectOf(pkg, b[k], m, l, x)
      BY <1>3, <1>11 DEF SecondEffects
    <2>2. n + k > n
      BY <1>6
    <2> QED BY <1>5, <2>1, <2>2
  <1>12. EffectsAre(tree, pkg, es, n)
    BY <1>5, <1>6, <1>8, <1>9, <1>10, <1>11 DEF EffectsAre
  <1> QED BY <1>1, <1>12

------------------------------------------------------------------------------
(* Tidy packages: names say enough.                                        *)

\* There are finitely many statements.
LEMMA PlacedFinite ==
    ASSUME NEW pkg, PkgParsed(pkg)
    PROVE  IsFiniteSet(Placed(pkg))
  <1> DEFINE ds == PkgDecls(pkg)
             row(k) == {<<k, s>> : s \in Range(ds[k].fn.body)}
             rows == {row(k) : k \in DOMAIN ds}
  <1>1. IsList(ds) /\ Len(ds) \in Nat /\ DOMAIN ds = 1..Len(ds)
    <2>1. IsList(ds)
      BY PkgDeclsListed
    <2> HIDE DEF ds
    <2> QED BY <2>1, ListFacts
  <1>2. ASSUME NEW k \in DOMAIN ds PROVE IsFiniteSet(row(k))
    <2> DEFINE body == ds[k].fn.body
    <2>1. IsList(body)
      BY DeclBody
    <2> HIDE DEF body
    <2>2. Len(body) \in Nat /\ DOMAIN body = 1..Len(body)
      BY <2>1, ListFacts
    <2>3. IsFiniteSet(DOMAIN body)
      BY <2>2, FS_Interval
    <2> DEFINE f == [j \in DOMAIN body |-> <<k, body[j]>>]
               R == {<<k, s>> : s \in Range(body)}
    <2>4. f \in Surjection(DOMAIN body, R)
      BY DEF Surjection, Range
    <2> HIDE DEF f
    <2>5. IsFiniteSet(R)
      <3> HIDE DEF R
      <3> QED BY <2>3, <2>4, FS_Surjection
    <2> QED BY <2>5 DEF body
  <1>3. Placed(pkg) = UNION rows
    BY DEF Placed
  <1> DEFINE g == [k \in DOMAIN ds |-> row(k)]
  <1>4. g \in Surjection(DOMAIN ds, rows)
    BY DEF Surjection
  <1>5. \A r \in rows : IsFiniteSet(r)
    BY <1>2
  <1> HIDE DEF g, rows, row, ds
  <1>6. IsFiniteSet(DOMAIN ds)
    BY <1>1, FS_Interval
  <1>7. IsFiniteSet(rows)
    BY <1>4, <1>6, FS_Surjection
  <1>8. IsFiniteSet(UNION rows)
    BY <1>5, <1>7, FS_UNION
  <1> QED BY <1>3, <1>8

\* What tidiness says of two statements, or of two functions.
TidyNamed(pkg) ==
    \A i, j : i \in DOMAIN PkgDecls(pkg) /\ j \in DOMAIN PkgDecls(pkg) /\ i # j =>
        GroupNames(pkg, i) \cap GroupNames(pkg, j) \subseteq {""}
TidyOnce(pkg, op) ==
    \A i, s, j, u : StandsIn(pkg, i, s) /\ StandsIn(pkg, j, u) /\ s.op = op /\ u.op = op /\ s.to = u.to =>
        i = j /\ s = u
TidyGroups(pkg) == \A i, s : StandsIn(pkg, i, s) /\ s.op = "group" => s.to # ""
TidyInstall(pkg) ==
    \A i, s, j, u : StandsIn(pkg, i, s) /\ StandsIn(pkg, j, u) /\ s.op = "install" /\ u.op = "install" =>
        i = j /\ s = u
TidyMethods(pkg) ==
    /\ \A m, k : IsMethodAt(pkg, m) /\ IsMethodAt(pkg, k) => m = k
    /\ \A m : IsMethodAt(pkg, m) => TidyMethod(PkgDecls(pkg)[m].fn)
TidyParts(pkg) ==
    /\ TidyNamed(pkg) /\ TidyOnce(pkg, "group") /\ TidyOnce(pkg, "verb") /\ TidyGroups(pkg)
    /\ TidyInstall(pkg) /\ TidyMethods(pkg)

LEMMA TidyIs ==
    ASSUME NEW pkg, PkgParsed(pkg), Tidy(pkg)
    PROVE  TidyParts(pkg)
  <1> DEFINE ofOp(op) == {p \in Placed(pkg) : p[2].op = op}
  <1>1. TidyNamed(pkg)
    BY DEF Tidy, TidyNamed
  <1>2. ASSUME NEW op \in {"group", "verb"} PROVE TidyOnce(pkg, op)
    <2> SUFFICES ASSUME NEW i, NEW s, NEW j, NEW u, StandsIn(pkg, i, s), StandsIn(pkg, j, u),
                        s.op = op, u.op = op, s.to = u.to
                 PROVE  i = j /\ s = u
      BY DEF TidyOnce
    <2> DEFINE p == <<i, s>>
               q == <<j, u>>
    <2>1. p \in Placed(pkg) /\ q \in Placed(pkg)
      BY PlacedIs
    <2>2. p[1] = i /\ p[2] = s /\ q[1] = j /\ q[2] = u
      OBVIOUS
    <2> HIDE DEF p, q
    <2>3. p \in ofOp(op) /\ q \in ofOp(op) /\ p[2].to = q[2].to
      BY <2>1, <2>2
    <2>4. p = q
      BY <2>3 DEF Tidy
    <2> QED BY <2>2, <2>4
  <1>3. TidyGroups(pkg)
    <2> SUFFICES ASSUME NEW i, NEW s, StandsIn(pkg, i, s), s.op = "group" PROVE s.to # ""
      BY DEF TidyGroups
    <2> DEFINE p == <<i, s>>
    <2>1. p \in Placed(pkg) /\ p[2] = s
      BY PlacedIs
    <2> HIDE DEF p
    <2>2. p \in ofOp("group")
      BY <2>1
    <2> QED BY <2>1, <2>2 DEF Tidy
  <1>4. TidyInstall(pkg)
    <2> SUFFICES ASSUME NEW i, NEW s, NEW j, NEW u, StandsIn(pkg, i, s), StandsIn(pkg, j, u),
                        s.op = "install", u.op = "install"
                 PROVE  i = j /\ s = u
      BY DEF TidyInstall
    <2> DEFINE p == <<i, s>>
               q == <<j, u>>
               S == ofOp("install")
    <2>1. p \in Placed(pkg) /\ q \in Placed(pkg)
      BY PlacedIs
    <2>2. p[1] = i /\ p[2] = s /\ q[1] = j /\ q[2] = u
      OBVIOUS
    <2> HIDE DEF p, q
    <2>3. p \in S /\ q \in S
      BY <2>1, <2>2
    <2>4. Cardinality(S) <= 1
      BY DEF Tidy
    <2>5. IsFiniteSet(S)
      <3>1. IsFiniteSet(Placed(pkg)) /\ S \in SUBSET Placed(pkg)
        BY PlacedFinite
      <3> HIDE DEF S
      <3> QED BY <3>1, FS_Subset
    <2> HIDE DEF S
    <2>6. Cardinality(S) = 1
      <3>1. Cardinality(S) \in Nat /\ (Cardinality(S) = 0 <=> S = {})
        BY <2>5, FS_CardinalityType, FS_EmptySet
      <3> QED BY <2>3, <2>4, <3>1
    <2>7. \E x : S = {x}
      BY <2>5, <2>6, FS_Singleton
    <2> QED BY <2>2, <2>3, <2>7
  <1>5. TidyMethods(pkg)
    <2>1. Len(InstallRoutesMethods(pkg)) <= 1
      BY DEF Tidy
    <2>2. \A m, k : IsMethodAt(pkg, m) /\ IsMethodAt(pkg, k) => m = k
      BY <2>1, OneMethod
    <2>3. ASSUME NEW m, IsMethodAt(pkg, m) PROVE TidyMethod(PkgDecls(pkg)[m].fn)
      <3>1. PICK k \in DOMAIN InstallRoutesMethods(pkg) : InstallRoutesMethods(pkg)[k] = PkgDecls(pkg)[m]
        BY <2>3, MethodsListed
      <3>2. PkgDecls(pkg)[m] \in Range(InstallRoutesMethods(pkg))
        BY <3>1 DEF Range
      <3> QED BY <3>2 DEF Tidy
    <2> QED BY <2>2, <2>3 DEF TidyMethods
  <1> QED BY <1>1, <1>2, <1>3, <1>4, <1>5 DEF TidyParts

------------------------------------------------------------------------------
(* The group that a variable of a function stands for in a context.        *)

\* Inside a method that is applied to arg.
LocalKey(fn, arg, x) ==
    IF \E s \in Range(fn.body) : Makes(s, x) THEN <<x, arg>>
    ELSE IF x = fn.param THEN <<arg>> ELSE <<x>>

\* In any function.
Key(pkg, i, x) ==
    IF IsMethodAt(pkg, i) /\ Arguments(pkg) # {}
    THEN LocalKey(PkgDecls(pkg)[i].fn, CHOOSE a \in Arguments(pkg) : TRUE, x)
    ELSE <<x>>

\* There is one argument at most.
LEMMA ArgumentOnce ==
    ASSUME NEW pkg, TidyParts(pkg), NEW x \in Arguments(pkg), NEW y \in Arguments(pkg)
    PROVE  x = y
  <1>1. PICK p : p \in On(pkg, "install") /\ x = p[2].on
    BY DEF Arguments
  <1>2. PICK q : q \in On(pkg, "install") /\ y = q[2].on
    BY DEF Arguments
  <1>3. StandsIn(pkg, p[1], p[2]) /\ StandsIn(pkg, q[1], q[2]) /\ p[2].op = "install" /\ q[2].op = "install"
    BY <1>1, <1>2, PlacedIs DEF On
  <1>4. p[2] = q[2]
    BY <1>3 DEF TidyParts, TidyInstall
  <1> QED BY <1>1, <1>2, <1>4

LEMMA KeyMethod ==
    ASSUME NEW pkg, TidyParts(pkg), NEW m, IsMethodAt(pkg, m), NEW a \in Arguments(pkg), NEW x
    PROVE  Key(pkg, m, x) = LocalKey(PkgDecls(pkg)[m].fn, a, x)
  <1> DEFINE b == CHOOSE c \in Arguments(pkg) : TRUE
  <1>1. b \in Arguments(pkg)
    OBVIOUS
  <1> HIDE DEF b
  <1>2. b = a
    BY <1>1, ArgumentOnce
  <1>3. Key(pkg, m, x) = LocalKey(PkgDecls(pkg)[m].fn, b, x)
    BY DEF Key, b
  <1> QED BY <1>2, <1>3

\* What an effect of each kind in a method comes from, and what it does.
MethodKind(pkg, m, s, e) ==
    /\ e.op = "parent" => s.op = "group" /\ e.key = Key(pkg, m, s.to) /\ e.val = Key(pkg, m, s.on)
    /\ e.op = "handler" => s.op = "verb" /\ e.key = <<s.to>> /\ e.val = Key(pkg, m, s.on)
    /\ e.op = "cover" => s.op = "use" /\ s.how = "logger" /\ s.on # "" /\ e.key = Key(pkg, m, s.on)
    /\ e.op # "ir"
    /\ s.op = "group" => e.op = "parent"
    /\ s.op = "verb" => e.op = "handler"
    /\ s.op = "use" /\ s.how = "logger" /\ s.on # "" => e.op = "cover"

LEMMA MethodKinds ==
    ASSUME NEW pkg, PkgParsed(pkg), TidyParts(pkg), NEW e, NEW m, NEW l, NEW x \in Arguments(pkg),
           MethodEffectOf(pkg, e, m, l, x)
    PROVE  /\ StandsIn(pkg, m, PkgDecls(pkg)[m].fn.body[l])
           /\ MethodKind(pkg, m, PkgDecls(pkg)[m].fn.body[l], e)
  <1> DEFINE fn == PkgDecls(pkg)[m].fn
             s == fn.body[l]
             made == \E j \in 1..(l - 1) : fn.body[j].op = "group" /\ fn.body[j].to = s.on
             on == IF made THEN <<s.on, x>> ELSE IF s.on = fn.param THEN <<x>> ELSE <<s.on>>
             none == Effect("", <<>>, <<>>)
  <1>1. IsMethodAt(pkg, m) /\ l \in DOMAIN fn.body /\ e = WalkMethodBody(fn, x)[l]
    BY DEF MethodEffectOf
  <1>2. StandsIn(pkg, m, s)
    BY <1>1 DEF StandsIn, IsMethodAt, Range
  <1>3. /\ s.op = "group" => e = Effect("parent", <<s.to, x>>, on)
        /\ s.op = "verb" => e = Effect("handler", <<s.to>>, on)
        /\ s.op = "use" /\ s.how = "logger" /\ s.on # "" => e = Effect("cover", on, <<>>)
        /\ s.op \notin {"group", "verb"} /\ ~(s.op = "use" /\ s.how = "logger" /\ s.on # "") => e = none
    BY <1>1 DEF WalkMethodBody
  <1>4. TidyMethod(fn)
    BY <1>1 DEF TidyParts, TidyMethods
  <1>5. IsList(fn.body)
    BY <1>1, DeclBody DEF IsMethodAt
  <1>6. Len(fn.body) \in Nat /\ DOMAIN fn.body = 1..Len(fn.body)
    BY <1>5, ListFacts
  <1>7. made <=> \E u \in Range(fn.body) : Makes(u, s.on)
    <2>1. ASSUME made PROVE \E u \in Range(fn.body) : Makes(u, s.on)
      <3>1. PICK j \in 1..(l - 1) : fn.body[j].op = "group" /\ fn.body[j].to = s.on
        BY <2>1
      <3>2. j \in DOMAIN fn.body
        BY <1>1, <1>6
      <3>3. fn.body[j] \in Range(fn.body) /\ Makes(fn.body[j], s.on)
        BY <3>1, <3>2 DEF Range, Makes
      <3> QED BY <3>3
    <2>2. ASSUME \E u \in Range(fn.body) : Makes(u, s.on) PROVE made
      BY <1>1, <1>4, <2>2 DEF TidyMethod, Makes
    <2> QED BY <2>1, <2>2
  <1>8. on = LocalKey(fn, x, s.on)
    BY <1>7 DEF LocalKey
  <1>9. on = Key(pkg, m, s.on)
    BY <1>1, <1>8, KeyMethod
  <1>10. s.op = "group" => Key(pkg, m, s.to) = <<s.to, x>>
    <2> SUFFICES ASSUME s.op = "group" PROVE Key(pkg, m, s.to) = <<s.to, x>>
      OBVIOUS
    <2>1. s \in Range(fn.body) /\ Makes(s, s.to)
      BY <1>2 DEF StandsIn, Makes
    <2>2. LocalKey(fn, x, s.to) = <<s.to, x>>
      BY <2>1 DEF LocalKey
    <2> QED BY <1>1, <2>2, KeyMethod
  <1>11. \A op, key, v : Effect(op, key, v).op = op /\ Effect(op, key, v).key = key /\ Effect(op, key, v).val = v
    BY DEF Effect
  <1> HIDE DEF s, fn, on, made, none
  <1>12. none.op = ""
    BY <1>11 DEF none
  <1>13. MethodKind(pkg, m, s, e)
    <2>1. CASE s.op = "group"
      <3>1. e = Effect("parent", <<s.to, x>>, on)
        BY <1>3, <2>1
      <3>2. e.op = "parent" /\ e.key = <<s.to, x>> /\ e.val = on
        BY <1>11, <3>1
      <3> QED BY <1>9, <1>10, <2>1, <3>2 DEF MethodKind
    <2>2. CASE s.op = "verb"
      <3>1. e = Effect("handler", <<s.to>>, on)
        BY <1>3, <2>2
      <3>2. e.op = "handler" /\ e.key = <<s.to>> /\ e.val = on
        BY <1>11, <3>1
      <3> QED BY <1>9, <2>2, <3>2 DEF MethodKind
    <2>3. CASE s.op = "use" /\ s.how = "logger" /\ s.on # ""
      <3>1. e = Effect("cover", on, <<>>)
        BY <1>3, <2>3
      <3>2. e.op = "cover" /\ e.key = on
        BY <1>11, <3>1
      <3> QED BY <1>9, <2>3, <3>2 DEF MethodKind
    <2>4. CASE s.op \notin {"group", "verb"} /\ ~(s.op = "use" /\ s.how = "logger" /\ s.on # "")
      <3>1. e.op = ""
        BY <1>3, <1>12, <2>4
      <3> QED BY <2>4, <3>1 DEF MethodKind
    <2> QED BY <2>1, <2>2, <2>3, <2>4
  <1> QED BY <1>2, <1>13 DEF s, fn

\* A group that is made in a method is kept apart from those of its name.
LEMMA KeyMade ==
    ASSUME NEW pkg, TidyParts(pkg), NEW m, IsMethodAt(pkg, m), NEW s, StandsIn(pkg, m, s), s.op = "group",
           NEW x \in Arguments(pkg)
    PROVE  Key(pkg, m, s.to) = <<s.to, x>>
  <1> DEFINE fn == PkgDecls(pkg)[m].fn
  <1>1. s \in Range(fn.body) /\ Makes(s, s.to)
    BY DEF StandsIn, Makes
  <1>2. LocalKey(fn, x, s.to) = <<s.to, x>>
    BY <1>1 DEF LocalKey
  <1> QED BY <1>2, KeyMethod

\* Outside of such methods a variable stands for itself.
Applied(pkg, i) == IsMethodAt(pkg, i) /\ Arguments(pkg) # {}

LEMMA KeyOther ==
    ASSUME NEW pkg, NEW i, ~Applied(pkg, i), NEW x
    PROVE  Key(pkg, i, x) = <<x>>
  BY DEF Key, Applied

\* Where an effect comes from.
FromFirst(tree, pkg, e, i, s) == StandsIn(pkg, i, s) /\ StmKind(tree, PkgDecls(pkg)[i].imports, s, e)
FromSecond(pkg, e, i, s) == Applied(pkg, i) /\ StandsIn(pkg, i, s) /\ MethodKind(pkg, i, s, e)

LEMMA EffectFrom ==
    ASSUME NEW tree, NEW pkg, PkgParsed(pkg), TidyParts(pkg), NEW es, NEW n, EffectsAre(tree, pkg, es, n),
           NEW k \in DOMAIN es
    PROVE  \E i, s : \/ k <= n /\ FromFirst(tree, pkg, es[k], i, s)
                     \/ k > n /\ FromSecond(pkg, es[k], i, s)
  <1>1. IsList(es) /\ n \in Nat
    BY DEF EffectsAre
  <1>2. k \in Nat
    <2>1. Len(es) \in Nat /\ DOMAIN es = 1..Len(es)
      BY <1>1, ListFacts
    <2> QED BY <2>1
  <1>3. CASE k <= n
    <2>1. PICK i, s : EffectOf(tree, pkg, es[k], i, s)
      BY <1>3 DEF EffectsAre
    <2>2. StandsIn(pkg, i, s) /\ es[k] = StmEffect(tree, PkgDecls(pkg)[i].imports, s)
      BY <2>1 DEF EffectOf
    <2>3. FromFirst(tree, pkg, es[k], i, s)
      BY <2>2, StmKinds DEF FromFirst
    <2> QED BY <1>3, <2>3
  <1>4. CASE k > n
    <2>1. PICK m, l, x : x \in Arguments(pkg) /\ MethodEffectOf(pkg, es[k], m, l, x)
      BY <1>4 DEF EffectsAre
    <2> DEFINE s == PkgDecls(pkg)[m].fn.body[l]
    <2>2. StandsIn(pkg, m, s) /\ MethodKind(pkg, m, s, es[k])
      BY <2>1, MethodKinds
    <2>3. Applied(pkg, m)
      BY <2>1 DEF Applied, MethodEffectOf
    <2> HIDE DEF s
    <2>4. FromSecond(pkg, es[k], m, s)
      BY <2>2, <2>3 DEF FromSecond
    <2> QED BY <1>4, <2>4
  <1> QED BY <1>1, <1>2, <1>3, <1>4

\* A statement has an effect in each pass that comes to it.
LEMMA EffectFor ==
    ASSUME NEW tree, NEW pkg, PkgParsed(pkg), TidyParts(pkg), NEW es, NEW n, EffectsAre(tree, pkg, es, n),
           NEW i, NEW s, StandsIn(pkg, i, s)
    PROVE  /\ \E k \in DOMAIN es : k <= n /\ FromFirst(tree, pkg, es[k], i, s)
           /\ Applied(pkg, i) => \E k \in DOMAIN es : k > n /\ FromSecond(pkg, es[k], i, s)
  <1>1. PICK k \in DOMAIN es : k <= n /\ EffectOf(tree, pkg, es[k], i, s)
    BY DEF EffectsAre
  <1>2. es[k] = StmEffect(tree, PkgDecls(pkg)[i].imports, s)
    BY <1>1 DEF EffectOf
  <1>3. FromFirst(tree, pkg, es[k], i, s)
    BY <1>2, StmKinds DEF FromFirst
  <1>4. ASSUME Applied(pkg, i) PROVE \E j \in DOMAIN es : j > n /\ FromSecond(pkg, es[j], i, s)
    <2>1. PICK x : x \in Arguments(pkg)
      BY <1>4 DEF Applied
    <2>2. IsMethodAt(pkg, i)
      BY <1>4 DEF Applied
    <2>3. PICK l \in DOMAIN PkgDecls(pkg)[i].fn.body : s = PkgDecls(pkg)[i].fn.body[l]
      BY DEF StandsIn, Range
    <2>4. PICK j \in DOMAIN es : j > n /\ MethodEffectOf(pkg, es[j], i, l, x)
      BY <2>1, <2>2 DEF EffectsAre
    <2>5. MethodKind(pkg, i, s, es[j])
      BY <2>1, <2>3, <2>4, MethodKinds
    <2>6. FromSecond(pkg, es[j], i, s)
      BY <1>4, <2>5 DEF FromSecond
    <2> QED BY <2>4, <2>6
  <1> QED BY <1>1, <1>3, <1>4

\* Statement s of function i puts a logger on a group.
LoggedAt(tree, pkg, i, s) ==
    StandsIn(pkg, i, s) /\ s.on # "" /\ Logs(tree, PkgDecls(pkg)[i].imports, s)

LEMMA LoggedIs ==
    ASSUME NEW tree, NEW pkg
    PROVE  /\ \A i, s : LoggedAt(tree, pkg, i, s) => <<i, s.on>> \in Logged(tree, pkg)
           /\ \A g \in Logged(tree, pkg) : \E i, s : LoggedAt(tree, pkg, i, s) /\ g = <<i, s.on>>
  <1> DEFINE logger == {q \in On(pkg, "use") : q[2].how = "logger"}
             asked == {q \in On(pkg, "aggregate") :
                         /\ q[2].how \in AggregatorFuncNames
                         /\ q[2].to \in PkgDecls(pkg)[q[1]].imports
                         /\ ResolveExternalMiddleware(tree, q[2].to)}
  <1>1. Logged(tree, pkg) = {GroupOf(p) : p \in logger \cup asked}
    BY DEF Logged
  <1>2. \A q : q \in logger \cup asked <=>
                 /\ q \in Placed(pkg) /\ q[2].on # ""
                 /\ Logs(tree, PkgDecls(pkg)[q[1]].imports, q[2])
    BY DEF On, Logs
  <1> HIDE DEF logger, asked
  <1>3. ASSUME NEW i, NEW s, LoggedAt(tree, pkg, i, s) PROVE <<i, s.on>> \in Logged(tree, pkg)
    <2> DEFINE p == <<i, s>>
    <2>1. p \in Placed(pkg)
      BY <1>3, PlacedIs DEF LoggedAt
    <2>2. p[1] = i /\ p[2] = s
      OBVIOUS
    <2> HIDE DEF p
    <2>3. p \in logger \cup asked
      BY <1>2, <1>3, <2>1, <2>2 DEF LoggedAt
    <2>4. GroupOf(p) = <<i, s.on>>
      BY <2>2 DEF GroupOf
    <2> QED BY <1>1, <2>3, <2>4
  <1>4. ASSUME NEW g \in Logged(tree, pkg) PROVE \E i, s : LoggedAt(tree, pkg, i, s) /\ g = <<i, s.on>>
    <2>1. PICK p : p \in logger \cup asked /\ g = GroupOf(p)
      BY <1>1
    <2>2. LoggedAt(tree, pkg, p[1], p[2])
      BY <1>2, <2>1, PlacedIs DEF LoggedAt
    <2> QED BY <2>1, <2>2 DEF GroupOf
  <1> QED BY <1>3, <1>4

\* Every part of a context has a statement behind it.
CtxSound(tree, pkg, ctx) ==
    /\ IsFiniteSet(DOMAIN ctx.parent)
    /\ \A g \in ctx.cover : \E i, s :
          LoggedAt(tree, pkg, i, s) /\ (g = <<s.on>> \/ g = Key(pkg, i, s.on))
    /\ \A g \in DOMAIN ctx.parent : \E i, s :
          /\ StandsIn(pkg, i, s) /\ s.op = "group"
          /\ \/ s.on # "" /\ g = <<s.to>> /\ ctx.parent[g] = <<s.on>>
             \/ g = Key(pkg, i, s.to) /\ ctx.parent[g] = Key(pkg, i, s.on)
    /\ \A g \in DOMAIN ctx.handler : \E i, s :
          StandsIn(pkg, i, s) /\ s.op = "verb" /\ g = <<s.to>> /\ ctx.handler[g] = Key(pkg, i, s.on)
    /\ \A g \in ctx.ir : \E i, s : StandsIn(pkg, i, s) /\ s.op = "install" /\ s.on # "" /\ g = <<s.on>>

LEMMA CtxIsSound ==
    ASSUME NEW tree, NEW pkg, PkgParsed(pkg), TidyParts(pkg), NEW es, NEW n, EffectsAre(tree, pkg, es, n)
    PROVE  CtxSound(tree, pkg, CtxOf(es))
  <1> DEFINE ctx == CtxOf(es)
             imports(i) == PkgDecls(pkg)[i].imports
  <1>1. IsList(es) /\ n \in Nat
    BY DEF EffectsAre
  <1>2. /\ ctx.cover = KeysOf(es, "cover") /\ ctx.ir = KeysOf(es, "ir")
        /\ DOMAIN ctx.parent = KeysOf(es, "parent") /\ DOMAIN ctx.handler = KeysOf(es, "handler")
        /\ \A key \in DOMAIN ctx.parent : \E k : LastOf(es, "parent", key, k) /\ ctx.parent[key] = es[k].val
        /\ \A key \in DOMAIN ctx.handler : \E k : LastOf(es, "handler", key, k) /\ ctx.handler[key] = es[k].val
    BY <1>1, CtxFrom
  <1> HIDE DEF ctx
  <1>3. IsFiniteSet(DOMAIN ctx.parent)
    BY <1>1, <1>2, KeysFinite
  <1>4. \A k \in DOMAIN es : k \in Nat
    <2>1. Len(es) \in Nat /\ DOMAIN es = 1..Len(es)
      BY <1>1, ListFacts
    <2> QED BY <2>1
  <1>5. ASSUME NEW g \in ctx.cover
        PROVE  \E i, s : LoggedAt(tree, pkg, i, s) /\ (g = <<s.on>> \/ g = Key(pkg, i, s.on))
    <2>1. PICK k \in DOMAIN es : es[k].op = "cover" /\ es[k].key = g
      BY <1>2 DEF KeysOf
    <2>2. PICK i, s : FromFirst(tree, pkg, es[k], i, s) \/ FromSecond(pkg, es[k], i, s)
      BY EffectFrom
    <2>3. CASE FromFirst(tree, pkg, es[k], i, s)
      <3>1. StandsIn(pkg, i, s) /\ s.on # "" /\ Logs(tree, imports(i), s) /\ g = <<s.on>>
        BY <2>1, <2>3 DEF FromFirst, StmKind
      <3> QED BY <3>1 DEF LoggedAt
    <2>4. CASE FromSecond(pkg, es[k], i, s)
      <3>1. StandsIn(pkg, i, s) /\ s.op = "use" /\ s.how = "logger" /\ s.on # "" /\ g = Key(pkg, i, s.on)
        BY <2>1, <2>4 DEF FromSecond, MethodKind
      <3> QED BY <3>1 DEF LoggedAt, Logs
    <2> QED BY <2>2, <2>3, <2>4
  <1>6. ASSUME NEW g \in DOMAIN ctx.parent
        PROVE  \E i, s : /\ StandsIn(pkg, i, s) /\ s.op = "group"
                         /\ \/ s.on # "" /\ g = <<s.to>> /\ ctx.parent[g] = <<s.on>>
                            \/ g = Key(pkg, i, s.to) /\ ctx.parent[g] = Key(pkg, i, s.on)
    <2>1. PICK k : LastOf(es, "parent", g, k) /\ ctx.parent[g] = es[k].val
      BY <1>2
    <2>2. k \in DOMAIN es /\ es[k].op = "parent" /\ es[k].key = g
      BY <2>1 DEF LastOf
    <2>3. PICK i, s : FromFirst(tree, pkg, es[k], i, s) \/ FromSecond(pkg, es[k], i, s)
      BY <2>2, EffectFrom
    <2>4. CASE FromFirst(tree, pkg, es[k], i, s)
      <3>1. StandsIn(pkg, i, s) /\ s.on # "" /\ s.op = "group" /\ g = <<s.to>> /\ ctx.parent[g] = <<s.on>>
        BY <2>1, <2>2, <2>4 DEF FromFirst, StmKind
      <3> QED BY <3>1
    <2>5. CASE FromSecond(pkg, es[k], i, s)
      <3>1. StandsIn(pkg, i, s) /\ s.op = "group" /\ g = Key(pkg, i, s.to) /\ ctx.parent[g] = Key(pkg, i, s.on)
        BY <2>1, <2>2, <2>5 DEF FromSecond, MethodKind
      <3> QED BY <3>1
    <2> QED BY <2>3, <2>4, <2>5
  <1>7. ASSUME NEW g \in DOMAIN ctx.handler
        PROVE  \E i, s : StandsIn(pkg, i, s) /\ s.op = "verb" /\ g = <<s.to>> /\ ctx.handler[g] = Key(pkg, i, s.on)
    <2>1. PICK k : LastOf(es, "handler", g, k) /\ ctx.handler[g] = es[k].val
      BY <1>2
    <2>2. /\ k \in DOMAIN es /\ es[k].op = "handler" /\ es[k].key = g
          /\ \A j \in DOMAIN es : es[j].op = "handler" /\ es[j].key = g => j <= k
      BY <2>1 DEF LastOf
    <2>3. PICK i, s : \/ k <= n /\ FromFirst(tree, pkg, es[k], i, s)
                      \/ k > n /\ FromSecond(pkg, es[k], i, s)
      BY <2>2, EffectFrom
    <2>4. CASE k <= n /\ FromFirst(tree, pkg, es[k], i, s)
      <3>1. StandsIn(pkg, i, s) /\ s.op = "verb" /\ g = <<s.to>> /\ ctx.handler[g] = <<s.on>>
        BY <2>1, <2>2, <2>4 DEF FromFirst, StmKind
      <3>2. ~Applied(pkg, i)
        <4> SUFFICES ASSUME Applied(pkg, i) PROVE FALSE
          OBVIOUS
        <4>1. PICK j \in DOMAIN es : j > n /\ FromSecond(pkg, es[j], i, s)
          BY <3>1, EffectFor
        <4>2. es[j].op = "handler" /\ es[j].key = g
          BY <3>1, <4>1 DEF FromSecond, MethodKind
        <4>3. j <= k
          BY <2>2, <4>2
        <4> QED BY <1>1, <1>4, <2>2, <2>4, <4>1, <4>3
      <3>3. ctx.handler[g] = Key(pkg, i, s.on)
        BY <3>1, <3>2, KeyOther
      <3> QED BY <3>1, <3>3
    <2>5. CASE FromSecond(pkg, es[k], i, s)
      <3>1. StandsIn(pkg, i, s) /\ s.op = "verb" /\ g = <<s.to>> /\ ctx.handler[g] = Key(pkg, i, s.on)
        BY <2>1, <2>2, <2>5 DEF FromSecond, MethodKind
      <3> QED BY <3>1
    <2> QED BY <2>3, <2>4, <2>5
  <1>8. ASSUME NEW g \in ctx.ir
        PROVE  \E i, s : StandsIn(pkg, i, s) /\ s.op = "install" /\ s.on # "" /\ g = <<s.on>>
    <2>1. PICK k \in DOMAIN es : es[k].op = "ir" /\ es[k].key = g
      BY <1>2 DEF KeysOf
    <2>2. PICK i, s : FromFirst(tree, pkg, es[k], i, s) \/ FromSecond(pkg, es[k], i, s)
      BY EffectFrom
    <2>3. FromFirst(tree, pkg, es[k], i, s)
      BY <2>1, <2>2 DEF FromSecond, MethodKind
    <2> QED BY <2>1, <2>3 DEF FromFirst, StmKind
  <1>9. CtxSound(tree, pkg, ctx)
    BY <1>3, <1>5, <1>6, <1>7, <1>8 DEF CtxSound
  <1> QED BY <1>9 DEF ctx

\* Every statement has its part in the context.
CtxComplete(tree, pkg, ctx) ==
    /\ \A i, s : LoggedAt(tree, pkg, i, s) => Key(pkg, i, s.on) \in ctx.cover
    /\ \A i, s : StandsIn(pkg, i, s) /\ s.op = "group" /\ s.on # "" =>
          Key(pkg, i, s.to) \in DOMAIN ctx.parent /\ ctx.parent[Key(pkg, i, s.to)] = Key(pkg, i, s.on)
    /\ \A i, s : StandsIn(pkg, i, s) /\ s.op = "verb" /\ s.on # "" =>
          <<s.to>> \in DOMAIN ctx.handler /\ ctx.handler[<<s.to>>] = Key(pkg, i, s.on)
    /\ \A i, s : StandsIn(pkg, i, s) /\ s.op = "install" /\ s.on # "" =>
          <<s.on>> \in ctx.ir /\ Key(pkg, i, s.on) = <<s.on>>

\* A method does not install again and asks no aggregator.
LEMMA MethodAsksNone ==
    ASSUME NEW pkg, TidyParts(pkg), NEW i, NEW s, StandsIn(pkg, i, s), s.op \in {"aggregate", "install"}
    PROVE  ~Applied(pkg, i)
  <1> SUFFICES ASSUME Applied(pkg, i) PROVE FALSE
    OBVIOUS
  <1>1. TidyMethod(PkgDecls(pkg)[i].fn)
    BY DEF Applied, TidyParts, TidyMethods
  <1>2. s.op \notin {"aggregate", "install"}
    BY <1>1 DEF TidyMethod, StandsIn
  <1> QED BY <1>2

LEMMA CtxIsComplete ==
    ASSUME NEW tree, NEW pkg, PkgParsed(pkg), TidyParts(pkg), NEW es, NEW n, EffectsAre(tree, pkg, es, n)
    PROVE  CtxComplete(tree, pkg, CtxOf(es))
  <1> DEFINE ctx == CtxOf(es)
             imports(i) == PkgDecls(pkg)[i].imports
  <1>1. IsList(es) /\ n \in Nat
    BY DEF EffectsAre
  <1>2. /\ ctx.cover = KeysOf(es, "cover") /\ ctx.ir = KeysOf(es, "ir")
        /\ DOMAIN ctx.parent = KeysOf(es, "parent") /\ DOMAIN ctx.handler = KeysOf(es, "handler")
        /\ \A key \in DOMAIN ctx.parent : \E k : LastOf(es, "parent", key, k) /\ ctx.parent[key] = es[k].val
    BY <1>1, CtxFrom
  <1>3. CtxSound(tree, pkg, ctx)
    BY CtxIsSound
  <1> HIDE DEF ctx
  <1>4. ASSUME NEW i, NEW s, LoggedAt(tree, pkg, i, s) PROVE Key(pkg, i, s.on) \in ctx.cover
    <2>1. StandsIn(pkg, i, s) /\ s.on # "" /\ Logs(tree, imports(i), s)
      BY <1>4 DEF LoggedAt
    <2>2. CASE Applied(pkg, i)
      <3>1. s.op # "aggregate"
        BY <2>1, <2>2, MethodAsksNone
      <3>2. s.op = "use" /\ s.how = "logger"
        BY <2>1, <3>1 DEF Logs
      <3>3. PICK k \in DOMAIN es : FromSecond(pkg, es[k], i, s)
        BY <2>1, <2>2, EffectFor
      <3>4. es[k].op = "cover" /\ es[k].key = Key(pkg, i, s.on)
        BY <2>1, <3>2, <3>3 DEF FromSecond, MethodKind
      <3> QED BY <1>2, <3>4 DEF KeysOf
    <2>3. CASE ~Applied(pkg, i)
      <3>1. PICK k \in DOMAIN es : FromFirst(tree, pkg, es[k], i, s)
        BY <2>1, EffectFor
      <3>2. es[k].op = "cover" /\ es[k].key = <<s.on>>
        BY <2>1, <3>1 DEF FromFirst, StmKind
      <3>3. Key(pkg, i, s.on) = <<s.on>>
        BY <2>3, KeyOther
      <3> QED BY <1>2, <3>2, <3>3 DEF KeysOf
    <2> QED BY <2>2, <2>3
  <1>5. ASSUME NEW i, NEW s, StandsIn(pkg, i, s), s.op = "group", s.on # ""
        PROVE  Key(pkg, i, s.to) \in DOMAIN ctx.parent /\ ctx.parent[Key(pkg, i, s.to)] = Key(pkg, i, s.on)
    <2> DEFINE g == Key(pkg, i, s.to)
    <2>1. g \in KeysOf(es, "parent")
      <3>1. CASE Applied(pkg, i)
        <4>1. PICK k \in DOMAIN es : FromSecond(pkg, es[k], i, s)
          BY <1>5, <3>1, EffectFor
        <4>2. es[k].op = "parent" /\ es[k].key = g
          BY <1>5, <4>1 DEF FromSecond, MethodKind
        <4> HIDE DEF g
        <4> QED BY <4>2 DEF KeysOf
      <3>2. CASE ~Applied(pkg, i)
        <4>1. PICK k \in DOMAIN es : FromFirst(tree, pkg, es[k], i, s)
          BY <1>5, EffectFor
        <4>2. es[k].op = "parent" /\ es[k].key = <<s.to>>
          BY <1>5, <4>1 DEF FromFirst, StmKind
        <4>3. g = <<s.to>>
          BY <3>2, KeyOther
        <4> HIDE DEF g
        <4> QED BY <4>2, <4>3 DEF KeysOf
      <3> QED BY <3>1, <3>2
    <2> HIDE DEF g
    <2>2. PICK k : LastOf(es, "parent", g, k) /\ ctx.parent[g] = es[k].val
      BY <1>2, <2>1
    <2>3. k \in DOMAIN es /\ es[k].op = "parent" /\ es[k].key = g
      BY <2>2 DEF LastOf
    <2>4. PICK j, u : FromFirst(tree, pkg, es[k], j, u) \/ FromSecond(pkg, es[k], j, u)
      BY <2>3, EffectFrom
    <2>5. CASE FromFirst(tree, pkg, es[k], j, u)
      <3>1. StandsIn(pkg, j, u) /\ u.op = "group" /\ g = <<u.to>> /\ es[k].val = <<u.on>>
        BY <2>3, <2>5 DEF FromFirst, StmKind
      <3>2. ~Applied(pkg, i)
        <4> SUFFICES ASSUME Applied(pkg, i) PROVE FALSE
          OBVIOUS
        <4>1. PICK x : x \in Arguments(pkg)
          BY DEF Applied
        <4>2. g = <<s.to, x>>
          BY <1>5, <4>1, KeyMade DEF g, Applied
        <4>3. Len(<<s.to, x>>) = 2 /\ Len(<<u.to>>) = 1
          OBVIOUS
        <4> QED BY <3>1, <4>2, <4>3
      <3>3. g = <<s.to>> /\ Key(pkg, i, s.on) = <<s.on>>
        BY <3>2, KeyOther DEF g
      <3>4. s.to = u.to
        BY <3>1, <3>3, OneName
      <3>5. s = u
        BY <1>5, <3>1, <3>4 DEF TidyParts, TidyOnce
      <3> QED BY <1>2, <2>1, <2>2, <3>1, <3>3, <3>5 DEF g
    <2>6. CASE FromSecond(pkg, es[k], j, u)
      <3>1. /\ Applied(pkg, j) /\ StandsIn(pkg, j, u) /\ u.op = "group" /\ g = Key(pkg, j, u.to)
            /\ es[k].val = Key(pkg, j, u.on)
        BY <2>3, <2>6 DEF FromSecond, MethodKind
      <3>2. PICK x : x \in Arguments(pkg)
        BY <3>1 DEF Applied
      <3>3. g = <<u.to, x>>
        BY <3>1, <3>2, KeyMade DEF Applied
      <3>4. Applied(pkg, i)
        <4> SUFFICES ASSUME ~Applied(pkg, i) PROVE FALSE
          OBVIOUS
        <4>1. g = <<s.to>>
          BY KeyOther DEF g
        <4>2. Len(<<u.to, x>>) = 2 /\ Len(<<s.to>>) = 1
          OBVIOUS
        <4> QED BY <3>3, <4>1, <4>2
      <3>5. g = <<s.to, x>>
        BY <1>5, <3>2, <3>4, KeyMade DEF g, Applied
      <3>6. s.to = u.to
        <4>1. <<s.to, x>>[1] = s.to /\ <<u.to, x>>[1] = u.to
          OBVIOUS
        <4> QED BY <3>3, <3>5, <4>1
      <3>7. s = u /\ i = j
        BY <1>5, <3>1, <3>6 DEF TidyParts, TidyOnce
      <3> QED BY <1>2, <2>1, <2>2, <3>1, <3>7 DEF g
    <2> QED BY <2>4, <2>5, <2>6
  <1>6. ASSUME NEW i, NEW s, StandsIn(pkg, i, s), s.op = "verb", s.on # ""
        PROVE  <<s.to>> \in DOMAIN ctx.handler /\ ctx.handler[<<s.to>>] = Key(pkg, i, s.on)
    <2>1. PICK k \in DOMAIN es : FromFirst(tree, pkg, es[k], i, s)
      BY <1>6, EffectFor
    <2>2. es[k].op = "handler" /\ es[k].key = <<s.to>>
      BY <1>6, <2>1 DEF FromFirst, StmKind
    <2>3. <<s.to>> \in DOMAIN ctx.handler
      BY <1>2, <2>2 DEF KeysOf
    <2>4. PICK j, u : StandsIn(pkg, j, u) /\ u.op = "verb" /\ <<s.to>> = <<u.to>>
                        /\ ctx.handler[<<s.to>>] = Key(pkg, j, u.on)
      BY <1>3, <2>3 DEF CtxSound
    <2>5. s.to = u.to
      BY <2>4, OneName
    <2>6. i = j /\ s = u
      BY <1>6, <2>4, <2>5 DEF TidyParts, TidyOnce
    <2> QED BY <2>3, <2>4, <2>6
  <1>7. ASSUME NEW i, NEW s, StandsIn(pkg, i, s), s.op = "install", s.on # ""
        PROVE  <<s.on>> \in ctx.ir /\ Key(pkg, i, s.on) = <<s.on>>
    <2>1. PICK k \in DOMAIN es : FromFirst(tree, pkg, es[k], i, s)
      BY <1>7, EffectFor
    <2>2. es[k].op = "ir" /\ es[k].key = <<s.on>>
      BY <1>7, <2>1 DEF FromFirst, StmKind
    <2>3. ~Applied(pkg, i)
      BY <1>7, MethodAsksNone
    <2> QED BY <1>2, <2>2, <2>3, KeyOther DEF KeysOf
  <1>8. CtxComplete(tree, pkg, ctx)
    BY <1>4, <1>5, <1>6, <1>7 DEF CtxComplete
  <1> QED BY <1>8 DEF ctx

------------------------------------------------------------------------------
(* The reference: groups under a logger.                                   *)

\* The parts of UnderLogger.
UnderAll(tree, pkg) == Logged(tree, pkg) \cup UNION {{e[1], e[2]} : e \in Under(pkg)}
UnderClosed(tree, pkg, closed) ==
    Logged(tree, pkg) \subseteq closed /\ \A e \in Under(pkg) : e[2] \in closed => e[1] \in closed

LEMMA UnderLoggerIs ==
    ASSUME NEW tree, NEW pkg
    PROVE  UnderLogger(tree, pkg) =
             {g \in UnderAll(tree, pkg) : \A closed \in SUBSET UnderAll(tree, pkg) :
                UnderClosed(tree, pkg, closed) => g \in closed}
  BY DEF UnderLogger, UnderAll, UnderClosed

\* Statement s of function k calls InstallRoutes on a group.
InstallsAt(pkg, k, s) == StandsIn(pkg, k, s) /\ s.op = "install" /\ s.on # ""
ParamOf(pkg, m) == PkgDecls(pkg)[m].fn.param

\* A group is made from another, or is a parameter and its argument.
UnderStep(pkg, g, h) ==
    \/ \E i, s : StandsIn(pkg, i, s) /\ s.op = "group" /\ s.on # "" /\ g = <<i, s.to>> /\ h = <<i, s.on>>
    \/ \E m, k, s : IsMethodAt(pkg, m) /\ InstallsAt(pkg, k, s) /\ g = <<m, ParamOf(pkg, m)>> /\ h = <<k, s.on>>
    \/ \E m, k, s : IsMethodAt(pkg, m) /\ InstallsAt(pkg, k, s) /\ g = <<k, s.on>> /\ h = <<m, ParamOf(pkg, m)>>

\* Statement s of function i, as the reference lists it.
PlacedAs(pkg, p, i, s) == p \in On(pkg, s.op) /\ p[1] = i /\ p[2] = s /\ GroupOf(p) = <<i, s.on>>

LEMMA UnderSteps ==
    ASSUME NEW pkg
    PROVE  /\ \A e \in Under(pkg) : UnderStep(pkg, e[1], e[2])
           /\ \A g, h : UnderStep(pkg, g, h) => \E e \in Under(pkg) : e[1] = g /\ e[2] = h
  <1> DEFINE made == {<<<<p[1], p[2].to>>, GroupOf(p)>> : p \in On(pkg, "group")}
             down == {<<g, GroupOf(p)>> : g \in Params(pkg), p \in On(pkg, "install")}
             up == {<<GroupOf(p), g>> : g \in Params(pkg), p \in On(pkg, "install")}
  <1>1. Under(pkg) = made \cup down \cup up
    BY DEF Under
  <1>2. \A g, h : <<g, h>>[1] = g /\ <<g, h>>[2] = h
    OBVIOUS
  <1>3. \A op, p : p \in On(pkg, op) =>
           StandsIn(pkg, p[1], p[2]) /\ p[2].op = op /\ p[2].on # "" /\ GroupOf(p) = <<p[1], p[2].on>>
    BY PlacedIs DEF On, GroupOf
  <1>4. ASSUME NEW i, NEW s, StandsIn(pkg, i, s), s.on # ""
        PROVE  \E p : PlacedAs(pkg, p, i, s)
    <2> DEFINE p == <<i, s>>
    <2>1. p \in Placed(pkg)
      BY <1>4, PlacedIs
    <2>2. p[1] = i /\ p[2] = s
      OBVIOUS
    <2> HIDE DEF p
    <2>3. PlacedAs(pkg, p, i, s)
      BY <1>4, <2>1, <2>2 DEF On, GroupOf, PlacedAs
    <2> QED BY <2>3
  <1>5. \A g \in Params(pkg) : \E m : IsMethodAt(pkg, m) /\ g = <<m, ParamOf(pkg, m)>>
    BY DEF Params, IsMethodAt, ParamOf
  <1>6. \A m : IsMethodAt(pkg, m) => <<m, ParamOf(pkg, m)>> \in Params(pkg)
    BY DEF Params, IsMethodAt, ParamOf
  <1>7. ASSUME NEW e \in Under(pkg) PROVE UnderStep(pkg, e[1], e[2])
    <2>1. CASE e \in made
      <3>1. PICK p : p \in On(pkg, "group") /\ e = <<<<p[1], p[2].to>>, GroupOf(p)>>
        BY <2>1
      <3>2. e[1] = <<p[1], p[2].to>> /\ e[2] = GroupOf(p)
        BY <1>2, <3>1
      <3>3. StandsIn(pkg, p[1], p[2]) /\ p[2].op = "group" /\ p[2].on # "" /\ e[2] = <<p[1], p[2].on>>
        BY <1>3, <3>1, <3>2
      <3> QED BY <3>2, <3>3 DEF UnderStep
    <2>2. CASE e \in down
      <3>1. PICK g, p : g \in Params(pkg) /\ p \in On(pkg, "install") /\ e = <<g, GroupOf(p)>>
        BY <2>2
      <3>2. e[1] = g /\ e[2] = GroupOf(p)
        BY <1>2, <3>1
      <3>3. PICK m : IsMethodAt(pkg, m) /\ g = <<m, ParamOf(pkg, m)>>
        BY <1>5, <3>1
      <3>4. InstallsAt(pkg, p[1], p[2]) /\ GroupOf(p) = <<p[1], p[2].on>>
        BY <1>3, <3>1 DEF InstallsAt
      <3> QED BY <3>2, <3>3, <3>4 DEF UnderStep
    <2>3. CASE e \in up
      <3>1. PICK g, p : g \in Params(pkg) /\ p \in On(pkg, "install") /\ e = <<GroupOf(p), g>>
        BY <2>3
      <3>2. e[2] = g /\ e[1] = GroupOf(p)
        BY <1>2, <3>1
      <3>3. PICK m : IsMethodAt(pkg, m) /\ g = <<m, ParamOf(pkg, m)>>
        BY <1>5, <3>1
      <3>4. InstallsAt(pkg, p[1], p[2]) /\ GroupOf(p) = <<p[1], p[2].on>>
        BY <1>3, <3>1 DEF InstallsAt
      <3> QED BY <3>2, <3>3, <3>4 DEF UnderStep
    <2> HIDE DEF made, down, up
    <2> QED BY <1>1, <2>1, <2>2, <2>3
  <1>8. ASSUME NEW g, NEW h, UnderStep(pkg, g, h) PROVE \E e \in Under(pkg) : e[1] = g /\ e[2] = h
    <2>1. ASSUME NEW i, NEW s, StandsIn(pkg, i, s), s.op = "group", s.on # "", g = <<i, s.to>>, h = <<i, s.on>>
          PROVE  <<g, h>> \in made
      <3>0. PICK p : PlacedAs(pkg, p, i, s)
        BY <1>4, <2>1
      <3>1. p \in On(pkg, "group") /\ p[1] = i /\ p[2] = s /\ GroupOf(p) = <<i, s.on>>
        BY <2>1, <3>0 DEF PlacedAs
      <3>2. <<g, h>> = <<<<p[1], p[2].to>>, GroupOf(p)>>
        BY <2>1, <3>1
      <3> QED BY <3>1, <3>2
    <2>2. ASSUME NEW m, NEW k, NEW s, IsMethodAt(pkg, m), InstallsAt(pkg, k, s)
          PROVE  /\ <<<<m, ParamOf(pkg, m)>>, <<k, s.on>>>> \in down
                 /\ <<<<k, s.on>>, <<m, ParamOf(pkg, m)>>>> \in up
      <3> DEFINE param == <<m, ParamOf(pkg, m)>>
      <3>0. PICK p : PlacedAs(pkg, p, k, s)
        BY <1>4, <2>2 DEF InstallsAt
      <3>1. p \in On(pkg, "install") /\ GroupOf(p) = <<k, s.on>>
        BY <2>2, <3>0 DEF PlacedAs, InstallsAt
      <3>2. param \in Params(pkg)
        BY <1>6, <2>2
      <3> HIDE DEF param
      <3>3. <<param, GroupOf(p)>> \in down /\ <<GroupOf(p), param>> \in up
        BY <3>1, <3>2
      <3> QED BY <3>1, <3>3 DEF param
    <2> HIDE DEF made, down, up
    <2>3. <<g, h>> \in made \cup down \cup up
      BY <2>1, <2>2, <1>8 DEF UnderStep
    <2> QED BY <1>1, <1>2, <2>3
  <1> QED BY <1>7, <1>8

\* A closed set has what is one step under one of its members.
LEMMA UnderClosedStep ==
    ASSUME NEW tree, NEW pkg, NEW closed, UnderClosed(tree, pkg, closed), NEW g, NEW h,
           UnderStep(pkg, g, h), h \in closed
    PROVE  g \in closed
  <1>1. PICK e \in Under(pkg) : e[1] = g /\ e[2] = h
    BY UnderSteps
  <1> QED BY <1>1 DEF UnderClosed

\* All groups of the reference are a closed set.
LEMMA UnderAllClosed ==
    ASSUME NEW tree, NEW pkg
    PROVE  UnderClosed(tree, pkg, UnderAll(tree, pkg))
  <1> DEFINE ends == {{e[1], e[2]} : e \in Under(pkg)}
  <1>1. Logged(tree, pkg) \subseteq UnderAll(tree, pkg) /\ UNION ends \subseteq UnderAll(tree, pkg)
    BY DEF UnderAll
  <1>2. ASSUME NEW e \in Under(pkg) PROVE e[1] \in UnderAll(tree, pkg)
    <2>1. {e[1], e[2]} \in ends
      BY <1>2
    <2>2. e[1] \in UNION ends
      BY <2>1
    <2> QED BY <1>1, <2>2
  <1> QED BY <1>1, <1>2 DEF UnderClosed

------------------------------------------------------------------------------
(* What a context covers lies under a logger.                              *)

\* What a variable can stand for.
LEMMA KeyForms ==
    ASSUME NEW pkg, TidyParts(pkg), NEW i, NEW x
    PROVE  \/ Key(pkg, i, x) = <<x>>
           \/ /\ Applied(pkg, i)
              /\ \E a \in Arguments(pkg) : \/ Key(pkg, i, x) = <<x, a>>
                                           \/ x = ParamOf(pkg, i) /\ Key(pkg, i, x) = <<a>>
  <1>1. CASE Applied(pkg, i)
    <2>1. PICK a : a \in Arguments(pkg)
      BY <1>1 DEF Applied
    <2>2. Key(pkg, i, x) = LocalKey(PkgDecls(pkg)[i].fn, a, x)
      BY <1>1, <2>1, KeyMethod DEF Applied
    <2> QED BY <1>1, <2>1, <2>2 DEF LocalKey, ParamOf
  <1>2. CASE ~Applied(pkg, i)
    BY <1>2, KeyOther
  <1> QED BY <1>1, <1>2

\* An argument is a variable of the function with the call.
LEMMA ArgumentIs ==
    ASSUME NEW pkg, NEW a \in Arguments(pkg)
    PROVE  \E k, s : InstallsAt(pkg, k, s) /\ s.on = a /\ k \in DOMAIN PkgDecls(pkg) /\ a \in GroupNames(pkg, k)
  <1>1. PICK p : p \in On(pkg, "install") /\ a = p[2].on
    BY DEF Arguments
  <1>2. InstallsAt(pkg, p[1], p[2])
    BY <1>1, PlacedIs DEF On, InstallsAt
  <1>3. p[1] \in DOMAIN PkgDecls(pkg) /\ p[2].on \in GroupNames(pkg, p[1])
    BY <1>2 DEF InstallsAt, StandsIn, GroupNames
  <1> QED BY <1>1, <1>2, <1>3

\* A variable with a name stands for a group with one, and only then.
LEMMA KeyNamed ==
    ASSUME NEW pkg, TidyParts(pkg), NEW i, NEW x
    PROVE  x = "" <=> Key(pkg, i, x) = <<"">>
  <1> DEFINE none == ""
  <1>1. \A a \in Arguments(pkg) : a # none
    BY DEF Arguments, On
  <1>2. ASSUME x # none PROVE Key(pkg, i, x) # <<none>>
    <2> HIDE DEF none
    <2>1. \A a : <<a>> = <<none>> => a = none
      BY OneName
    <2>2. \A a : <<x, a>> # <<none>>
      <3> SUFFICES ASSUME NEW a, <<x, a>> = <<none>> PROVE FALSE
        OBVIOUS
      <3>1. Len(<<x, a>>) = 2 /\ Len(<<none>>) = 1
        OBVIOUS
      <3> QED BY <3>1
    <2> QED BY <1>1, <1>2, <2>1, <2>2, KeyForms
  <1>3. ASSUME x = none PROVE Key(pkg, i, x) = <<none>>
    <2>1. CASE Applied(pkg, i)
      <3>1. PICK a : a \in Arguments(pkg)
        BY <2>1 DEF Applied
      <3> DEFINE fn == PkgDecls(pkg)[i].fn
      <3>2. \A s \in Range(fn.body) : ~Makes(s, x)
        <4> SUFFICES ASSUME NEW s \in Range(fn.body), Makes(s, x) PROVE FALSE
          OBVIOUS
        <4>1. StandsIn(pkg, i, s) /\ s.op = "group" /\ s.to = none
          BY <1>3, <2>1 DEF StandsIn, Applied, IsMethodAt, Makes
        <4> QED BY <4>1 DEF TidyParts, TidyGroups
      <3>3. x # fn.param
        BY <1>3, <2>1 DEF Applied, IsMethodAt, IsInstallRoutes
      <3>4. LocalKey(fn, a, x) = <<x>>
        BY <3>2, <3>3 DEF LocalKey
      <3> QED BY <1>3, <2>1, <3>1, <3>4, KeyMethod DEF Applied
    <2>2. CASE ~Applied(pkg, i)
      BY <1>3, <2>2, KeyOther
    <2> QED BY <2>1, <2>2
  <1> HIDE DEF none
  <1>4. x = none <=> Key(pkg, i, x) = <<none>>
    BY <1>2, <1>3
  <1> QED BY <1>4 DEF none

\* A variable and a group that it can stand for.
Means(pkg, g, i, x) ==
    /\ i \in DOMAIN PkgDecls(pkg) /\ x \in GroupNames(pkg, i) /\ x # ""
    /\ g = <<x>> \/ g = Key(pkg, i, x)

\* What it can be, in full.
MeansName(g, x) == g = <<x>>
MeansMade(pkg, g, i, x) == Applied(pkg, i) /\ \E a : g = <<x, a>>
MeansParam(pkg, g, i, x) == Applied(pkg, i) /\ x = ParamOf(pkg, i) /\ \E a \in Arguments(pkg) : g = <<a>>

LEMMA MeansForms ==
    ASSUME NEW pkg, TidyParts(pkg), NEW g, NEW i, NEW x, Means(pkg, g, i, x)
    PROVE  MeansName(g, x) \/ MeansMade(pkg, g, i, x) \/ MeansParam(pkg, g, i, x)
  <1>1. CASE g = <<x>>
    BY <1>1 DEF MeansName
  <1>2. CASE g = Key(pkg, i, x)
    BY <1>2, KeyForms DEF MeansName, MeansMade, MeansParam
  <1> QED BY <1>1, <1>2 DEF Means

\* Two variables that can stand for the same group are in a closed set together.
LEMMA SameGroup ==
    ASSUME NEW tree, NEW pkg, TidyParts(pkg), NEW closed, UnderClosed(tree, pkg, closed), NEW g,
           NEW i, NEW x, Means(pkg, g, i, x), <<i, x>> \in closed,
           NEW j, NEW y, Means(pkg, g, j, y)
    PROVE  <<j, y>> \in closed
  <1>1. /\ i \in DOMAIN PkgDecls(pkg) /\ x \in GroupNames(pkg, i) /\ x # ""
        /\ j \in DOMAIN PkgDecls(pkg) /\ y \in GroupNames(pkg, j) /\ y # ""
    BY DEF Means
  <1>2. ASSUME NEW k, k \in DOMAIN PkgDecls(pkg), NEW l, l \in DOMAIN PkgDecls(pkg), NEW z,
               z \in GroupNames(pkg, k), z \in GroupNames(pkg, l), z # ""
        PROVE  k = l
    <2>1. k # l => GroupNames(pkg, k) \cap GroupNames(pkg, l) \subseteq {""}
      BY <1>2 DEF TidyParts, TidyNamed
    <2> QED BY <1>2, <2>1
  <1>3. \A a, b, c : <<a>> # <<b, c>>
    <2> SUFFICES ASSUME NEW a, NEW b, NEW c, <<a>> = <<b, c>> PROVE FALSE
      OBVIOUS
    <2>1. Len(<<b, c>>) = 2 /\ Len(<<a>>) = 1
      OBVIOUS
    <2> QED BY <2>1
  <1>4. \A a, b : <<a>> = <<b>> => a = b
    BY OneName
  <1>5. \A a, b, c, d : <<a, b>> = <<c, d>> => a = c
    OBVIOUS
  <1>6. Applied(pkg, i) /\ Applied(pkg, j) => i = j
    BY DEF Applied, TidyParts, TidyMethods
  <1>7. CASE MeansName(g, x) /\ MeansName(g, y)
    <2>1. x = y
      BY <1>4, <1>7 DEF MeansName
    <2>2. i = j
      BY <1>1, <1>2, <2>1
    <2> QED BY <2>1, <2>2
  <1>8. CASE MeansName(g, x) /\ MeansParam(pkg, g, j, y)
    <2>1. x \in Arguments(pkg) /\ y = ParamOf(pkg, j) /\ IsMethodAt(pkg, j)
      BY <1>4, <1>8 DEF MeansName, MeansParam, Applied
    <2>2. PICK k, s : InstallsAt(pkg, k, s) /\ s.on = x /\ k \in DOMAIN PkgDecls(pkg) /\ x \in GroupNames(pkg, k)
      BY <2>1, ArgumentIs
    <2>3. k = i
      BY <1>1, <1>2, <2>2
    <2>4. UnderStep(pkg, <<j, y>>, <<i, x>>)
      BY <2>1, <2>2, <2>3 DEF UnderStep
    <2> QED BY <2>4, UnderClosedStep
  <1>9. CASE MeansParam(pkg, g, i, x) /\ MeansName(g, y)
    <2>1. y \in Arguments(pkg) /\ x = ParamOf(pkg, i) /\ IsMethodAt(pkg, i)
      BY <1>4, <1>9 DEF MeansName, MeansParam, Applied
    <2>2. PICK k, s : InstallsAt(pkg, k, s) /\ s.on = y /\ k \in DOMAIN PkgDecls(pkg) /\ y \in GroupNames(pkg, k)
      BY <2>1, ArgumentIs
    <2>3. k = j
      BY <1>1, <1>2, <2>2
    <2>4. UnderStep(pkg, <<j, y>>, <<i, x>>)
      BY <2>1, <2>2, <2>3 DEF UnderStep
    <2> QED BY <2>4, UnderClosedStep
  <1>10. CASE MeansParam(pkg, g, i, x) /\ MeansParam(pkg, g, j, y)
    BY <1>6, <1>10 DEF MeansParam
  <1>11. CASE MeansMade(pkg, g, i, x) /\ MeansMade(pkg, g, j, y)
    BY <1>5, <1>6, <1>11 DEF MeansMade
  <1>12. ~(MeansMade(pkg, g, i, x) /\ (MeansName(g, y) \/ MeansParam(pkg, g, j, y)))
    BY <1>3 DEF MeansMade, MeansName, MeansParam
  <1>13. ~(MeansMade(pkg, g, j, y) /\ (MeansName(g, x) \/ MeansParam(pkg, g, i, x)))
    BY <1>3 DEF MeansMade, MeansName, MeansParam
  <1>14. MeansName(g, x) \/ MeansMade(pkg, g, i, x) \/ MeansParam(pkg, g, i, x)
    BY MeansForms
  <1>15. MeansName(g, y) \/ MeansMade(pkg, g, j, y) \/ MeansParam(pkg, g, j, y)
    BY MeansForms
  <1> QED BY <1>7, <1>8, <1>9, <1>10, <1>11, <1>12, <1>13, <1>14, <1>15

\* Every variable that can stand for the group is in closed.
GroupAmong(pkg, g, closed) ==
    g # <<"">> /\ \A j, y : Means(pkg, g, j, y) => <<j, y>> \in closed

\* So it is for a group with a logger of its own.
LEMMA CoverAmong ==
    ASSUME NEW tree, NEW pkg, TidyParts(pkg), NEW ctx, CtxSound(tree, pkg, ctx),
           NEW closed, UnderClosed(tree, pkg, closed), NEW g \in ctx.cover
    PROVE  GroupAmong(pkg, g, closed)
  <1>1. PICK i, s : LoggedAt(tree, pkg, i, s) /\ (g = <<s.on>> \/ g = Key(pkg, i, s.on))
    BY DEF CtxSound
  <1>2. <<i, s.on>> \in closed
    BY <1>1, LoggedIs DEF UnderClosed
  <1>3. StandsIn(pkg, i, s) /\ s.on # "" /\ s.op \in {"use", "aggregate"}
    BY <1>1 DEF LoggedAt, Logs
  <1>4. i \in DOMAIN PkgDecls(pkg) /\ s.on \in GroupNames(pkg, i)
    BY <1>3 DEF StandsIn, GroupNames
  <1>5. Means(pkg, g, i, s.on)
    BY <1>1, <1>3, <1>4 DEF Means
  <1>6. g # <<"">>
    <2>1. Key(pkg, i, s.on) # <<"">>
      BY <1>3, KeyNamed
    <2>2. <<s.on>> # <<"">>
      <3> DEFINE none == ""
                 on == s.on
      <3>1. on # none
        BY <1>3
      <3> HIDE DEF none, on
      <3>2. <<on>> # <<none>>
        BY <3>1, OneName
      <3> QED BY <3>2 DEF on, none
    <2> QED BY <1>1, <2>1, <2>2
  <1>7. \A j, y : Means(pkg, g, j, y) => <<j, y>> \in closed
    BY <1>2, <1>5, SameGroup
  <1> QED BY <1>6, <1>7 DEF GroupAmong

\* And for a group below one for which it is so.
LEMMA AboveAmong ==
    ASSUME NEW tree, NEW pkg, TidyParts(pkg), NEW ctx, CtxSound(tree, pkg, ctx),
           NEW closed, UnderClosed(tree, pkg, closed), NEW g,
           GroupAmong(pkg, Above1(ctx.parent, g), closed)
    PROVE  GroupAmong(pkg, g, closed)
  <1>1. CASE g \notin DOMAIN ctx.parent
    BY <1>1 DEF Above1
  <1>2. CASE g \in DOMAIN ctx.parent
    <2>1. PICK i, s : /\ StandsIn(pkg, i, s) /\ s.op = "group"
                      /\ \/ s.on # "" /\ g = <<s.to>> /\ ctx.parent[g] = <<s.on>>
                         \/ g = Key(pkg, i, s.to) /\ ctx.parent[g] = Key(pkg, i, s.on)
      BY <1>2 DEF CtxSound
    <2> DEFINE up == ctx.parent[g]
    <2>2. GroupAmong(pkg, up, closed)
      BY <1>2 DEF Above1
    <2> HIDE DEF up
    <2>3. up = <<s.on>> \/ up = Key(pkg, i, s.on)
      BY <2>1 DEF up
    <2>4. i \in DOMAIN PkgDecls(pkg) /\ s.on \in GroupNames(pkg, i) /\ s.to \in GroupNames(pkg, i)
      BY <2>1 DEF StandsIn, GroupNames
    <2>5. s.on # ""
      <3>1. up # <<"">>
        BY <2>2 DEF GroupAmong
      <3>2. s.on = "" => Key(pkg, i, s.on) = <<"">>
        BY KeyNamed
      <3> QED BY <2>1, <3>1, <3>2 DEF up
    <2>6. <<i, s.on>> \in closed
      <3>1. Means(pkg, up, i, s.on)
        BY <2>3, <2>4, <2>5 DEF Means
      <3> QED BY <2>2, <3>1 DEF GroupAmong
    <2>7. <<i, s.to>> \in closed
      <3>1. UnderStep(pkg, <<i, s.to>>, <<i, s.on>>)
        BY <2>1, <2>5 DEF UnderStep
      <3> QED BY <2>6, <3>1, UnderClosedStep
    <2>8. s.to # ""
      BY <2>1 DEF TidyParts, TidyGroups
    <2>9. Means(pkg, g, i, s.to)
      BY <2>1, <2>4, <2>8 DEF Means
    <2>10. g # <<"">>
      <3>1. Key(pkg, i, s.to) # <<"">>
        <4> DEFINE to == s.to
        <4>1. to # ""
          BY <2>8
        <4> HIDE DEF to
        <4>2. to = "" <=> Key(pkg, i, to) = <<"">>
          BY KeyNamed
        <4> QED BY <4>1, <4>2 DEF to
      <3>2. <<s.to>> # <<"">>
        <4> DEFINE none == ""
                   to == s.to
        <4>1. to # none
          BY <2>8
        <4> HIDE DEF none, to
        <4>2. <<to>> # <<none>>
          BY <4>1, OneName
        <4> QED BY <4>2 DEF to, none
      <3> QED BY <2>1, <3>1, <3>2
    <2>11. \A j, y : Means(pkg, g, j, y) => <<j, y>> \in closed
      BY <2>7, <2>9, SameGroup
    <2> QED BY <2>10, <2>11 DEF GroupAmong
  <1> QED BY <1>1, <1>2

\* And hence for every group with coverage.
LEMMA CoveredAmong ==
    ASSUME NEW tree, NEW pkg, TidyParts(pkg), NEW ctx, CtxSound(tree, pkg, ctx),
           NEW closed, UnderClosed(tree, pkg, closed), NEW g, GroupHasCoverage(ctx, g)
    PROVE  GroupAmong(pkg, g, closed)
  <1> DEFINE parent == ctx.parent
             n == Cardinality(DOMAIN parent)
  <1>1. IsFiniteSet(DOMAIN parent)
    BY DEF CtxSound
  <1>2. n \in Nat /\ \E f : ChainBy(ctx, g, f)
    BY <1>1, ChainClimbs
  <1>3. PICK f : ChainBy(ctx, g, f)
    BY <1>2
  <1>21. ClimbsTo(f, parent, g, n) /\ Chain(ctx, g) = {f[k] : k \in 0..n}
    BY <1>3 DEF ChainBy
  <1>4. PICK h : h \in Chain(ctx, g) /\ h \in ctx.cover
    BY DEF GroupHasCoverage
  <1>5. PICK m \in 0..n : f[m] = h
    BY <1>4, <1>21
  <1>6. f[0] = g /\ \A k \in 1..n : f[k] = Above1(parent, f[k - 1])
    BY <1>3 DEF ChainBy
  <1> DEFINE D == {k \in 0..n : GroupAmong(pkg, f[k], closed)}
  <1>7. m \in D
    BY <1>4, <1>5, CoverAmong
  <1>8. ASSUME NEW k \in 1..m, k \in D PROVE k - 1 \in D
    <2>1. k \in 1..n /\ k - 1 \in 0..n
      BY <1>2, <1>5, <1>8
    <2>2. GroupAmong(pkg, Above1(parent, f[k - 1]), closed)
      BY <1>6, <1>8, <2>1
    <2>3. GroupAmong(pkg, f[k - 1], closed)
      BY <2>2, AboveAmong
    <2> QED BY <2>1, <2>3
  <1>9. m \in Nat
    BY <1>2, <1>5
  <1>10. \A k \in D : GroupAmong(pkg, f[k], closed)
    OBVIOUS
  <1> HIDE DEF D
  <1>11. 0 \in D
    BY <1>7, <1>8, <1>9, DownToZero
  <1> QED BY <1>6, <1>10, <1>11

\* A variable that stands for a group with coverage lies under a logger.
LEMMA CoveredUnder ==
    ASSUME NEW tree, NEW pkg, TidyParts(pkg), NEW ctx, CtxSound(tree, pkg, ctx),
           NEW i \in DOMAIN PkgDecls(pkg), NEW x \in GroupNames(pkg, i), GroupHasCoverage(ctx, Key(pkg, i, x))
    PROVE  x # "" /\ <<i, x>> \in UnderLogger(tree, pkg)
  <1>1. UnderClosed(tree, pkg, UnderAll(tree, pkg))
    BY UnderAllClosed
  <1>2. x # ""
    <2>1. GroupAmong(pkg, Key(pkg, i, x), UnderAll(tree, pkg))
      BY <1>1, CoveredAmong
    <2>2. Key(pkg, i, x) # <<"">>
      BY <2>1 DEF GroupAmong
    <2> QED BY <2>2, KeyNamed
  <1>3. Means(pkg, Key(pkg, i, x), i, x)
    BY <1>2 DEF Means
  <1>4. ASSUME NEW closed, UnderClosed(tree, pkg, closed) PROVE <<i, x>> \in closed
    <2>1. GroupAmong(pkg, Key(pkg, i, x), closed)
      BY <1>4, CoveredAmong
    <2> QED BY <1>3, <2>1 DEF GroupAmong
  <1>5. <<i, x>> \in UnderAll(tree, pkg)
    BY <1>1, <1>4
  <1> QED BY <1>2, <1>4, <1>5, UnderLoggerIs

------------------------------------------------------------------------------
(* What lies under a logger is covered.                                    *)

\* The groups that a context covers, as the reference names them.
KeyCovered(pkg, ctx, e) == e[2] # "" /\ GroupHasCoverage(ctx, Key(pkg, e[1], e[2]))

\* Coverage passes down every step of the reference.
LEMMA StepCovered ==
    ASSUME NEW tree, NEW pkg, TidyParts(pkg), NEW ctx, CtxSound(tree, pkg, ctx), CtxComplete(tree, pkg, ctx),
           NEW g, NEW h, UnderStep(pkg, g, h), KeyCovered(pkg, ctx, h)
    PROVE  KeyCovered(pkg, ctx, g)
  <1>1. \A a, b : <<a, b>>[1] = a /\ <<a, b>>[2] = b
    OBVIOUS
  <1>2. ASSUME NEW i, NEW s, StandsIn(pkg, i, s), s.op = "group", s.on # "", g = <<i, s.to>>, h = <<i, s.on>>
        PROVE  KeyCovered(pkg, ctx, g)
    <2> DEFINE k == Key(pkg, i, s.to)
    <2>1. k \in DOMAIN ctx.parent /\ ctx.parent[k] = Key(pkg, i, s.on)
      BY <1>2 DEF CtxComplete
    <2>2. GroupHasCoverage(ctx, ctx.parent[k])
      BY <1>1, <1>2, <2>1 DEF KeyCovered
    <2>3. IsFiniteSet(DOMAIN ctx.parent)
      BY DEF CtxSound
    <2>4. s.to # ""
      BY <1>2 DEF TidyParts, TidyGroups
    <2> HIDE DEF k
    <2>5. GroupHasCoverage(ctx, k)
      BY <2>1, <2>2, <2>3, ParentReached
    <2> QED BY <1>1, <1>2, <2>4, <2>5 DEF KeyCovered, k
  <1>3. ASSUME NEW m, NEW k, NEW s, IsMethodAt(pkg, m), InstallsAt(pkg, k, s)
        PROVE  /\ ParamOf(pkg, m) # "" /\ s.on # ""
               /\ Key(pkg, m, ParamOf(pkg, m)) = Key(pkg, k, s.on)
    <2>1. ParamOf(pkg, m) # "" /\ s.on # "" /\ StandsIn(pkg, k, s) /\ s.op = "install"
      BY <1>3 DEF IsMethodAt, IsInstallRoutes, ParamOf, InstallsAt
    <2>2. Key(pkg, k, s.on) = <<s.on>>
      BY <2>1 DEF CtxComplete
    <2>3. s.on \in Arguments(pkg)
      <3> DEFINE p == <<k, s>>
      <3>1. p \in Placed(pkg)
        BY <2>1, PlacedIs
      <3>2. p[2] = s
        OBVIOUS
      <3> HIDE DEF p
      <3>3. p \in On(pkg, "install")
        BY <2>1, <3>1, <3>2 DEF On
      <3> QED BY <3>2, <3>3 DEF Arguments
    <2> DEFINE fn == PkgDecls(pkg)[m].fn
    <2>4. TidyMethod(fn)
      BY <1>3 DEF TidyParts, TidyMethods
    <2>5. \A u \in Range(fn.body) : ~Makes(u, fn.param)
      BY <2>4 DEF TidyMethod
    <2>6. LocalKey(fn, s.on, fn.param) = <<s.on>>
      BY <2>5 DEF LocalKey
    <2>7. Key(pkg, m, fn.param) = <<s.on>>
      BY <1>3, <2>3, <2>6, KeyMethod
    <2> QED BY <2>1, <2>2, <2>7 DEF ParamOf
  <1>4. ASSUME NEW m, NEW k, NEW s, IsMethodAt(pkg, m), InstallsAt(pkg, k, s),
               \/ g = <<m, ParamOf(pkg, m)>> /\ h = <<k, s.on>>
               \/ g = <<k, s.on>> /\ h = <<m, ParamOf(pkg, m)>>
        PROVE  KeyCovered(pkg, ctx, g)
    <2> DEFINE x == ParamOf(pkg, m)
               y == s.on
    <2>1. x # "" /\ y # "" /\ Key(pkg, m, x) = Key(pkg, k, y)
      BY <1>3, <1>4
    <2>2. \/ g = <<m, x>> /\ h = <<k, y>>
          \/ g = <<k, y>> /\ h = <<m, x>>
      BY <1>4
    <2> HIDE DEF x, y
    <2>3. \/ g[1] = m /\ g[2] = x /\ h[1] = k /\ h[2] = y
          \/ g[1] = k /\ g[2] = y /\ h[1] = m /\ h[2] = x
      BY <1>1, <2>2
    <2>4. GroupHasCoverage(ctx, Key(pkg, h[1], h[2]))
      BY DEF KeyCovered
    <2>5. Key(pkg, g[1], g[2]) = Key(pkg, h[1], h[2]) /\ g[2] # ""
      BY <2>1, <2>3
    <2> QED BY <2>4, <2>5 DEF KeyCovered
  <1> QED BY <1>2, <1>4 DEF UnderStep

\* So every group under a logger is covered.
LEMMA UnderCovered ==
    ASSUME NEW tree, NEW pkg, TidyParts(pkg), NEW ctx, CtxSound(tree, pkg, ctx), CtxComplete(tree, pkg, ctx),
           NEW g \in UnderLogger(tree, pkg)
    PROVE  KeyCovered(pkg, ctx, g)
  <1> DEFINE all == UnderAll(tree, pkg)
             closed == {e \in all : KeyCovered(pkg, ctx, e)}
  <1>1. UnderClosed(tree, pkg, all)
    BY UnderAllClosed
  <1>2. ASSUME NEW e \in Logged(tree, pkg) PROVE e \in closed
    <2>1. PICK i, s : LoggedAt(tree, pkg, i, s) /\ e = <<i, s.on>>
      BY LoggedIs
    <2>2. Key(pkg, i, s.on) \in ctx.cover /\ IsFiniteSet(DOMAIN ctx.parent) /\ s.on # ""
      BY <2>1 DEF CtxComplete, CtxSound, LoggedAt
    <2>3. GroupHasCoverage(ctx, Key(pkg, i, s.on))
      BY <2>2, CoverReached
    <2>4. e[1] = i /\ e[2] = s.on
      BY <2>1
    <2>5. e \in all
      BY <1>1 DEF UnderClosed
    <2> QED BY <2>2, <2>3, <2>4, <2>5 DEF KeyCovered
  <1>3. ASSUME NEW e \in Under(pkg), e[2] \in closed PROVE e[1] \in closed
    <2>1. UnderStep(pkg, e[1], e[2])
      BY UnderSteps
    <2>2. KeyCovered(pkg, ctx, e[1])
      BY <1>3, <2>1, StepCovered
    <2>3. e[1] \in all
      BY <1>1, <1>3 DEF UnderClosed
    <2> QED BY <2>2, <2>3
  <1>4. UnderClosed(tree, pkg, closed) /\ closed \in SUBSET all
    BY <1>2, <1>3 DEF UnderClosed
  <1>5. g \in closed
    <2> HIDE DEF closed
    <2> QED BY <1>4, UnderLoggerIs
  <1> QED BY <1>5

------------------------------------------------------------------------------
(* One directory: the scanner and the reference agree.                     *)

LEMMA CoveredExact ==
    ASSUME NEW tree, NEW d, PkgParsed(tree.dirs[d]), Tidy(tree.dirs[d]),
           NEW order \in MethodOrders(tree.dirs[d]), NEW name
    PROVE  CoveredAt(BuildPackageMiddlewareCtx(tree, tree.dirs[d], order), d, name)
             <=> RoutedUnderLogger(tree, d, name)
  <1> DEFINE pkg == tree.dirs[d]
             es == Effects(tree, pkg, order)
             ctx == BuildPackageMiddlewareCtx(tree, pkg, order)
  <1>1. TidyParts(pkg)
    BY TidyIs
  <1>2. Len(InstallRoutesMethods(pkg)) <= 1
    BY DEF Tidy
  <1>3. PICK n : EffectsAre(tree, pkg, es, n)
    BY <1>2, EffectsListed
  <1>4. ctx = CtxOf(es)
    BY DEF BuildPackageMiddlewareCtx
  <1> HIDE DEF ctx, es
  <1>5. CtxSound(tree, pkg, ctx) /\ CtxComplete(tree, pkg, ctx)
    <2>1. CtxSound(tree, pkg, CtxOf(es))
      BY <1>1, <1>3, CtxIsSound
    <2>2. CtxComplete(tree, pkg, CtxOf(es))
      BY <1>1, <1>3, CtxIsComplete
    <2> QED BY <1>4, <2>1, <2>2
  <1> DEFINE Routes(p) == IF d = 1 THEN p \in On(pkg, "verb") /\ p[2].to = name ELSE p \in On(pkg, "install")
  <1>6. RoutedUnderLogger(tree, d, name) <=> \E p : Routes(p) /\ GroupOf(p) \in UnderLogger(tree, pkg)
    BY DEF RoutedUnderLogger
  <1>7. \A op, p : p \in On(pkg, op) => /\ StandsIn(pkg, p[1], p[2]) /\ p[2].op = op /\ p[2].on # ""
                                        /\ GroupOf(p) = <<p[1], p[2].on>>
    BY PlacedIs DEF On, GroupOf
  <1>8. ASSUME NEW i, NEW s, StandsIn(pkg, i, s), s.op \in {"verb", "install"}, GroupHasCoverage(ctx, Key(pkg, i, s.on))
        PROVE  s.on # "" /\ <<i, s.on>> \in UnderLogger(tree, pkg)
    <2>1. i \in DOMAIN PkgDecls(pkg) /\ s.on \in GroupNames(pkg, i)
      BY <1>8 DEF StandsIn, GroupNames
    <2> HIDE DEF pkg
    <2> QED BY <1>1, <1>5, <1>8, <2>1, CoveredUnder
  <1>9. ASSUME NEW i, NEW x, <<i, x>> \in UnderLogger(tree, pkg)
        PROVE  GroupHasCoverage(ctx, Key(pkg, i, x))
    <2> DEFINE g == <<i, x>>
    <2>1. g[1] = i /\ g[2] = x
      OBVIOUS
    <2> HIDE DEF g, pkg
    <2>2. KeyCovered(pkg, ctx, g)
      BY <1>1, <1>5, <1>9, UnderCovered DEF g
    <2> QED BY <2>1, <2>2 DEF KeyCovered
  <1>10. ASSUME NEW i, NEW s, StandsIn(pkg, i, s), s.on # ""
         PROVE  \E p : PlacedAs(pkg, p, i, s)
    <2> DEFINE p == <<i, s>>
    <2>1. p \in Placed(pkg)
      BY <1>10, PlacedIs
    <2>2. p[1] = i /\ p[2] = s
      OBVIOUS
    <2> HIDE DEF p, pkg
    <2>3. PlacedAs(pkg, p, i, s)
      BY <1>10, <2>1, <2>2 DEF On, GroupOf, PlacedAs
    <2> QED BY <2>3
  <1>11. CASE d = 1
    <2>1. CoveredAt(ctx, d, name) <=> /\ <<name>> \in DOMAIN ctx.handler
                                      /\ GroupHasCoverage(ctx, ctx.handler[<<name>>])
      BY <1>11 DEF CoveredAt
    <2> DEFINE Key0(i, x) == Key(pkg, i, x)
    <2> HIDE DEF pkg
    <2>2. ASSUME CoveredAt(ctx, d, name) PROVE RoutedUnderLogger(tree, d, name)
      <3>1. PICK i, s : StandsIn(pkg, i, s) /\ s.op = "verb" /\ <<name>> = <<s.to>>
                          /\ ctx.handler[<<name>>] = Key(pkg, i, s.on)
        BY <1>5, <2>1, <2>2 DEF CtxSound
      <3>2. name = s.to
        BY <3>1, OneName
      <3>3. s.on # "" /\ <<i, s.on>> \in UnderLogger(tree, pkg)
        BY <1>8, <2>1, <2>2, <3>1
      <3>4. PICK p : PlacedAs(pkg, p, i, s)
        BY <1>10, <3>1, <3>3
      <3>5. Routes(p) /\ GroupOf(p) \in UnderLogger(tree, pkg)
        BY <1>11, <3>1, <3>2, <3>3, <3>4 DEF PlacedAs
      <3> QED BY <1>6, <3>5
    <2>3. ASSUME RoutedUnderLogger(tree, d, name) PROVE CoveredAt(ctx, d, name)
      <3>1. PICK p : Routes(p) /\ GroupOf(p) \in UnderLogger(tree, pkg)
        BY <1>6, <2>3
      <3>2. /\ StandsIn(pkg, p[1], p[2]) /\ p[2].op = "verb" /\ p[2].on # "" /\ p[2].to = name
            /\ GroupOf(p) = <<p[1], p[2].on>>
        BY <1>7, <1>11, <3>1
      <3>3. GroupHasCoverage(ctx, Key(pkg, p[1], p[2].on))
        BY <1>9, <3>1, <3>2
      <3>4. <<name>> \in DOMAIN ctx.handler /\ ctx.handler[<<name>>] = Key(pkg, p[1], p[2].on)
        BY <1>5, <3>2 DEF CtxComplete
      <3> QED BY <2>1, <3>3, <3>4
    <2> QED BY <2>2, <2>3 DEF ctx, pkg
  <1>12. CASE d # 1
    <2>1. CoveredAt(ctx, d, name) <=> \E i \in ctx.ir : GroupHasCoverage(ctx, i)
      BY <1>12 DEF CoveredAt, ParentHasMiddlewareCoveringChild, GroupHasCoverage
    <2> HIDE DEF pkg
    <2>2. ASSUME CoveredAt(ctx, d, name) PROVE RoutedUnderLogger(tree, d, name)
      <3>0. PICK g : g \in ctx.ir /\ GroupHasCoverage(ctx, g)
        BY <2>1, <2>2
      <3>1. PICK i, s : StandsIn(pkg, i, s) /\ s.op = "install" /\ s.on # "" /\ g = <<s.on>>
        BY <1>5, <3>0 DEF CtxSound
      <3>2. Key(pkg, i, s.on) = g
        BY <1>5, <3>1 DEF CtxComplete
      <3>3. <<i, s.on>> \in UnderLogger(tree, pkg)
        BY <1>8, <3>0, <3>1, <3>2
      <3>4. PICK p : PlacedAs(pkg, p, i, s)
        BY <1>10, <3>1
      <3>5. Routes(p) /\ GroupOf(p) \in UnderLogger(tree, pkg)
        BY <1>12, <3>1, <3>3, <3>4 DEF PlacedAs
      <3> QED BY <1>6, <3>5
    <2>3. ASSUME RoutedUnderLogger(tree, d, name) PROVE CoveredAt(ctx, d, name)
      <3>1. PICK p : Routes(p) /\ GroupOf(p) \in UnderLogger(tree, pkg)
        BY <1>6, <2>3
      <3>2. /\ StandsIn(pkg, p[1], p[2]) /\ p[2].op = "install" /\ p[2].on # ""
            /\ GroupOf(p) = <<p[1], p[2].on>>
        BY <1>7, <1>12, <3>1
      <3>3. GroupHasCoverage(ctx, Key(pkg, p[1], p[2].on))
        BY <1>9, <3>1, <3>2
      <3>4. <<p[2].on>> \in ctx.ir /\ Key(pkg, p[1], p[2].on) = <<p[2].on>>
        BY <1>5, <3>2 DEF CtxComplete
      <3> QED BY <2>1, <3>3, <3>4
    <2> QED BY <2>2, <2>3 DEF ctx, pkg
  <1> QED BY <1>11, <1>12

\* Every context that the scanner can build of a directory tells what it gives
\* a handler.
CtxsExact(tree) ==
    \A d \in 1..LastDir(tree) : \A ctx \in CtxsOf(tree, d) : \A name :
        CoveredAt(ctx, d, name) <=> RoutedUnderLogger(tree, d, name)

\* A project of one version in which names say enough.
CoverTidy(p) ==
    /\ Len(p.history) = 1
    /\ \A d \in 1..LastDir(p.history[1]) : Tidy(p.history[1].dirs[d])

\* Its contexts.
LEMMA TidyCtxsExact ==
    ASSUME NEW p \in AuditSources, CoverTidy(p)
    PROVE  CtxsExact(p.history[1])
  <1> DEFINE trees == p.history
             tree == trees[1]
             dirs == tree.dirs
  <1>1. IsList(trees) /\ Len(trees) = 1
    BY AuditSourcesAssumption DEF CoverTidy
  <1>2. DOMAIN trees = 1..Len(trees)
    BY <1>1, ListFacts
  <1>3. 1 \in DOMAIN trees
    BY <1>1, <1>2
  <1>4. tree \in Range(trees)
    BY <1>3 DEF Range
  <1>5. /\ IsList(dirs) /\ dirs # <<>>
        /\ \A pkg \in Range(dirs) :
              /\ IsList(pkg.files)
              /\ \A file \in Range(pkg.files) :
                    IsList(file.decls) /\ \A f \in Range(file.decls) : IsList(f.body)
    BY <1>4, AuditSourcesAssumption
  <1>6. \A d \in 1..LastDir(tree) : Tidy(dirs[d])
    BY DEF CoverTidy
  <1> HIDE DEF tree
  <1>7. Len(dirs) \in Nat \ {0} /\ DOMAIN dirs = 1..Len(dirs)
    <2> DEFINE s == dirs
    <2> HIDE DEF s
    <2>1. IsList(s) /\ s # <<>>
      BY <1>5 DEF s
    <2>2. s \in Seq(Range(s)) /\ DOMAIN s = 1..Len(s)
      BY <2>1, ListFacts
    <2>3. Len(s) \in Nat \ {0} /\ DOMAIN s = 1..Len(s)
      BY <2>1, <2>2
    <2> QED BY <2>3 DEF s
  <1>8. 1..LastDir(tree) \subseteq DOMAIN dirs
    <2>1. MaxParentWalk \in Nat
      BY AuditSourcesAssumption
    <2> QED BY <1>7, <2>1 DEF LastDir
  <1>9. ASSUME NEW d \in 1..LastDir(tree) PROVE PkgParsed(dirs[d])
    <2> DEFINE pkg == dirs[d]
    <2>1. pkg \in Range(dirs)
      BY <1>8, <1>9 DEF Range
    <2>2. /\ IsList(pkg.files)
          /\ \A file \in Range(pkg.files) :
                IsList(file.decls) /\ \A f \in Range(file.decls) : IsList(f.body)
      BY <1>5, <2>1
    <2> HIDE DEF pkg
    <2>3. PkgParsed(pkg)
      BY <2>2 DEF PkgParsed, Range
    <2> QED BY <2>3 DEF pkg
  <1>10. ASSUME NEW d \in 1..LastDir(tree), NEW ctx \in CtxsOf(tree, d), NEW name
         PROVE  CoveredAt(ctx, d, name) <=> RoutedUnderLogger(tree, d, name)
    <2>1. PICK o \in MethodOrders(tree.dirs[d]) : ctx = BuildPackageMiddlewareCtx(tree, tree.dirs[d], o)
      BY DEF CtxsOf
    <2>2. PkgParsed(tree.dirs[d]) /\ Tidy(tree.dirs[d])
      BY <1>6, <1>9
    <2>3. CoveredAt(BuildPackageMiddlewareCtx(tree, tree.dirs[d], o), d, name)
            <=> RoutedUnderLogger(tree, d, name)
      BY <2>2, CoveredExact
    <2> QED BY <2>1, <2>3
  <1>11. CtxsExact(tree)
    BY <1>10 DEF CtxsExact
  <1> QED BY <1>11 DEF tree

------------------------------------------------------------------------------
(* Scans of a tidy project.                                                *)

\* What AuditCoverageExact says of one finding: it is about a handler, and
\* about the routes of its name if that one does not log.
FindingExact(tree, r) ==
    \E i \in DOMAIN tree.dirs[1].files : \E k \in DOMAIN PaymentHandlers(tree.dirs[1].files[i]) :
        LET file == tree.dirs[1].files[i]
            h == PaymentHandlers(file)[k]
        IN  /\ r.handler = h.decl.name
            /\ ~LogsItself(h, file) /\ ~HasLoggingMiddleware(file)
               => (r.mw <=> HandlerUnderLogger(tree, r.handler))

\* A handler of the file with number i, so far.
HandlerOf(tree, i, h) == h \in Range(PaymentHandlers(tree.dirs[1].files[i]))

\* Where a call is in its file, and what is left of it.
CoverPlace(tree, call) ==
    /\ call.pc \in {"idle", "file", "handler"} => call.held = {}
    /\ call.pc \in CallInFile =>
          \E i \in DOMAIN tree.dirs[1].files :
              /\ call.src = tree.dirs[1].files[i] /\ IsList(call.todo)
              /\ \A k \in DOMAIN call.todo : HandlerOf(tree, i, call.todo[k])
    /\ call.pc \in {"cover", "source", "score"} => call.todo # <<>> /\ ~LogsItself(Head(call.todo), call.src)
    /\ call.pc \in {"cover", "source"} =>
          call.dir \in 1..LastDir(tree) /\ call.held \subseteq CtxsOf(tree, call.dir)

\* What it knows of the handler in hand.
CoverKnows(tree, call) ==
    /\ call.pc = "cover" =>
          /\ ~HasLoggingMiddleware(call.src)
          /\ \A e \in 1..(call.dir - 1) : ~RoutedUnderLogger(tree, e, Head(call.todo).decl.name)
    /\ call.pc \in {"source", "score"} =>
          HasLoggingMiddleware(call.src) \/ HandlerUnderLogger(tree, Head(call.todo).decl.name)

\* A call, whoever runs beside it.
CallCovers(tree, call) ==
    /\ DOMAIN call = AuditCallFields /\ call.file \in Nat \ {0}
    /\ IsList(call.findings) /\ \A k \in DOMAIN call.findings : FindingExact(tree, call.findings[k])
    /\ CoverPlace(tree, call) /\ CoverKnows(tree, call)

\* The inductive invariant: the cached contexts are contexts of the sources, and
\* what calls have concluded from such contexts is so.
AuditCoverInv ==
    scanner = "audit" /\ CoverTidy(project) =>
        /\ ContextsFresh(project.history[1], work.pkgCache)
        /\ \A c \in DOMAIN work.calls : CallCovers(project.history[1], work.calls[c])

\* A list of handlers, without its first.
LEMMA TailOf ==
    ASSUME NEW s, IsList(s), s # <<>>
    PROVE  /\ IsList(Tail(s)) /\ 1 \in DOMAIN s /\ Head(s) = s[1]
           /\ \A k \in DOMAIN Tail(s) : k + 1 \in DOMAIN s /\ Tail(s)[k] = s[k + 1]
  <1> DEFINE V == Range(s)
  <1> HIDE DEF V
  <1>1. s \in Seq(V) /\ DOMAIN s = 1..Len(s) /\ Len(s) \in Nat
    BY ListFacts DEF V
  <1>2. Tail(s) \in Seq(V) /\ Len(Tail(s)) = Len(s) - 1 /\ Head(s) = s[1] /\ 1 \in DOMAIN s
    BY <1>1
  <1>3. \A k \in DOMAIN Tail(s) : k + 1 \in DOMAIN s /\ Tail(s)[k] = s[k + 1]
    BY <1>1, <1>2
  <1>4. IsList(Tail(s))
    BY <1>2, SequenceIsList
  <1> QED BY <1>2, <1>3, <1>4

\* A list, with one more at the end.
LEMMA AppendTo ==
    ASSUME NEW s, IsList(s), NEW x
    PROVE  /\ IsList(Append(s, x))
           /\ \A k \in DOMAIN Append(s, x) : Append(s, x)[k] = x \/ (k \in DOMAIN s /\ Append(s, x)[k] = s[k])
  <1> DEFINE V == Range(s) \cup {x}
  <1>1. s \in Seq(Range(s)) /\ DOMAIN s = 1..Len(s) /\ Len(s) \in Nat
    BY ListFacts
  <1>2. s \in Seq(V) /\ x \in V
    BY <1>1
  <1> HIDE DEF V
  <1>3. Append(s, x) \in Seq(V) /\ DOMAIN Append(s, x) = 1..(Len(s) + 1)
    BY <1>2
  <1>4. IsList(Append(s, x))
    BY <1>3, SequenceIsList
  <1>5. ASSUME NEW k \in DOMAIN Append(s, x)
        PROVE  Append(s, x)[k] = x \/ (k \in DOMAIN s /\ Append(s, x)[k] = s[k])
    BY <1>1, <1>2, <1>3
  <1> QED BY <1>4, <1>5

\* The handler in hand and its file.
LEMMA HandlerInHand ==
    ASSUME NEW tree, NEW call, CoverPlace(tree, call), call.pc \in CallInFile, call.todo # <<>>
    PROVE  \E i \in DOMAIN tree.dirs[1].files : \E k \in DOMAIN PaymentHandlers(tree.dirs[1].files[i]) :
              call.src = tree.dirs[1].files[i] /\ Head(call.todo) = PaymentHandlers(tree.dirs[1].files[i])[k]
  <1>1. PICK i \in DOMAIN tree.dirs[1].files :
           /\ call.src = tree.dirs[1].files[i] /\ IsList(call.todo)
           /\ \A k \in DOMAIN call.todo : HandlerOf(tree, i, call.todo[k])
    BY DEF CoverPlace
  <1> DEFINE s == call.todo
  <1>2. IsList(s) /\ s # <<>>
    BY <1>1
  <1> HIDE DEF s
  <1>3. 1 \in DOMAIN s /\ Head(s) = s[1]
    BY <1>2, TailOf
  <1>4. HandlerOf(tree, i, Head(s))
    BY <1>1, <1>3 DEF s
  <1>5. PICK k \in DOMAIN PaymentHandlers(tree.dirs[1].files[i]) :
           Head(s) = PaymentHandlers(tree.dirs[1].files[i])[k]
    BY <1>4 DEF HandlerOf, Range
  <1> QED BY <1>1, <1>5 DEF s

\* An exact finding about the handler in hand.
LEMMA FindingInHand ==
    ASSUME NEW tree, NEW call, CoverPlace(tree, call), call.pc \in CallInFile, call.todo # <<>>,
           NEW rule, NEW sev, NEW mw,
           ~LogsItself(Head(call.todo), call.src) /\ ~HasLoggingMiddleware(call.src)
              => (mw <=> HandlerUnderLogger(tree, Head(call.todo).decl.name))
    PROVE  FindingExact(tree, AuditFinding(Head(call.todo), rule, sev, mw))
  <1> DEFINE h == Head(call.todo)
             file == call.src
             r == AuditFinding(h, rule, sev, mw)
  <1>1. r.handler = h.decl.name /\ r.mw = mw
    BY DEF AuditFinding
  <1>5. CoverPlace(tree, call) /\ call.pc \in CallInFile /\ call.todo # <<>>
    OBVIOUS
  <1>6. \E i \in DOMAIN tree.dirs[1].files : \E k \in DOMAIN PaymentHandlers(tree.dirs[1].files[i]) :
           call.src = tree.dirs[1].files[i] /\ Head(call.todo) = PaymentHandlers(tree.dirs[1].files[i])[k]
    BY ONLY <1>5, HandlerInHand
  <1>2. PICK i \in DOMAIN tree.dirs[1].files : \E k \in DOMAIN PaymentHandlers(tree.dirs[1].files[i]) :
           file = tree.dirs[1].files[i] /\ h = PaymentHandlers(tree.dirs[1].files[i])[k]
    BY <1>6
  <1>3. ~LogsItself(h, file) /\ ~HasLoggingMiddleware(file) => (mw <=> HandlerUnderLogger(tree, h.decl.name))
    OBVIOUS
  <1> HIDE DEF r, h, file
  <1>4. FindingExact(tree, r)
    BY <1>1, <1>2, <1>3 DEF FindingExact
  <1> QED BY <1>4 DEF r, h

\* A finding is reported.
LEMMA CoverReport ==
    ASSUME NEW tree, NEW call, CallCovers(tree, call), call.pc \in CallInFile, call.todo # <<>>,
           call.held = {}, NEW f, FindingExact(tree, f)
    PROVE  CallCovers(tree, Report(call, f))
  <1> DEFINE new == Report(call, f)
  <1>1. /\ DOMAIN call = AuditCallFields /\ IsList(call.findings) /\ call.file \in Nat \ {0}
        /\ \A k \in DOMAIN call.findings : FindingExact(tree, call.findings[k])
    BY DEF CallCovers
  <1>2. PICK i \in DOMAIN tree.dirs[1].files :
           /\ call.src = tree.dirs[1].files[i] /\ IsList(call.todo)
           /\ \A k \in DOMAIN call.todo : HandlerOf(tree, i, call.todo[k])
    BY DEF CallCovers, CoverPlace
  <1>3. /\ DOMAIN new = AuditCallFields /\ new.pc = "handler" /\ new.src = call.src
        /\ new.todo = Tail(call.todo) /\ new.findings = Append(call.findings, f) /\ new.held = {}
        /\ new.file = call.file
    BY <1>1 DEF Report, AuditCallFields
  <1> HIDE DEF new
  <1> DEFINE fs == call.findings
             hs == call.todo
  <1>4. IsList(fs) /\ (\A k \in DOMAIN fs : FindingExact(tree, fs[k])) /\ IsList(hs) /\ hs # <<>>
        /\ \A k \in DOMAIN hs : HandlerOf(tree, i, hs[k])
    BY <1>1, <1>2
  <1>5. new.todo = Tail(hs) /\ new.findings = Append(fs, f)
    BY <1>3
  <1> HIDE DEF fs, hs
  <1>6. /\ IsList(Append(fs, f))
        /\ \A k \in DOMAIN Append(fs, f) : Append(fs, f)[k] = f \/ (k \in DOMAIN fs /\ Append(fs, f)[k] = fs[k])
    BY <1>4, AppendTo
  <1>7. IsList(new.findings) /\ \A k \in DOMAIN new.findings : FindingExact(tree, new.findings[k])
    BY <1>4, <1>5, <1>6
  <1>8. IsList(Tail(hs)) /\ \A k \in DOMAIN Tail(hs) : k + 1 \in DOMAIN hs /\ Tail(hs)[k] = hs[k + 1]
    BY <1>4, TailOf
  <1>9. IsList(new.todo) /\ \A k \in DOMAIN new.todo : HandlerOf(tree, i, new.todo[k])
    BY <1>4, <1>5, <1>8
  <1>10. CoverPlace(tree, new)
    BY <1>2, <1>3, <1>9 DEF CoverPlace
  <1>11. CoverKnows(tree, new)
    BY <1>3 DEF CoverKnows
  <1>12. CallCovers(tree, new)
    BY <1>1, <1>3, <1>7, <1>10, <1>11 DEF CallCovers
  <1> QED BY <1>12 DEF new

\* A step within a handler that does not log.
LEMMA CoverWithin ==
    ASSUME NEW tree, NEW call, NEW new, CallCovers(tree, call), SameFile(call, new),
           new.pc \in {"cover", "source", "score"},
           call.todo # <<>>, ~LogsItself(Head(call.todo), call.src),
           new.pc \in {"cover", "source"} =>
              new.dir \in 1..LastDir(tree) /\ new.held \subseteq CtxsOf(tree, new.dir),
           CoverKnows(tree, new)
    PROVE  CallCovers(tree, new)
  <1>1. /\ IsList(call.findings) /\ \A k \in DOMAIN call.findings : FindingExact(tree, call.findings[k])
        /\ CoverPlace(tree, call) /\ call.file \in Nat \ {0}
    BY DEF CallCovers
  <1>2. /\ DOMAIN new = AuditCallFields /\ call.pc \in CallInFile /\ new.src = call.src
        /\ new.file = call.file
        /\ new.todo = call.todo /\ new.findings = call.findings
    BY DEF SameFile
  <1>3. new.pc \notin {"idle", "file", "handler"}
    OBVIOUS
  <1>4. CoverPlace(tree, new)
    BY <1>1, <1>2, <1>3 DEF CoverPlace
  <1> QED BY <1>1, <1>2, <1>4 DEF CallCovers

\* Middleware has been found.
LEMMA CoverCovered ==
    ASSUME NEW tree, AuditParsed(tree), NEW call, CallCovers(tree, call), call.pc \in CallInFile,
           call.todo # <<>>, ~LogsItself(Head(call.todo), call.src), call.held = {},
           HasLoggingMiddleware(call.src) \/ HandlerUnderLogger(tree, Head(call.todo).decl.name)
    PROVE  CallCovers(tree, Covered(call))
  <1> DEFINE new == Covered(call)
             src == SourceInFile(call.src)
  <1>1. DOMAIN call = AuditCallFields
    BY DEF CallCovers
  <1>2. /\ DOMAIN new = AuditCallFields /\ new.file = call.file /\ new.src = call.src
        /\ new.todo = call.todo /\ new.findings = call.findings /\ new.held = {}
        /\ \/ new.pc = "score"
           \/ new.pc = "source" /\ new.dir = 1
    BY <1>1 DEF Covered, AuditCallFields
  <1> HIDE DEF new
  <1>3. SameFile(call, new)
    BY <1>2 DEF SameFile, CallInFile
  <1>4. 1 \in 1..LastDir(tree)
    BY LastDirNat
  <1>5. new.pc \in {"cover", "source"} =>
           new.dir \in 1..LastDir(tree) /\ new.held \subseteq CtxsOf(tree, new.dir)
    BY <1>2, <1>4
  <1>6. CoverKnows(tree, new)
    BY <1>2 DEF CoverKnows
  <1>7. new.pc \in {"cover", "source", "score"}
    BY <1>2
  <1>8. CallCovers(tree, new)
    BY <1>3, <1>5, <1>6, <1>7, CoverWithin
  <1> QED BY <1>8 DEF new

\* The context of a directory is judged.
LEMMA CoverJudge ==
    ASSUME NEW tree, AuditParsed(tree), tree = AuditNow, CtxsExact(tree), NEW call, CallCovers(tree, call),
           call.pc \in {"cover", "source"}, NEW ctx \in CtxsOf(tree, call.dir)
    PROVE  CallCovers(tree, Judge(call, ctx))
  <1> DEFINE h == Head(call.todo)
             name == h.decl.name
             d == call.dir
             src == SourceAt(tree, ctx, d, name)
             up == [call EXCEPT !.dir = @ + 1, !.held = {}]
             stay == [call EXCEPT !.held = {}]
  <1>1. /\ DOMAIN call = AuditCallFields /\ CoverPlace(tree, call) /\ CoverKnows(tree, call)
    BY DEF CallCovers
  <1>2. call.todo # <<>> /\ ~LogsItself(h, call.src) /\ d \in 1..LastDir(tree) /\ call.pc \in CallInFile
    BY <1>1 DEF CoverPlace, CallInFile
  <1>3. LastDir(tree) \in Nat \ {0}
    BY LastDirNat
  <1>4. CoveredAt(ctx, d, name) <=> RoutedUnderLogger(tree, d, name)
    BY <1>2 DEF CtxsExact
  <1>5. /\ DOMAIN stay = AuditCallFields /\ stay.pc = call.pc /\ stay.file = call.file /\ stay.src = call.src
        /\ stay.todo = call.todo /\ stay.findings = call.findings /\ stay.held = {} /\ stay.dir = call.dir
    BY <1>1 DEF AuditCallFields
  <1>6. SameFile(call, stay)
    BY <1>2, <1>5 DEF SameFile
  <1>7. CallCovers(tree, stay)
    <2> HIDE DEF stay
    <2>1. CoverKnows(tree, stay)
      BY <1>1, <1>5 DEF CoverKnows
    <2>2. stay.dir \in 1..LastDir(tree) /\ stay.held \subseteq CtxsOf(tree, stay.dir)
      BY <1>2, <1>5
    <2>3. stay.pc \in {"cover", "source", "score"}
      BY <1>5
    <2> QED BY <1>2, <1>6, <2>1, <2>2, <2>3, CoverWithin
  <1>8. CoverPlace(tree, stay)
    BY <1>7 DEF CallCovers
  <1>9. ASSUME Judge(call, ctx) = up, d < LastDir(tree),
               call.pc = "source" \/ ~RoutedUnderLogger(tree, d, name)
        PROVE  CallCovers(tree, up)
    <2>1. /\ DOMAIN up = AuditCallFields /\ up.pc = call.pc /\ up.file = call.file /\ up.src = call.src
          /\ up.todo = call.todo /\ up.findings = call.findings /\ up.held = {} /\ up.dir = d + 1
      BY <1>1 DEF AuditCallFields
    <2> HIDE DEF up
    <2>2. SameFile(call, up)
      BY <1>2, <2>1 DEF SameFile
    <2>3. up.dir \in 1..LastDir(tree)
      BY <1>2, <1>3, <1>9, <2>1
    <2>4. 1..(up.dir - 1) = (1..(d - 1)) \cup {d}
      BY <1>2, <2>1
    <2>5. CoverKnows(tree, up)
      <3>1. CASE call.pc = "cover"
        <4>1. ~HasLoggingMiddleware(call.src) /\ \A e \in 1..(d - 1) : ~RoutedUnderLogger(tree, e, name)
          BY <1>1, <3>1 DEF CoverKnows
        <4>2. \A e \in 1..(up.dir - 1) : ~RoutedUnderLogger(tree, e, name)
          BY <1>9, <2>4, <3>1, <4>1
        <4> QED BY <2>1, <3>1, <4>1, <4>2 DEF CoverKnows
      <3>2. CASE call.pc = "source"
        BY <1>1, <2>1, <3>2 DEF CoverKnows
      <3> QED BY <3>1, <3>2
    <2>6. up.pc \in {"cover", "source", "score"} /\ up.held \subseteq CtxsOf(tree, up.dir)
      BY <2>1
    <2> QED BY <1>2, <2>2, <2>3, <2>5, <2>6, CoverWithin
  <1>10. CASE call.pc = "cover" /\ CoveredAt(ctx, d, name)
    <2>1. Judge(call, ctx) = Covered(stay)
      BY <1>10 DEF Judge
    <2>2. HandlerUnderLogger(tree, name)
      BY <1>2, <1>4, <1>10 DEF HandlerUnderLogger
    <2> HIDE DEF stay
    <2>3. CallCovers(tree, Covered(stay))
      BY <1>2, <1>5, <1>7, <2>2, CoverCovered
    <2> QED BY <2>1, <2>3
  <1>11. CASE call.pc = "cover" /\ ~CoveredAt(ctx, d, name) /\ d < LastDir(tree)
    <2>1. Judge(call, ctx) = up
      BY <1>11 DEF Judge
    <2> QED BY <1>4, <1>9, <1>11, <2>1
  <1>12. CASE call.pc = "cover" /\ ~CoveredAt(ctx, d, name) /\ ~(d < LastDir(tree))
    <2> DEFINE f == Unlogged(h, call.src)
               rule == IF HasUnstructuredLogging(h.decl.body, call.src)
                       THEN "AUDIT-UNSTRUCTURED" ELSE "AUDIT-NO-LOG"
               sev == <<"CRITICAL", "HIGH", "MEDIUM">>[h.tier]
    <2>1. Judge(call, ctx) = Report(stay, f)
      BY <1>12 DEF Judge
    <2>2. 1..LastDir(tree) = (1..(d - 1)) \cup {d}
      BY <1>2, <1>3, <1>12
    <2>3. \A e \in 1..(d - 1) : ~RoutedUnderLogger(tree, e, name)
      BY <1>1, <1>12 DEF CoverKnows
    <2>4. ~HandlerUnderLogger(tree, name)
      BY <1>4, <1>12, <2>2, <2>3 DEF HandlerUnderLogger
    <2>5. f = AuditFinding(h, rule, sev, FALSE)
      BY DEF Unlogged
    <2> HIDE DEF rule, sev, f
    <2>6. FindingExact(tree, AuditFinding(Head(call.todo), rule, sev, FALSE))
      BY <1>1, <1>2, <2>4, FindingInHand
    <2>7. FindingExact(tree, f)
      BY <2>5, <2>6
    <2> HIDE DEF stay
    <2>8. CallCovers(tree, Report(stay, f))
      BY <1>2, <1>5, <1>7, <2>7, CoverReport
    <2> QED BY <2>1, <2>8
  <1>13. CASE call.pc = "source" /\ src # NoSource
    <2> DEFINE new == [stay EXCEPT !.pc = "score", !.source = src]
    <2>1. Judge(call, ctx) = new
      BY <1>13 DEF Judge
    <2> HIDE DEF stay, src
    <2>2. /\ DOMAIN new = AuditCallFields /\ new.pc = "score" /\ new.file = call.file /\ new.src = call.src
          /\ new.todo = call.todo /\ new.findings = call.findings /\ new.held = {}
      BY <1>5 DEF AuditCallFields
    <2> HIDE DEF new
    <2>3. SameFile(call, new)
      BY <1>2, <2>2 DEF SameFile, CallInFile
    <2>4. CoverKnows(tree, new)
      BY <1>1, <1>13, <2>2 DEF CoverKnows
    <2>5. CallCovers(tree, new)
      BY <1>2, <2>2, <2>3, <2>4, CoverWithin
    <2> QED BY <2>1, <2>5
  <1>14. CASE call.pc = "source" /\ src = NoSource /\ d < LastDir(tree)
    <2>1. Judge(call, ctx) = up
      BY <1>14 DEF Judge
    <2> QED BY <1>9, <1>14, <2>1
  <1>15. CASE call.pc = "source" /\ src = NoSource /\ ~(d < LastDir(tree))
    <2> DEFINE f == AuditFinding(h, "AUDIT-LOG-OK", "INFO", TRUE)
    <2>1. Judge(call, ctx) = Report(stay, f)
      BY <1>15 DEF Judge
    <2>2. HasLoggingMiddleware(call.src) \/ HandlerUnderLogger(tree, name)
      BY <1>1, <1>15 DEF CoverKnows
    <2>3. FindingExact(tree, f)
      BY <1>1, <1>2, <2>2, FindingInHand
    <2> HIDE DEF stay, f
    <2>4. CallCovers(tree, Report(stay, f))
      BY <1>2, <1>5, <1>7, <2>3, CoverReport
    <2> QED BY <2>1, <2>4
  <1> QED BY <1>10, <1>11, <1>12, <1>13, <1>14, <1>15

\* The fields of the middleware are scored.
LEMMA CoverScored ==
    ASSUME NEW tree, NEW call, CallCovers(tree, call), call.pc = "score", NEW fields
    PROVE  CallCovers(tree, Scored(call, fields))
  <1> DEFINE stay == [call EXCEPT !.held = {}]
             sev == FieldSeverity(AuditNow, call.source, fields)
             f == AuditFinding(Head(call.todo), "AUDIT-LOG-OK", sev, TRUE)
  <1>1. DOMAIN call = AuditCallFields /\ CoverPlace(tree, call) /\ CoverKnows(tree, call)
    BY DEF CallCovers
  <1>2. call.todo # <<>> /\ ~LogsItself(Head(call.todo), call.src) /\ call.pc \in CallInFile
    BY <1>1 DEF CoverPlace, CallInFile
  <1>3. Scored(call, fields) = Report(stay, f)
    BY DEF Scored
  <1>4. /\ DOMAIN stay = AuditCallFields /\ stay.pc = call.pc /\ stay.file = call.file /\ stay.src = call.src
        /\ stay.todo = call.todo /\ stay.findings = call.findings /\ stay.held = {}
    BY <1>1 DEF AuditCallFields
  <1> HIDE DEF stay
  <1>5. SameFile(call, stay) /\ stay.pc = "score"
    BY <1>2, <1>4 DEF SameFile
  <1>6. CoverKnows(tree, stay)
    BY <1>1, <1>4 DEF CoverKnows
  <1>7. CallCovers(tree, stay)
    BY <1>2, <1>5, <1>6, CoverWithin
  <1>8. HasLoggingMiddleware(call.src) \/ HandlerUnderLogger(tree, Head(call.todo).decl.name)
    BY <1>1 DEF CoverKnows
  <1> HIDE DEF sev
  <1>9. FindingExact(tree, f)
    BY <1>1, <1>2, <1>8, FindingInHand
  <1> HIDE DEF f
  <1>10. CallCovers(tree, Report(stay, f))
    BY <1>2, <1>4, <1>7, <1>9, CoverReport
  <1> QED BY <1>3, <1>10

\* The next handler, or none.
LEMMA CoverHandler ==
    ASSUME NEW tree, AuditParsed(tree), NEW call, CallCovers(tree, call), call.pc = "handler"
    PROVE  CallCovers(tree,
              IF call.todo = <<>> THEN [call EXCEPT !.pc = "file", !.file = @ + 1]
              ELSE IF LogsItself(Head(call.todo), call.src)
              THEN Report(call, AuditFinding(Head(call.todo), "AUDIT-LOG-OK", "INFO", FALSE))
              ELSE IF HasLoggingMiddleware(call.src) THEN Covered(call)
              ELSE [call EXCEPT !.pc = "cover", !.dir = 1])
  <1>1. /\ DOMAIN call = AuditCallFields /\ CoverPlace(tree, call) /\ IsList(call.findings)
        /\ call.file \in Nat \ {0}
        /\ \A k \in DOMAIN call.findings : FindingExact(tree, call.findings[k])
    BY DEF CallCovers
  <1>2. call.held = {} /\ call.pc \in CallInFile
    BY <1>1 DEF CoverPlace, CallInFile
  <1>3. CASE call.todo = <<>>
    <2> DEFINE new == [call EXCEPT !.pc = "file", !.file = @ + 1]
    <2>1. /\ DOMAIN new = AuditCallFields /\ new.pc = "file" /\ new.findings = call.findings /\ new.held = {}
          /\ new.file \in Nat \ {0}
      BY <1>1, <1>2 DEF AuditCallFields
    <2> HIDE DEF new
    <2>2. CoverPlace(tree, new) /\ CoverKnows(tree, new)
      BY <2>1 DEF CoverPlace, CoverKnows, CallInFile
    <2>3. CallCovers(tree, new)
      BY <1>1, <2>1, <2>2 DEF CallCovers
    <2> QED BY <1>3, <2>3 DEF new
  <1>4. CASE call.todo # <<>> /\ LogsItself(Head(call.todo), call.src)
    <2> DEFINE f == AuditFinding(Head(call.todo), "AUDIT-LOG-OK", "INFO", FALSE)
    <2>1. FindingExact(tree, f)
      BY <1>1, <1>2, <1>4, FindingInHand
    <2> HIDE DEF f
    <2>2. CallCovers(tree, Report(call, f))
      BY <1>2, <1>4, <2>1, CoverReport
    <2> QED BY <1>4, <2>2 DEF f
  <1>5. CASE call.todo # <<>> /\ ~LogsItself(Head(call.todo), call.src) /\ HasLoggingMiddleware(call.src)
    <2>1. CallCovers(tree, Covered(call))
      BY <1>2, <1>5, CoverCovered
    <2> QED BY <1>5, <2>1
  <1>6. CASE call.todo # <<>> /\ ~LogsItself(Head(call.todo), call.src) /\ ~HasLoggingMiddleware(call.src)
    <2> DEFINE new == [call EXCEPT !.pc = "cover", !.dir = 1]
    <2>1. /\ DOMAIN new = AuditCallFields /\ new.pc = "cover" /\ new.file = call.file /\ new.src = call.src
          /\ new.todo = call.todo /\ new.findings = call.findings /\ new.held = {} /\ new.dir = 1
      BY <1>1, <1>2 DEF AuditCallFields
    <2> HIDE DEF new
    <2>2. SameFile(call, new)
      BY <1>2, <2>1 DEF SameFile, CallInFile
    <2>3. 1 \in 1..LastDir(tree) /\ 1..(new.dir - 1) = {}
      BY <2>1, LastDirNat
    <2>4. CoverKnows(tree, new)
      BY <1>6, <2>1, <2>3 DEF CoverKnows
    <2>5. new.dir \in 1..LastDir(tree) /\ new.held \subseteq CtxsOf(tree, new.dir)
      BY <2>1, <2>3
    <2>6. CallCovers(tree, new)
      BY <1>6, <2>1, <2>2, <2>4, <2>5, CoverWithin
    <2> QED BY <1>6, <2>6 DEF new
  <1> QED BY <1>3, <1>4, <1>5, <1>6

------------------------------------------------------------------------------
(* Every step of every scan.                                               *)

\* A scan of a tidy project: its sources are never edited.
CoverScan ==
    /\ scanner = "audit" /\ project \in AuditSources /\ CoverTidy(project)
    /\ AuditSound(project, work) /\ AuditCoverInv

\* What the steps start from.
LEMMA CoverCall ==
    ASSUME CoverScan, NEW c \in DOMAIN work.calls
    PROVE  /\ work.now = 1 /\ AuditNow = project.history[1] /\ Len(project.history) = 1
           /\ AuditParsed(project.history[1]) /\ CtxsExact(project.history[1])
           /\ DOMAIN work = AuditWorkFields
           /\ ContextsFresh(project.history[1], work.pkgCache)
           /\ CallCovers(project.history[1], work.calls[c])
  <1>1. /\ DOMAIN work = AuditWorkFields /\ work.now \in Nat /\ 1 <= work.now
        /\ work.now <= Len(project.history) /\ Len(project.history) = 1
    BY DEF CoverScan, AuditSound, CoverTidy
  <1>2. work.now = 1 /\ AuditNow = project.history[1]
    BY <1>1 DEF AuditNow
  <1> DEFINE p == project
  <1>3. p \in AuditSources /\ CoverTidy(p)
    BY DEF CoverScan
  <1>4. AuditParsed(AuditNow)
    BY WorkingCall DEF CoverScan
  <1> HIDE DEF p
  <1>5. CtxsExact(p.history[1])
    BY <1>3, TidyCtxsExact
  <1>6. CtxsExact(project.history[1])
    BY <1>5 DEF p
  <1> QED BY <1>1, <1>2, <1>4, <1>6 DEF CoverScan, AuditCoverInv

\* A step of one call that caches nothing, or a context of the sources.
LEMMA CoverStep ==
    ASSUME CoverScan, NEW c \in DOMAIN work.calls, OneCall(work, work', c), project' = project,
           ContextsFresh(project.history[1], work'.pkgCache),
           CallCovers(project.history[1], work'.calls[c])
    PROVE  AuditCoverInv'
  <1> DEFINE tree == project.history[1]
             w == work
             v == work'
  <1>1. \A d \in DOMAIN w.calls : CallCovers(tree, w.calls[d])
    BY DEF CoverScan, AuditCoverInv
  <1>2. DOMAIN v.calls = DOMAIN w.calls /\ \A d \in DOMAIN w.calls : d # c => v.calls[d] = w.calls[d]
    BY DEF OneCall
  <1>3. CallCovers(tree, v.calls[c]) /\ ContextsFresh(tree, v.pkgCache)
    OBVIOUS
  <1>4. project'.history[1] = tree
    OBVIOUS
  <1> HIDE DEF tree, w, v
  <1>5. \A d \in DOMAIN v.calls : CallCovers(tree, v.calls[d])
    BY <1>1, <1>2, <1>3
  <1> QED BY <1>3, <1>4, <1>5 DEF AuditCoverInv, v

\* A step that leaves the caches alone.
LEMMA CoverCallStep ==
    ASSUME CoverScan, NEW c \in DOMAIN work.calls, NEW new, CallStep(c, new),
           CallCovers(project.history[1], new)
    PROVE  AuditCoverInv'
  <1>1. DOMAIN work = AuditWorkFields /\ ContextsFresh(project.history[1], work.pkgCache)
    BY CoverCall
  <1>2. OneCall(work, work', c) /\ work'.calls[c] = new /\ project' = project /\ work'.pkgCache = work.pkgCache
    BY <1>1, CallStepWork
  <1>3. ContextsFresh(project.history[1], work'.pkgCache) /\ CallCovers(project.history[1], work'.calls[c])
    BY <1>1, <1>2
  <1> QED BY <1>2, <1>3, CoverStep

\* A scan begins, and empties the caches of the others.
LEMMA CoverStart ==
    ASSUME CoverScan, NEW c \in DOMAIN work.calls, AuditStart(c)
    PROVE  AuditCoverInv'
  <1> DEFINE tree == project.history[1]
             w == work
             v == work'
             new == [IdleCall EXCEPT !.pc = "file", !.from = w.now,
                                     !.alone = \A e \in DOMAIN work.calls : ~Active(e)]
  <1>1. DOMAIN w = AuditWorkFields
    BY CoverCall
  <1>2. /\ project' = project
        /\ v = [w EXCEPT !.pkgCache = <<>>, !.fieldCache = <<>>,
                  !.calls = [d \in DOMAIN @ |->
                     IF d = c THEN new ELSE IF Active(d) THEN [@[d] EXCEPT !.alone = FALSE] ELSE @[d]]]
    BY DEF AuditStart, AuditStep, Pass
  <1>3. /\ v.pkgCache = <<>>
        /\ v.calls = [d \in DOMAIN w.calls |->
              IF d = c THEN new ELSE IF Active(d) THEN [w.calls[d] EXCEPT !.alone = FALSE] ELSE w.calls[d]]
    BY <1>1, <1>2 DEF AuditWorkFields
  <1>4. /\ DOMAIN new = AuditCallFields /\ new.pc = "file" /\ new.file = 1
        /\ new.findings = <<>> /\ new.held = {}
    BY DEF IdleCall, AuditCallFields
  <1> HIDE DEF new
  <1>5. CallCovers(tree, new)
    <2> DEFINE fs == new.findings
    <2>1. IsList(fs) /\ DOMAIN fs = {}
      BY <1>4, ShortLists
    <2>2. CoverPlace(tree, new) /\ CoverKnows(tree, new)
      BY <1>4 DEF CoverPlace, CoverKnows, CallInFile
    <2> QED BY <1>4, <2>1, <2>2 DEF CallCovers
  <1>6. ASSUME NEW d \in DOMAIN w.calls PROVE CallCovers(tree, v.calls[d])
    <2> DEFINE one == w.calls[d]
               two == [one EXCEPT !.alone = FALSE]
    <2>1. CallCovers(tree, one)
      BY DEF CoverScan, AuditCoverInv
    <2>2. DOMAIN one = AuditCallFields
      BY <2>1 DEF CallCovers
    <2>3. /\ DOMAIN two = AuditCallFields /\ two.pc = one.pc /\ two.src = one.src /\ two.todo = one.todo
          /\ two.findings = one.findings /\ two.held = one.held /\ two.dir = one.dir
          /\ two.file = one.file
      BY <2>2 DEF AuditCallFields
    <2>4. v.calls[d] \in {new, two, one}
      BY <1>3
    <2> HIDE DEF one, two, tree
    <2>5. CoverPlace(tree, two)
      BY <2>1, <2>3 DEF CallCovers, CoverPlace
    <2>6. CoverKnows(tree, two)
      BY <2>1, <2>3 DEF CallCovers, CoverKnows
    <2>7. CallCovers(tree, two)
      BY <2>1, <2>3, <2>5, <2>6 DEF CallCovers
    <2> QED BY <1>5, <2>1, <2>4, <2>7 DEF tree
  <1>7. ContextsFresh(tree, v.pkgCache)
    <2>1. DOMAIN v.pkgCache = {}
      BY <1>3
    <2> QED BY <2>1 DEF ContextsFresh
  <1>8. DOMAIN v.calls = DOMAIN w.calls
    BY <1>3
  <1> QED BY <1>2, <1>6, <1>7, <1>8 DEF AuditCoverInv

\* A file is opened, or there is none.
LEMMA CoverOpenFile ==
    ASSUME CoverScan, NEW c \in DOMAIN work.calls, AuditOpenFile(c)
    PROVE  AuditCoverInv'
  <1> DEFINE call == work.calls[c]
             tree == project.history[1]
             files == tree.dirs[1].files
             file == files[call.file]
             opened == [call EXCEPT !.pc = "handler", !.src = file, !.todo = PaymentHandlers(file)]
             failed == [call EXCEPT !.pc = "failed", !.findings = <<>>]
             ended == [call EXCEPT !.pc = "done"]
  <1>1. AuditNow = tree /\ AuditParsed(tree) /\ CallCovers(tree, call)
    BY CoverCall
  <1>2. call.pc = "file"
    BY DEF AuditOpenFile
  <1>3. \/ call.file <= Len(files) /\ CallStep(c, opened)
        \/ CallStep(c, failed)
        \/ CallStep(c, ended)
    <2>1. \/ call.file <= Len(files) /\ CallStep(c, IF file.parses THEN opened ELSE failed)
          \/ CallStep(c, ended)
      BY <1>1 DEF AuditOpenFile, AuditDir
    <2> HIDE DEF opened, failed, ended
    <2> QED BY <2>1
  <1>4. /\ DOMAIN call = AuditCallFields /\ IsList(call.findings) /\ call.held = {} /\ call.file \in Nat \ {0}
        /\ \A k \in DOMAIN call.findings : FindingExact(tree, call.findings[k])
    BY <1>1, <1>2 DEF CallCovers, CoverPlace
  <1>5. CASE call.file <= Len(files) /\ CallStep(c, opened)
    <2>1. IsList(files) /\ \A i \in DOMAIN files : IsList(files[i].decls)
      BY <1>1 DEF AuditParsed
    <2>2. DOMAIN files = 1..Len(files) /\ Len(files) \in Nat
      BY <2>1, ListFacts
    <2>3. call.file \in DOMAIN files
      <3>1. call.file \in Nat /\ 1 <= call.file
        BY <1>4
      <3>2. call.file <= Len(files)
        BY <1>5
      <3> HIDE DEF call, files
      <3> QED BY <2>2, <3>1, <3>2
    <2>4. IsList(PaymentHandlers(file))
      BY <2>1, <2>3, HandlersListed
    <2>5. /\ DOMAIN opened = AuditCallFields /\ opened.pc = "handler" /\ opened.src = file
          /\ opened.todo = PaymentHandlers(file) /\ opened.findings = call.findings
          /\ opened.held = {} /\ opened.file = call.file
      BY <1>4 DEF AuditCallFields
    <2> DEFINE i == call.file
               hs == PaymentHandlers(file)
    <2>6. \A k \in DOMAIN hs : HandlerOf(tree, i, hs[k])
      BY DEF HandlerOf, Range
    <2> HIDE DEF opened
    <2>7. CoverPlace(tree, opened)
      BY <2>3, <2>4, <2>5, <2>6 DEF CoverPlace
    <2>8. CoverKnows(tree, opened)
      BY <2>5 DEF CoverKnows
    <2>9. CallCovers(tree, opened)
      BY <1>4, <2>5, <2>7, <2>8 DEF CallCovers
    <2> QED BY <1>5, <2>9, CoverCallStep
  <1>6. CASE CallStep(c, failed)
    <2>1. /\ DOMAIN failed = AuditCallFields /\ failed.pc = "failed" /\ failed.findings = <<>>
          /\ failed.file = call.file
      BY <1>4 DEF AuditCallFields
    <2> HIDE DEF failed
    <2> DEFINE fs == failed.findings
    <2>2. IsList(fs) /\ DOMAIN fs = {}
      BY <2>1, ShortLists
    <2>3. CoverPlace(tree, failed) /\ CoverKnows(tree, failed)
      BY <2>1 DEF CoverPlace, CoverKnows, CallInFile
    <2>4. CallCovers(tree, failed)
      BY <1>4, <2>1, <2>2, <2>3 DEF CallCovers
    <2> QED BY <1>6, <2>4, CoverCallStep
  <1>7. CASE CallStep(c, ended)
    <2>1. /\ DOMAIN ended = AuditCallFields /\ ended.pc = "done" /\ ended.findings = call.findings
          /\ ended.file = call.file
      BY <1>4 DEF AuditCallFields
    <2> HIDE DEF ended
    <2>2. CoverPlace(tree, ended) /\ CoverKnows(tree, ended)
      BY <2>1 DEF CoverPlace, CoverKnows, CallInFile
    <2>3. CallCovers(tree, ended)
      BY <1>4, <2>1, <2>2 DEF CallCovers
    <2> QED BY <1>7, <2>3, CoverCallStep
  <1> QED BY <1>3, <1>5, <1>6, <1>7

\* A handler is looked at.
LEMMA CoverHandlerStep ==
    ASSUME CoverScan, NEW c \in DOMAIN work.calls, AuditHandler(c)
    PROVE  AuditCoverInv'
  <1> DEFINE call == work.calls[c]
             tree == project.history[1]
             h == Head(call.todo)
             new == IF call.todo = <<>> THEN [call EXCEPT !.pc = "file", !.file = @ + 1]
                    ELSE IF LogsItself(h, call.src)
                    THEN Report(call, AuditFinding(h, "AUDIT-LOG-OK", "INFO", FALSE))
                    ELSE IF HasLoggingMiddleware(call.src) THEN Covered(call)
                    ELSE [call EXCEPT !.pc = "cover", !.dir = 1]
  <1>1. AuditParsed(tree) /\ CallCovers(tree, call)
    BY CoverCall
  <1>2. call.pc = "handler" /\ CallStep(c, new)
    BY DEF AuditHandler
  <1>3. CallCovers(tree, new)
    BY <1>1, <1>2, CoverHandler
  <1> HIDE DEF new
  <1> QED BY <1>2, <1>3, CoverCallStep

\* A context is looked up.
LEMMA CoverLookup ==
    ASSUME CoverScan, NEW c \in DOMAIN work.calls, AuditLookup(c)
    PROVE  AuditCoverInv'
  <1> DEFINE call == work.calls[c]
             tree == project.history[1]
             pkgs == work.pkgCache
  <1>1. /\ AuditNow = tree /\ AuditParsed(tree) /\ CtxsExact(tree)
        /\ ContextsFresh(tree, pkgs) /\ CallCovers(tree, call)
    BY CoverCall
  <1>2. call.pc \in {"cover", "source"}
    BY DEF AuditLookup
  <1>3. CASE call.dir \in DOMAIN pkgs
    <2> DEFINE ctx == pkgs[call.dir]
               new == Judge(call, ctx)
    <2>1. CallStep(c, new)
      BY <1>3 DEF AuditLookup
    <2>2. ctx \in CtxsOf(tree, call.dir)
      BY <1>1, <1>3 DEF ContextsFresh
    <2>3. CallCovers(tree, new)
      <3> HIDE DEF ctx, call, tree
      <3>1. tree = AuditNow
        BY <1>1
      <3> QED BY <1>1, <1>2, <2>2, <3>1, CoverJudge
    <2> HIDE DEF new
    <2> QED BY <2>1, <2>3, CoverCallStep
  <1>4. CASE call.dir \notin DOMAIN pkgs
    <2>1. PICK o \in MethodOrders(AuditNow.dirs[call.dir]) :
             CallStep(c, [call EXCEPT !.held = {BuildPackageMiddlewareCtx(AuditNow, AuditNow.dirs[call.dir], o)}])
      BY <1>4 DEF AuditLookup
    <2> DEFINE x == BuildPackageMiddlewareCtx(AuditNow, AuditNow.dirs[call.dir], o)
               new == [call EXCEPT !.held = {x}]
    <2>2. x \in CtxsOf(tree, call.dir)
      BY <1>1, <2>1 DEF CtxsOf
    <2>3. CallStep(c, new)
      BY <2>1
    <2> HIDE DEF x
    <2>4. /\ DOMAIN call = AuditCallFields /\ CoverPlace(tree, call) /\ CoverKnows(tree, call)
      BY <1>1 DEF CallCovers
    <2>5. /\ DOMAIN new = AuditCallFields /\ new.pc = call.pc /\ new.file = call.file /\ new.src = call.src
          /\ new.todo = call.todo /\ new.findings = call.findings /\ new.held = {x} /\ new.dir = call.dir
      BY <2>4 DEF AuditCallFields
    <2> HIDE DEF new
    <2>6. SameFile(call, new)
      BY <1>2, <2>5 DEF SameFile, CallInFile
    <2>7. /\ call.todo # <<>> /\ ~LogsItself(Head(call.todo), call.src)
          /\ new.dir \in 1..LastDir(tree) /\ new.held \subseteq CtxsOf(tree, new.dir)
      BY <1>2, <2>2, <2>4, <2>5 DEF CoverPlace
    <2>8. CoverKnows(tree, new)
      BY <2>4, <2>5 DEF CoverKnows
    <2>9. new.pc \in {"cover", "source", "score"}
      BY <1>2, <2>5
    <2>10. CallCovers(tree, new)
      <3> HIDE DEF call, tree
      <3> QED BY <1>1, <2>6, <2>7, <2>8, <2>9, CoverWithin
    <2> QED BY <2>3, <2>10, CoverCallStep
  <1> QED BY <1>3, <1>4

\* A context is stored.
LEMMA CoverStore ==
    ASSUME CoverScan, NEW c \in DOMAIN work.calls, AuditStore(c)
    PROVE  AuditCoverInv'
  <1> DEFINE call == work.calls[c]
             tree == project.history[1]
             w == work
             v == work'
  <1>1. /\ AuditNow = tree /\ AuditParsed(tree) /\ CtxsExact(tree) /\ DOMAIN w = AuditWorkFields
        /\ ContextsFresh(tree, w.pkgCache) /\ CallCovers(tree, call)
    BY CoverCall
  <1>2. call.pc \in {"cover", "source"}
    BY DEF AuditStore
  <1>3. PICK ctx \in call.held :
           /\ v = [w EXCEPT !.pkgCache = CacheWith(@, call.dir, ctx), !.calls[c] = Judge(call, ctx)]
           /\ project' = project
    BY DEF AuditStore, AuditStep, Pass
  <1> DEFINE pkgs == CacheWith(w.pkgCache, call.dir, ctx)
             new == Judge(call, ctx)
  <1>4. call.dir \in 1..LastDir(tree) /\ ctx \in CtxsOf(tree, call.dir)
    BY <1>1, <1>2 DEF CallCovers, CoverPlace
  <1>5. CallCovers(tree, new)
    <2> HIDE DEF call, tree
    <2>1. tree = AuditNow
      BY <1>1
    <2> QED BY <1>1, <1>2, <1>4, <2>1, CoverJudge
  <1>6. ContextsFresh(tree, pkgs)
    <2>1. /\ DOMAIN pkgs = {call.dir} \cup DOMAIN w.pkgCache /\ pkgs[call.dir] = ctx
          /\ \A d \in DOMAIN w.pkgCache : d # call.dir => pkgs[d] = w.pkgCache[d]
      BY DEF CacheWith
    <2> HIDE DEF pkgs
    <2> QED BY <1>1, <1>4, <2>1 DEF ContextsFresh
  <1> HIDE DEF pkgs, new
  <1>7. v = [w EXCEPT !.pkgCache = pkgs, !.calls[c] = new]
    BY <1>3 DEF pkgs, new
  <1>8. /\ DOMAIN v = AuditWorkFields /\ v.now = w.now /\ v.pkgCache = pkgs
        /\ v.calls = [w.calls EXCEPT ![c] = new]
    BY <1>1, <1>7 DEF AuditWorkFields
  <1>9. OneCall(w, v, c) /\ v.calls[c] = new
    BY <1>8 DEF OneCall
  <1> QED BY <1>3, <1>5, <1>6, <1>8, <1>9, CoverStep

\* The fields of the middleware are looked up.
LEMMA CoverScore ==
    ASSUME CoverScan, NEW c \in DOMAIN work.calls, AuditScore(c)
    PROVE  AuditCoverInv'
  <1> DEFINE call == work.calls[c]
             tree == project.history[1]
             key == call.source.fn
  <1>1. AuditNow = tree /\ CallCovers(tree, call)
    BY CoverCall
  <1>2. call.pc = "score"
    BY DEF AuditScore
  <1>3. CASE key \in DOMAIN work.fieldCache
    <2> DEFINE found == work.fieldCache[key]
               new == Scored(call, found)
    <2>1. CallStep(c, new)
      BY <1>3 DEF AuditScore
    <2> HIDE DEF found
    <2>2. CallCovers(tree, new)
      BY <1>1, <1>2, CoverScored
    <2> HIDE DEF new
    <2> QED BY <2>1, <2>2, CoverCallStep
  <1>4. CASE key \notin DOMAIN work.fieldCache
    <2> DEFINE x == ExtractLogFields(AuditNow, call.source)
               new == [call EXCEPT !.held = {x}]
    <2>1. CallStep(c, new)
      BY <1>4 DEF AuditScore
    <2> HIDE DEF x
    <2>2. /\ DOMAIN call = AuditCallFields /\ CoverPlace(tree, call) /\ CoverKnows(tree, call)
      BY <1>1 DEF CallCovers
    <2>3. /\ DOMAIN new = AuditCallFields /\ new.pc = call.pc /\ new.file = call.file /\ new.src = call.src
          /\ new.todo = call.todo /\ new.findings = call.findings
      BY <2>2 DEF AuditCallFields
    <2> HIDE DEF new
    <2>4. SameFile(call, new)
      BY <1>2, <2>3 DEF SameFile, CallInFile
    <2>5. call.todo # <<>> /\ ~LogsItself(Head(call.todo), call.src)
      BY <1>2, <2>2 DEF CoverPlace
    <2>6. CoverKnows(tree, new)
      BY <1>2, <2>2, <2>3 DEF CoverKnows
    <2>7. new.pc = "score"
      BY <1>2, <2>3
    <2>8. CallCovers(tree, new)
      <3> HIDE DEF call, tree
      <3> QED BY <1>1, <2>4, <2>5, <2>6, <2>7, CoverWithin
    <2> QED BY <2>1, <2>8, CoverCallStep
  <1> QED BY <1>3, <1>4 DEF AuditScore

\* The fields of the middleware are stored.
LEMMA CoverKeepFields ==
    ASSUME CoverScan, NEW c \in DOMAIN work.calls, AuditKeepFields(c)
    PROVE  AuditCoverInv'
  <1> DEFINE call == work.calls[c]
             tree == project.history[1]
             w == work
             v == work'
  <1>1. DOMAIN w = AuditWorkFields /\ ContextsFresh(tree, w.pkgCache) /\ CallCovers(tree, call)
    BY CoverCall
  <1>2. call.pc = "score"
    BY DEF AuditKeepFields
  <1>3. PICK found \in call.held :
           /\ v = [w EXCEPT !.fieldCache = CacheWith(@, call.source.fn, found), !.calls[c] = Scored(call, found)]
           /\ project' = project
    BY DEF AuditKeepFields, AuditStep, Pass
  <1> DEFINE fields == CacheWith(w.fieldCache, call.source.fn, found)
             new == Scored(call, found)
  <1>4. CallCovers(tree, new)
    BY <1>1, <1>2, CoverScored
  <1> HIDE DEF fields, new
  <1>5. v = [w EXCEPT !.fieldCache = fields, !.calls[c] = new]
    BY <1>3 DEF fields, new
  <1>6. /\ DOMAIN v = AuditWorkFields /\ v.now = w.now /\ v.pkgCache = w.pkgCache
        /\ v.calls = [w.calls EXCEPT ![c] = new]
    BY <1>1, <1>5 DEF AuditWorkFields
  <1>7. OneCall(w, v, c) /\ v.calls[c] = new
    BY <1>6 DEF OneCall
  <1> QED BY <1>1, <1>3, <1>4, <1>6, <1>7, CoverStep

\* Before any scan.
LEMMA AuditCoverInitially ==
    ASSUME Init PROVE AuditCoverInv
  <1> SUFFICES ASSUME scanner = "audit" PROVE AuditCoverInv
    BY DEF AuditCoverInv
  <1> DEFINE tree == project.history[1]
  <1>1. work = AuditIdle(project.callers)
    BY DEF Init, SqlInit, AuditInit, AuthInit, PanInit, Called
  <1>2. work.pkgCache = <<>> /\ \A c \in DOMAIN work.calls : work.calls[c] = IdleCall
    BY <1>1 DEF AuditIdle
  <1> DEFINE idle == IdleCall
  <1>3. /\ DOMAIN idle = AuditCallFields /\ idle.pc = "idle" /\ idle.file = 1
        /\ idle.findings = <<>> /\ idle.held = {}
    BY DEF IdleCall, AuditCallFields
  <1>4. \A c \in DOMAIN work.calls : work.calls[c] = idle
    BY <1>2
  <1> HIDE DEF idle
  <1>5. CallCovers(tree, idle)
    <2> DEFINE fs == idle.findings
    <2>1. IsList(fs) /\ DOMAIN fs = {}
      BY <1>3, ShortLists
    <2>2. CoverPlace(tree, idle) /\ CoverKnows(tree, idle)
      BY <1>3 DEF CoverPlace, CoverKnows, CallInFile
    <2> QED BY <1>3, <2>1, <2>2 DEF CallCovers
  <1>6. ContextsFresh(tree, work.pkgCache)
    <2>1. DOMAIN work.pkgCache = {}
      BY <1>2
    <2> QED BY <2>1 DEF ContextsFresh
  <1> QED BY <1>4, <1>5, <1>6 DEF AuditCoverInv

\* Every step preserves it; a project of one version is not edited.
LEMMA AuditCoverInductive ==
    ASSUME AuditFreshInv, AuditCoverInv, [Next]_callVars
    PROVE  AuditCoverInv'
  <1> SUFFICES ASSUME scanner' = "audit", CoverTidy(project)' PROVE AuditCoverInv'
    BY DEF AuditCoverInv
  <1>1. scanner = "audit" /\ scanner' = scanner
    BY ScannerStays
  <1>2. AuditNext \/ UNCHANGED callVars
    BY <1>1 DEF Next, Returned
  <1>3. project' = project
    BY <1>2 DEF AuditNext, AuditStart, AuditOpenFile, AuditHandler, AuditLookup, AuditStore, AuditScore,
                AuditKeepFields, AuditEdit, AuditEnd, CallStep, AuditStep, Pass, callVars
  <1>4. CoverTidy(project)
    BY <1>3 DEF CoverTidy
  <1>5. CoverScan
    BY <1>1, <1>4 DEF CoverScan, AuditFreshInv
  <1>6. ASSUME NEW c \in DOMAIN work.calls, AuditStart(c) PROVE AuditCoverInv'
    BY <1>5, <1>6, CoverStart
  <1>7. ASSUME NEW c \in DOMAIN work.calls, AuditOpenFile(c) PROVE AuditCoverInv'
    BY <1>5, <1>7, CoverOpenFile
  <1>8. ASSUME NEW c \in DOMAIN work.calls, AuditHandler(c) PROVE AuditCoverInv'
    BY <1>5, <1>8, CoverHandlerStep
  <1>9. ASSUME NEW c \in DOMAIN work.calls, AuditLookup(c) PROVE AuditCoverInv'
    BY <1>5, <1>9, CoverLookup
  <1>10. ASSUME NEW c \in DOMAIN work.calls, AuditStore(c) PROVE AuditCoverInv'
    BY <1>5, <1>10, CoverStore
  <1>11. ASSUME NEW c \in DOMAIN work.calls, AuditScore(c) PROVE AuditCoverInv'
    BY <1>5, <1>11, CoverScore
  <1>12. ASSUME NEW c \in DOMAIN work.calls, AuditKeepFields(c) PROVE AuditCoverInv'
    BY <1>5, <1>12, CoverKeepFields
  <1>13. CASE AuditEdit
    <2>1. work.now < Len(project.history) /\ work.now \in Nat /\ 1 <= work.now /\ Len(project.history) = 1
      BY <1>5, <1>13 DEF AuditEdit, CoverScan, AuditSound, CoverTidy
    <2> QED BY <2>1
  <1>14. CASE AuditEnd \/ UNCHANGED callVars
    <2>1. work' = work /\ project' = project
      BY <1>14 DEF AuditEnd, Pass, callVars
    <2> QED BY <1>1, <1>4, <2>1 DEF AuditCoverInv
  <1> QED BY <1>2, <1>6, <1>7, <1>8, <1>9, <1>10, <1>11, <1>12, <1>13, <1>14 DEF AuditNext

(* AuditCoverInv holds in every behaviour: however the scans of a tidy      *)
(* project interleave, and whichever of them empties the shared caches,     *)
(* what each has concluded of the handler in hand, from contexts that it    *)
(* found or built, is what the routes of the project say.                   *)
THEOREM AuditCoverInvariant == Spec => []AuditCoverInv
  <1>1. Init => AuditCoverInv
    BY AuditCoverInitially
  <1>2. AuditFreshInv /\ AuditCoverInv /\ [Next]_callVars => AuditCoverInv'
    BY AuditCoverInductive
  <1>3. Spec => []AuditFreshInv
    BY AuditFreshInvariant
  <1> QED BY <1>1, <1>2, <1>3, PTL DEF Spec

(* A handler that does not log itself is excused by middleware exactly if   *)
(* its route, or the routes that a directory above it installs, lie under a *)
(* group with a logger: in every tidy project, with any number of scans.    *)
THEOREM AuditCoverageAlwaysExact == Spec => []AuditCoverageExact
  <1>1. AuditFreshInv /\ AuditCoverInv => AuditCoverageExact
    <2> SUFFICES ASSUME AuditFreshInv, AuditCoverInv, Done("audit"), Len(project.history) = 1,
                        \A d \in 1..LastDir(AuditNow) : Tidy(AuditNow.dirs[d]),
                        NEW c \in DOMAIN work.calls, NEW r \in Range(work.calls[c].findings),
                        \A f \in Range(AuditDir.files) : \A h \in Range(PaymentHandlers(f)) :
                            h.decl.name = r.handler => ~LogsItself(h, f) /\ ~HasLoggingMiddleware(f)
                 PROVE  r.mw <=> HandlerUnderLogger(AuditNow, r.handler)
      BY DEF AuditCoverageExact
    <2> DEFINE tree == project.history[1]
               files == tree.dirs[1].files
    <2>1. scanner = "audit" /\ work.now = 1
      BY DEF Done, AuditFreshInv, AuditSound
    <2>2. AuditNow = tree /\ AuditDir.files = files
      BY <2>1 DEF AuditNow, AuditDir
    <2>3. CoverTidy(project)
      BY <2>2 DEF CoverTidy
    <2>4. CallCovers(tree, work.calls[c])
      BY <2>1, <2>3 DEF AuditCoverInv
    <2>5. FindingExact(tree, r)
      BY <2>4 DEF CallCovers, Range
    <2>6. PICK i \in DOMAIN files : \E k \in DOMAIN PaymentHandlers(files[i]) :
             /\ r.handler = PaymentHandlers(files[i])[k].decl.name
             /\ ~LogsItself(PaymentHandlers(files[i])[k], files[i]) /\ ~HasLoggingMiddleware(files[i])
                => (r.mw <=> HandlerUnderLogger(tree, r.handler))
      BY <2>5 DEF FindingExact
    <2> DEFINE file == files[i]
    <2>7. PICK k \in DOMAIN PaymentHandlers(file) :
             /\ r.handler = PaymentHandlers(file)[k].decl.name
             /\ ~LogsItself(PaymentHandlers(file)[k], file) /\ ~HasLoggingMiddleware(file)
                => (r.mw <=> HandlerUnderLogger(tree, r.handler))
      BY <2>6
    <2> DEFINE h == PaymentHandlers(file)[k]
    <2>8. file \in Range(files) /\ h \in Range(PaymentHandlers(file))
      BY DEF Range
    <2>9. ~LogsItself(h, file) /\ ~HasLoggingMiddleware(file)
      BY <2>2, <2>7, <2>8
    <2> QED BY <2>2, <2>7, <2>9
  <1> QED BY <1>1, AuditFreshInvariant, AuditCoverInvariant, PTL

=============================================================================
