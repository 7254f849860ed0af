--------------------------- MODULE AuditCoverage ---------------------------
(***************************************************************************)
(* The audit scanner: does every payment handler log, itself or through    *)
(* middleware of its file, its package or a directory above it, and which  *)
(* fields does that middleware log.  Two caches are shared by all scans.   *)
(*                                                                         *)
(* project.history  the versions of the source tree, edited in order       *)
(* project.callers  the scans, each of directory 1                         *)
(* A tree has dirs, the package of each directory (k + 1 is the parent of  *)
(* k), and mods, the packages of the module by import path.  A package is  *)
(* [files, consts]; a file [parses, generated, imports, alias, paymentDir, *)
(* decls]; a declaration is a function of PaymentContext with recv, param  *)
(* and body.  A statement [op, on, to, how] is one of                      *)
(*   group      to := on.Group()         verb    on.POST(.., to)           *)
(*   use        on.Use(..)               install x.InstallRoutes(on)       *)
(*   aggregate  to.<how>(on)             call    to(..)                    *)
(*   log        on.to(..), on a package  value   recv.to as an argument    *)
(*   field      a log field named to                                       *)
(* where how = "logger" marks a logger among the arguments.                *)
(***************************************************************************)
EXTENDS ScanCall, PaymentContext, InOrder, Sequences, SequencesExt, TLC

CONSTANTS MaxParentWalk,       \* directories walked upwards
          TrustedImports,      \* external packages with a trusted segment
          MiddlewareImports,   \* imports named middleware, logging or logger
          AutoTimestamp,       \* loggers that stamp the time by themselves
          FieldCategory,       \* field name -> the 10.2.1 categories it matches
          AuditSources         \* the histories and callers it is run with

(* What the walker and the parser give: a scan is of a directory, and what *)
(* it reads are finite lists.                                              *)
ASSUME AuditSourcesAssumption ==
    /\ MaxParentWalk \in Nat
    /\ \A p \in AuditSources :
          /\ IsList(p.history) /\ p.history # <<>>
          /\ \A tree \in Range(p.history) :
                /\ IsList(tree.dirs) /\ tree.dirs # <<>>
                /\ \A pkg \in Range(tree.dirs) :
                      /\ IsList(pkg.files)
                      /\ \A file \in Range(pkg.files) :
                            IsList(file.decls) /\ \A d \in Range(file.decls) : IsList(d.body)

AggregatorFuncNames == {"Install", "Setup", "Register", "Configure", "Apply"}

(* Import paths without their host.                                        *)
StructuredLoggerImports ==
    ("log/slog" :> "slog") @@ ("zerolog/log" :> "log") @@ ("apex/log" :> "log")
        @@ [i \in {"zap", "zerolog", "logrus", "hclog"} |-> i]
StructuredLogMethods ==
    {"Info", "Warn", "Error", "Debug", "Fatal", "Panic", "Log", "With",
     "Msg", "Msgf", "Infof", "Warnf", "Errorf", "Debugf", "Fatalf"}
UnstructuredLoggerPatterns ==
    ({"fmt"} \X {"Printf", "Println", "Print", "Fprintf", "Fprintln", "Fprint"})
        \cup ({"log"} \X {"Printf", "Println", "Print", "Fatalf", "Fatalln", "Fatal"})

Body(file) == FlattenSeq([k \in DOMAIN file.decls |-> file.decls[k].body])
ParsePkgFiles(pkg) == Where(pkg.files, {k \in DOMAIN pkg.files : pkg.files[k].parses})

------------------------------------------------------------------------------
(* Logging in the handler itself.                                          *)

(* Whether the name of the standard log package stands for a structured    *)
(* logger: one is imported under it, or is called log by default.          *)
StdlogAlias(file) == IF "log" \in file.imports THEN file.alias["log"] ELSE "log"
StdlogIsStructured(file) ==
    \E p \in DOMAIN StructuredLoggerImports \cap file.imports :
        file.alias[p] = StdlogAlias(file) \/ StructuredLoggerImports[p] = "log"

(* A logger that is not imported counts under its default name.            *)
StructuredAliases(file) ==
    {IF p \in file.imports THEN file.alias[p] ELSE StructuredLoggerImports[p] :
        p \in DOMAIN StructuredLoggerImports}

IsStructured(s, file) ==
    /\ s.op = "log"
    /\ s.on \in StructuredAliases(file) /\ s.to \in StructuredLogMethods
    /\ s.on = StdlogAlias(file) => StdlogIsStructured(file)

HasStructuredLogging(body, file) == \E s \in Range(body) : IsStructured(s, file)

HasUnstructuredLogging(body, file) ==
    \E s \in Range(body) :
        /\ s.op = "log" /\ ~IsStructured(s, file)
        /\ <<s.on, s.to>> \in UnstructuredLoggerPatterns

(* Functions without a receiver; the last of a name counts.                *)
SameFileFuncs(file) ==
    LET funcs == {k \in DOMAIN file.decls : file.decls[k].recv = ""}
    IN  [n \in {file.decls[k].name : k \in funcs} |->
            file.decls[CHOOSE k \in funcs : file.decls[k].name = n
                /\ \A j \in funcs : file.decls[j].name = n => j <= k]]

HasStructuredLoggingInDelegates(body, file) ==
    \E s \in Range(body) :
        /\ s.op = "call" /\ s.to \in DOMAIN SameFileFuncs(file)
        /\ HasStructuredLogging(SameFileFuncs(file)[s.to].body, file)

------------------------------------------------------------------------------
(* Middleware in the handler's file.                                       *)

BlockHasLoggerArg(body) == \E s \in Range(body) : s.how = "logger"
FileHasLoggerArg(file) == BlockHasLoggerArg(Body(file))

FindAggregatorBodies(file) ==
    {file.decls[k].body : k \in {j \in DOMAIN file.decls :
        /\ file.decls[j].name \in AggregatorFuncNames
        /\ \E s \in Range(Body(file)) :
              \/ s.op = "aggregate" /\ s.how = file.decls[j].name
              \/ s.op = "call" /\ s.to = file.decls[j].name}}

(* File-scoped: a logger anywhere in the file covers its handlers.         *)
HasLoggingMiddleware(file) ==
    FileHasLoggerArg(file) \/ \E b \in FindAggregatorBodies(file) : BlockHasLoggerArg(b)

------------------------------------------------------------------------------
(* Middleware of a package.  A group is <<name>>, or <<local, argument>>   *)
(* inside a method that is applied to an argument.                         *)

ResolveInProjectMiddleware(pkg) ==
    \E f \in Range(ParsePkgFiles(pkg)) : \E d \in Range(f.decls) :
        d.name \in AggregatorFuncNames /\ BlockHasLoggerArg(d.body)

ResolveExternalMiddleware(tree, imp) ==
    IF imp \in DOMAIN tree.mods THEN ResolveInProjectMiddleware(tree.mods[imp])
    ELSE imp \in TrustedImports

Effect(op, key, val) == [op |-> op, key |-> key, val |-> val]

(* Pass A: every statement of the package, whatever function it is in; one *)
(* about a group that is no variable has no effect.                        *)
PassA(tree, file) ==
    LET covers(s) == \/ s.op = "use" /\ s.how = "logger"
                     \/ /\ s.op = "aggregate" /\ s.how \in AggregatorFuncNames
                        /\ s.to \in file.imports
                        /\ ResolveExternalMiddleware(tree, s.to)
        effect(s) ==
          CASE s.on = "" -> Effect("", <<>>, <<>>)
            [] s.on # "" /\ s.op = "group" -> Effect("parent", <<s.to>>, <<s.on>>)
            [] s.on # "" /\ s.op = "verb" -> Effect("handler", <<s.to>>, <<s.on>>)
            [] s.on # "" /\ s.op = "install" -> Effect("ir", <<s.on>>, <<>>)
            [] s.on # "" /\ covers(s) -> Effect("cover", <<s.on>>, <<>>)
            [] OTHER -> Effect("", <<>>, <<>>)
    IN  [k \in DOMAIN Body(file) |-> effect(Body(file)[k])]

(* Pass B: the body of an InstallRoutes method with its parameter replaced *)
(* by the argument of the call.  A cover of no variable is never looked up.*)
WalkMethodBody(fn, arg) ==
    LET group(k) ==
          LET on == fn.body[k].on
          IN  IF \E j \in 1..(k - 1) : fn.body[j].op = "group" /\ fn.body[j].to = on
              THEN <<on, arg>>
              ELSE IF on = fn.param THEN <<arg>> ELSE <<on>>
        effect(k) ==
          LET s == fn.body[k]
          IN  CASE s.op = "group" -> Effect("parent", <<s.to, arg>>, group(k))
                [] s.op = "verb" -> Effect("handler", <<s.to>>, group(k))
                [] s.op = "use" /\ s.how = "logger" /\ s.on # "" -> Effect("cover", group(k), <<>>)
                [] OTHER -> Effect("", <<>>, <<>>)
    IN  [k \in DOMAIN fn.body |-> effect(k)]

(* The functions of a package, with the imports of their files.            *)
PkgDecls(pkg) ==
    FlattenSeq([k \in DOMAIN ParsePkgFiles(pkg) |->
        [j \in DOMAIN ParsePkgFiles(pkg)[k].decls |->
            [fn |-> ParsePkgFiles(pkg)[k].decls[j], imports |-> ParsePkgFiles(pkg)[k].imports]]])

IsInstallRoutes(fn) == fn.name = "InstallRoutes" /\ fn.recv # "" /\ fn.param # ""

InstallRoutesMethods(pkg) ==
    LET ds == PkgDecls(pkg) IN Where(ds, {k \in DOMAIN ds : IsInstallRoutes(ds[k].fn)})

(* The methods are taken from a map, in any order.                         *)
MethodOrders(pkg) ==
    LET n == Len(InstallRoutesMethods(pkg))
    IN  {o \in [1..n -> 1..n] : \A i, j \in 1..n : o[i] = o[j] => i = j}

(* Every method called InstallRoutes is applied to every call of one.      *)
Effects(tree, pkg, order) ==
    LET files == ParsePkgFiles(pkg)
        a == FlattenSeq([k \in DOMAIN files |-> PassA(tree, files[k])])
        calls == Where(a, {k \in DOMAIN a : a[k].op = "ir"})
        ms == InstallRoutesMethods(pkg)
        b(c) == FlattenSeq([k \in DOMAIN order |-> WalkMethodBody(ms[order[k]].fn, c.key[1])])
    IN  a \o FlattenSeq([k \in DOMAIN calls |-> b(calls[k])])

(* The last assignment of a name and the last registration of a handler    *)
(* are the ones that remain.                                               *)
CtxOf(es) ==
    LET keys(op) == {es[k].key : k \in {j \in DOMAIN es : es[j].op = op}}
        last(op) == [key \in keys(op) |->
            es[CHOOSE k \in DOMAIN es : es[k].op = op /\ es[k].key = key
                /\ \A j \in DOMAIN es : es[j].op = op /\ es[j].key = key => j <= k].val]
    IN  [cover |-> keys("cover"), ir |-> keys("ir"),
         parent |-> last("parent"), handler |-> last("handler")]

BuildPackageMiddlewareCtx(tree, pkg, order) == CtxOf(Effects(tree, pkg, order))

(* The groups above a group, itself included; a cycle ends the walk.       *)
Chain(ctx, g) ==
    LET up[n \in 0..Cardinality(DOMAIN ctx.parent)] ==
          IF n = 0 THEN g
          ELSE IF up[n - 1] \in DOMAIN ctx.parent THEN ctx.parent[up[n - 1]] ELSE up[n - 1]
    IN  {up[n] : n \in DOMAIN up}

(* Mutant of GroupHasCoverage: only the handler's own group counts.        *)
OwnGroupHasCoverage(ctx, g) == g \in ctx.cover

GroupHasCoverage(ctx, g) == Chain(ctx, g) \cap ctx.cover # {}

ParentHasMiddlewareCoveringChild(ctx) ==
    \E g \in ctx.cover, i \in ctx.ir : g \in Chain(ctx, i)

(* What the context of directory d says of a handler of directory 1.       *)
CoveredAt(ctx, d, name) ==
    IF d = 1 THEN <<name>> \in DOMAIN ctx.handler /\ GroupHasCoverage(ctx, ctx.handler[<<name>>])
    ELSE ParentHasMiddlewareCoveringChild(ctx)

LastDir(tree) == IF Len(tree.dirs) < MaxParentWalk + 1 THEN Len(tree.dirs) ELSE MaxParentWalk + 1

------------------------------------------------------------------------------
(* Which fields the middleware logs.                                       *)

NoSource == [imp |-> "", fn |-> ""]

FindAggregatorFuncFromImport(file, imp) ==
    LET calls == SelectSeq(Body(file), LAMBDA s :
                    s.op = "aggregate" /\ s.to = imp /\ s.how \in AggregatorFuncNames)
    IN  IF calls = <<>> THEN "" ELSE Head(calls).how

(* A file imports at most one middleware package in the model.             *)
SourceInFile(file) ==
    LET found == {i \in file.imports \cap MiddlewareImports :
                    FindAggregatorFuncFromImport(file, i) # ""}
    IN  IF found = {} THEN NoSource
        ELSE LET i == CHOOSE j \in found : TRUE
             IN  [imp |-> i, fn |-> FindAggregatorFuncFromImport(file, i)]

FindAggregatorFuncInPackage(pkg) ==
    LET decls == FlattenSeq([k \in DOMAIN ParsePkgFiles(pkg) |-> ParsePkgFiles(pkg)[k].decls])
        aggregators == SelectSeq(decls, LAMBDA d :
                          d.name \in AggregatorFuncNames /\ BlockHasLoggerArg(d.body))
    IN  IF aggregators = <<>> THEN "" ELSE Head(aggregators).name

FindMiddlewareImportInDir(pkg) ==
    LET files == SelectSeq(ParsePkgFiles(pkg), LAMBDA f : SourceInFile(f) # NoSource)
    IN  IF files = <<>> THEN NoSource ELSE SourceInFile(Head(files))

(* Strategies 2 and 3 of resolveMiddlewareSource; "self" is directory 1.   *)
SourceAt(tree, ctx, d, name) ==
    IF ~CoveredAt(ctx, d, name) THEN NoSource
    ELSE IF d > 1 THEN FindMiddlewareImportInDir(tree.dirs[d])
    ELSE LET fn == FindAggregatorFuncInPackage(tree.dirs[1])
         IN  IF fn = "" THEN NoSource ELSE [imp |-> "self", fn |-> fn]

MiddlewarePkg(tree, imp) ==
    IF imp = "self" THEN tree.dirs[1]
    ELSE IF imp \in DOMAIN tree.mods THEN tree.mods[imp] ELSE [files |-> <<>>, consts |-> <<>>]

PkgImports(pkg) == UNION {f.imports : f \in Range(ParsePkgFiles(pkg))}

(* A key that is no constant stands for itself; a constant of a package    *)
(* that is not in the module gives no field.                               *)
ResolveKeyExpr(tree, pkg, s) ==
    LET of(consts, otherwise) == IF s.to \in DOMAIN consts THEN consts[s.to] ELSE otherwise
    IN  IF s.on = "" THEN of(pkg.consts, s.to)
        ELSE IF s.on \in DOMAIN tree.mods THEN of(tree.mods[s.on].consts, "") ELSE ""

(* The logger package that a name stands for, if any (classifyAliases).    *)
Logger(file, name) ==
    {i \in file.imports \cap {"log/slog", "zap", "zerolog/log", "logrus"} : file.alias[i] = name}

(* The field of one call or literal: a method that takes a key counts on   *)
(* an imported logger or in a chain, logrus' own package functions do not. *)
StatementField(tree, pkg, file, s) ==
    CASE s.how = "Fields" -> ResolveKeyExpr(tree, pkg, s)
      [] s.how = "chain" -> s.to
      [] s.how = "WithField" -> IF Logger(file, s.on) = {} THEN s.to ELSE ""
      [] s.how = "key" -> IF Logger(file, s.on) \subseteq {"logrus"} THEN "" ELSE s.to
      [] s.how = "error" ->
            IF Logger(file, s.on) \cap {"zap", "zerolog/log"} = {} THEN "" ELSE "error"

BodyFields(tree, pkg, file, body) ==
    {StatementField(tree, pkg, file, s) : s \in {t \in Range(body) : t.op = "field"}} \ {""}

(* The function itself, the functions of its file that it calls, and the   *)
(* methods of the package that a method passes on; one level each.         *)
ExtractFieldsFromBody(tree, pkg, file, fn) ==
    LET helpers == {s.to : s \in {t \in Range(fn.body) : t.op = "call"}} \cap DOMAIN SameFileFuncs(file)
        values == {s.to : s \in {t \in Range(fn.body) : t.op = "value" /\ fn.recv # ""}}
        methods == {d \in UNION {Range(f.decls) : f \in Range(ParsePkgFiles(pkg))} :
                        d.recv # "" /\ d.name \in values}
    IN  BodyFields(tree, pkg, file, fn.body)
          \cup UNION {BodyFields(tree, pkg, file, SameFileFuncs(file)[h].body) : h \in helpers}
          \cup UNION {BodyFields(tree, pkg, file, m.body) : m \in methods}

(* {} stands for nil: no function of that name, or one without fields.     *)
ExtractLogFields(tree, src) ==
    LET pkg == MiddlewarePkg(tree, src.imp)
        files == SelectSeq(ParsePkgFiles(pkg), LAMBDA f : \E d \in Range(f.decls) : d.name = src.fn)
    IN  IF files = <<>> THEN {}
        ELSE LET fns == SelectSeq(Head(files).decls, LAMBDA d : d.name = src.fn)
             IN  ExtractFieldsFromBody(tree, pkg, Head(files), Head(fns))

MatchPCIDSSFields(fields, imports) ==
    UNION {FieldCategory[f] : f \in fields \cap DOMAIN FieldCategory}
        \cup IF imports \cap AutoTimestamp # {} THEN {"timestamp"} ELSE {}

ScoreSeverity(score) == IF score >= 3 THEN "INFO" ELSE IF score >= 1 THEN "MEDIUM" ELSE "HIGH"

(* nil leaves the generic finding, which is INFO.                          *)
FieldSeverity(tree, src, fields) ==
    IF fields = {} THEN "INFO"
    ELSE ScoreSeverity(Cardinality(MatchPCIDSSFields(fields, PkgImports(MiddlewarePkg(tree, src.imp)))))

------------------------------------------------------------------------------
(* One scan.  A call is [pc, file, src, todo, dir, source, held, findings, *)
(* from, alone]: the file it is in as it was parsed, the handlers left in  *)
(* it, the directory whose context it needs next and the middleware it     *)
(* settled on; what it has built and not stored; the version it started    *)
(* from, and whether no other scan ran beside it.                          *)

PaymentHandlers(file) ==
    LET tier(d) ==
          LET t == PaymentFuncTier(d, FileHasTier1Keyword(Range(file.decls)))
          IN  IF t # 0 THEN t ELSE IF IsPaymentContext(file, d) THEN 2 ELSE 0
        admitted == Where(file.decls, {k \in DOMAIN file.decls :
                        /\ tier(file.decls[k]) # 0
                        /\ IsHTTPHandler(file.decls[k], DetectFramework(file))})
    IN  IF file.generated THEN <<>>
        ELSE [k \in DOMAIN admitted |-> [decl |-> admitted[k], tier |-> tier(admitted[k])]]

AuditFinding(h, rule, sev, mw) == [handler |-> h.decl.name, rule |-> rule, sev |-> sev, mw |-> mw]

(* Neither structured logging nor middleware.                              *)
Unlogged(h, file) ==
    AuditFinding(h, IF HasUnstructuredLogging(h.decl.body, file)
                    THEN "AUDIT-UNSTRUCTURED" ELSE "AUDIT-NO-LOG",
                 <<"CRITICAL", "HIGH", "MEDIUM">>[h.tier], FALSE)

LogsItself(h, file) ==
    HasStructuredLogging(h.decl.body, file) \/ HasStructuredLoggingInDelegates(h.decl.body, file)

AuditNow == project.history[work.now]
AuditDir == AuditNow.dirs[1]

IdleCall == [pc |-> "idle", file |-> 1, src |-> <<>>, todo |-> <<>>, dir |-> 0,
             source |-> NoSource, held |-> {}, findings |-> <<>>, from |-> 0, alone |-> TRUE]

AuditIdle(callers) == [now |-> 1, pkgCache |-> <<>>, fieldCache |-> <<>>,
                       calls |-> [c \in callers |-> IdleCall]]

Active(c) == work.calls[c].pc \notin {"idle", "done", "failed"}

(* A cache with one more entry, or another one under its key.              *)
CacheWith(cache, key, value) ==
    [k \in DOMAIN cache \cup {key} |-> IF k = key THEN value ELSE cache[k]]

AuditStep(w) == Pass("audit", "start", "start", w)
CallStep(c, call) == AuditStep([work EXCEPT !.calls[c] = call])

(* A finding for the handler at the head of the queue.                     *)
Report(call, f) ==
    [call EXCEPT !.pc = "handler", !.todo = Tail(@), !.findings = Append(@, f)]

(* Mutant of AuditStart: what the last scan cached is still there.         *)
StartWithOldCaches(c) ==
    /\ work.calls[c].pc = "idle"
    /\ CallStep(c, [IdleCall EXCEPT !.pc = "file", !.from = work.now,
                                    !.alone = \A e \in DOMAIN work.calls : ~Active(e)])

(* The caches are emptied for every scan, and they are everyone's.         *)
AuditStart(c) ==
    /\ work.calls[c].pc = "idle"
    /\ AuditStep([work EXCEPT !.pkgCache = <<>>, !.fieldCache = <<>>,
          !.calls = [d \in DOMAIN @ |->
             IF d = c THEN [IdleCall EXCEPT !.pc = "file", !.from = work.now,
                                            !.alone = \A e \in DOMAIN work.calls : ~Active(e)]
             ELSE IF Active(d) THEN [@[d] EXCEPT !.alone = FALSE] ELSE @[d]]])

(* A file that does not parse fails the scan.                              *)
AuditOpenFile(c) ==
    LET call == work.calls[c]
    IN  /\ call.pc = "file"
        /\ \/ /\ call.file <= Len(AuditDir.files)
              /\ LET file == AuditDir.files[call.file]
                 IN  CallStep(c, IF file.parses
                         THEN [call EXCEPT !.pc = "handler", !.src = file,
                                           !.todo = PaymentHandlers(file)]
                         ELSE [call EXCEPT !.pc = "failed", !.findings = <<>>])
           \/ /\ call.file > Len(AuditDir.files)
              /\ CallStep(c, [call EXCEPT !.pc = "done"])

(* Where the fields are looked for once a handler counts as covered.       *)
Covered(call) ==
    IF SourceInFile(call.src) # NoSource
    THEN [call EXCEPT !.pc = "score", !.source = SourceInFile(call.src)]
    ELSE [call EXCEPT !.pc = "source", !.dir = 1]

AuditHandler(c) ==
    LET call == work.calls[c]
        h == Head(call.todo)
    IN  /\ call.pc = "handler"
        /\ CallStep(c,
              IF call.todo = <<>> THEN [call EXCEPT !.pc = "file", !.file = @ + 1]
              ELSE IF LogsItself(h, call.src)
              THEN Report(call, AuditFinding(h, "AUDIT-LOG-OK", "INFO", FALSE))
              ELSE IF HasLoggingMiddleware(call.src) THEN Covered(call)
              ELSE [call EXCEPT !.pc = "cover", !.dir = 1])

(* With the context of call.dir in hand: settle, or go one directory up.   *)
Judge(call, ctx) ==
    LET h == Head(call.todo)
        src == SourceAt(AuditNow, ctx, call.dir, h.decl.name)
        more == call.dir < LastDir(AuditNow)
        up == [call EXCEPT !.dir = @ + 1, !.held = {}]
        stay == [call EXCEPT !.held = {}]
    IN  CASE call.pc = "cover" /\ CoveredAt(ctx, call.dir, h.decl.name) -> Covered(stay)
          [] call.pc = "cover" /\ ~CoveredAt(ctx, call.dir, h.decl.name) ->
                IF more THEN up ELSE Report(stay, Unlogged(h, call.src))
          [] call.pc = "source" /\ src # NoSource -> [stay EXCEPT !.pc = "score", !.source = src]
          [] call.pc = "source" /\ src = NoSource ->
                IF more THEN up ELSE Report(stay, AuditFinding(h, "AUDIT-LOG-OK", "INFO", TRUE))

(* getOrBuildCtx: under the lock, a hit is used; a miss is built without   *)
(* the lock and stored under it, whatever happened to the cache meanwhile. *)
AuditLookup(c) ==
    LET call == work.calls[c]
    IN  /\ call.pc \in {"cover", "source"} /\ call.held = {}
        /\ \/ /\ call.dir \in DOMAIN work.pkgCache
              /\ CallStep(c, Judge(call, work.pkgCache[call.dir]))
           \/ /\ call.dir \notin DOMAIN work.pkgCache
              /\ \E o \in MethodOrders(AuditNow.dirs[call.dir]) :
                    CallStep(c, [call EXCEPT !.held =
                        {BuildPackageMiddlewareCtx(AuditNow, AuditNow.dirs[call.dir], o)}])

AuditStore(c) ==
    LET call == work.calls[c]
    IN  /\ call.pc \in {"cover", "source"}
        /\ \E ctx \in call.held :
              AuditStep([work EXCEPT !.pkgCache = CacheWith(@, call.dir, ctx),
                                     !.calls[c] = Judge(call, ctx)])

(* The key is the handler's directory and the name of the function, not    *)
(* the package that the function comes from.                               *)
Scored(call, fields) ==
    Report([call EXCEPT !.held = {}],
           AuditFinding(Head(call.todo), "AUDIT-LOG-OK",
                        FieldSeverity(AuditNow, call.source, fields), TRUE))

AuditScore(c) ==
    LET call == work.calls[c]
        key == call.source.fn
    IN  /\ call.pc = "score" /\ call.held = {}
        /\ \/ /\ key \in DOMAIN work.fieldCache
              /\ CallStep(c, Scored(call, work.fieldCache[key]))
           \/ /\ key \notin DOMAIN work.fieldCache
              /\ CallStep(c, [call EXCEPT !.held = {ExtractLogFields(AuditNow, call.source)}])

AuditKeepFields(c) ==
    LET call == work.calls[c]
    IN  /\ call.pc = "score"
        /\ \E fields \in call.held :
              AuditStep([work EXCEPT !.fieldCache = CacheWith(@, call.source.fn, fields),
                                     !.calls[c] = Scored(call, fields)])

(* Somebody edits the sources.                                             *)
AuditEdit ==
    /\ work.now < Len(project.history)
    /\ AuditStep([work EXCEPT !.now = @ + 1])

AuditEnd ==
    /\ \A c \in DOMAIN work.calls : work.calls[c].pc \in {"done", "failed"}
    /\ Pass("audit", "start", "done", work)

AuditInit == \E p \in AuditSources : Called("audit", p, AuditIdle(p.callers))

AuditNext ==
    /\ scanner = "audit"
    /\ \/ \E c \in DOMAIN work.calls :
             \/ AuditStart(c) \/ AuditOpenFile(c) \/ AuditHandler(c)
             \/ AuditLookup(c) \/ AuditStore(c)
             \/ AuditScore(c) \/ AuditKeepFields(c)
       \/ AuditEdit
       \/ AuditEnd

------------------------------------------------------------------------------
(* Properties.  The reference for coverage keeps the variables of          *)
(* different functions apart: a group is <<declaration, name>>, and a      *)
(* parameter of InstallRoutes is the argument of every call.               *)

(* The statements of a package with the number of their function, and      *)
(* those of a kind that are about a group.                                 *)
Placed(pkg) == UNION {{<<k, s>> : s \in Range(PkgDecls(pkg)[k].fn.body)} : k \in DOMAIN PkgDecls(pkg)}
On(pkg, op) == {p \in Placed(pkg) : p[2].op = op /\ p[2].on # ""}
GroupOf(p) == <<p[1], p[2].on>>

Params(pkg) ==
    {<<m, PkgDecls(pkg)[m].fn.param>> :
        m \in {i \in DOMAIN PkgDecls(pkg) : IsInstallRoutes(PkgDecls(pkg)[i].fn)}}

Under(pkg) ==
    {<<<<p[1], p[2].to>>, GroupOf(p)>> : p \in On(pkg, "group")}
      \cup {<<g, GroupOf(p)>> : g \in Params(pkg), p \in On(pkg, "install")}
      \cup {<<GroupOf(p), g>> : g \in Params(pkg), p \in On(pkg, "install")}

Logged(tree, pkg) ==
    {GroupOf(p) : p \in {q \in On(pkg, "use") : q[2].how = "logger"}
                    \cup {q \in On(pkg, "aggregate") :
                            /\ q[2].how \in AggregatorFuncNames
                            /\ q[2].to \in PkgDecls(pkg)[q[1]].imports
                            /\ ResolveExternalMiddleware(tree, q[2].to)}}

(* Groups from which a logged group can be reached: the least set closed   *)
(* under Under.                                                            *)
UnderLogger(tree, pkg) ==
    LET all == Logged(tree, pkg) \cup UNION {{e[1], e[2]} : e \in Under(pkg)}
    IN  {g \in all : \A closed \in SUBSET all :
            /\ Logged(tree, pkg) \subseteq closed
            /\ \A e \in Under(pkg) : e[2] \in closed => e[1] \in closed
            => g \in closed}

(* What directory d gives the handler of that name: a route, or the routes *)
(* it installs, under a logger.                                            *)
RoutedUnderLogger(tree, d, name) ==
    LET pkg == tree.dirs[d]
        routes == IF d = 1 THEN {p \in On(pkg, "verb") : p[2].to = name} ELSE On(pkg, "install")
    IN  \E p \in routes : GroupOf(p) \in UnderLogger(tree, pkg)

HandlerUnderLogger(tree, name) == \E d \in 1..LastDir(tree) : RoutedUnderLogger(tree, d, name)

(* The variables for groups in function k.                                 *)
GroupNames(pkg, k) ==
    LET about == {s \in Range(PkgDecls(pkg)[k].fn.body) :
                    s.op \in {"group", "verb", "use", "install", "aggregate"}}
    IN  {s.on : s \in about} \cup {s.to : s \in {t \in about : t.op = "group"}}

Makes(s, name) == s.op = "group" /\ s.to = name

(* An InstallRoutes method that makes its groups before it uses them and   *)
(* keeps its parameter.  It asks no aggregator, which pass B does not look *)
(* at, and does not install itself again.                                  *)
TidyMethod(fn) ==
    /\ \A s \in Range(fn.body) : s.op \notin {"aggregate", "install"} /\ ~Makes(s, fn.param)
    /\ \A k \in DOMAIN fn.body :
          (\E s \in Range(fn.body) : Makes(s, fn.body[k].on))
          => \E j \in 1..(k - 1) : Makes(fn.body[j], fn.body[k].on)

(* Packages in which names say enough: no variable name is used by two     *)
(* functions, none is assigned twice, a handler has one route, and         *)
(* InstallRoutes is declared and called once at most.                      *)
Tidy(pkg) ==
    LET ofOp(op) == {p \in Placed(pkg) : p[2].op = op}
    IN  /\ \A i, j \in DOMAIN PkgDecls(pkg) :
              i # j => GroupNames(pkg, i) \cap GroupNames(pkg, j) \subseteq {""}
        /\ \A op \in {"group", "verb"} : \A p, q \in ofOp(op) : p[2].to = q[2].to => p = q
        /\ \A p \in ofOp("group") : p[2].to # ""
        /\ Cardinality(ofOp("install")) <= 1
        /\ Len(InstallRoutesMethods(pkg)) <= 1
        /\ \A m \in Range(InstallRoutesMethods(pkg)) : TidyMethod(m.fn)

(* A handler that does not log itself is excused by middleware exactly if  *)
(* it is registered, directly or through InstallRoutes, under a group with *)
(* a logger, or a package at most MaxParentWalk levels up installs routes  *)
(* under one: the chains of names, last assignments and substitutions of   *)
(* the scanner lose nothing and add nothing, in tidy packages, and neither *)
(* do the caches.  (Routes name their handlers, so this is about names     *)
(* none of whose handlers logs itself.)                                    *)
AuditCoverageExact ==
    Done("audit") /\ Len(project.history) = 1
      /\ (\A d \in 1..LastDir(AuditNow) : Tidy(AuditNow.dirs[d]))
    => \A c \in DOMAIN work.calls : \A r \in Range(work.calls[c].findings) :
          (\A f \in Range(AuditDir.files) : \A h \in Range(PaymentHandlers(f)) :
              h.decl.name = r.handler => ~LogsItself(h, f) /\ ~HasLoggingMiddleware(f))
          => (r.mw <=> HandlerUnderLogger(AuditNow, r.handler))

(* A scan without caches, for one context per directory: the middleware of *)
(* a handler and its finding.                                              *)
PlainSource(tree, ctxs, file, h) ==
    LET sources == {d \in 1..LastDir(tree) : SourceAt(tree, ctxs[d], d, h.decl.name) # NoSource}
    IN  IF SourceInFile(file) # NoSource THEN SourceInFile(file)
        ELSE IF sources = {} THEN NoSource
        ELSE LET d == Min(sources) IN SourceAt(tree, ctxs[d], d, h.decl.name)

PlainFinding(tree, ctxs, file, h) ==
    LET covers == {d \in 1..LastDir(tree) : CoveredAt(ctxs[d], d, h.decl.name)}
        src == PlainSource(tree, ctxs, file, h)
        fields == IF src = NoSource THEN {} ELSE ExtractLogFields(tree, src)
    IN  IF LogsItself(h, file) THEN AuditFinding(h, "AUDIT-LOG-OK", "INFO", FALSE)
        ELSE IF ~HasLoggingMiddleware(file) /\ covers = {} THEN Unlogged(h, file)
        ELSE AuditFinding(h, "AUDIT-LOG-OK", FieldSeverity(tree, src, fields), TRUE)

PlainFindings(tree, ctxs) ==
    LET ofFile(f) == [k \in DOMAIN PaymentHandlers(f) |->
                         PlainFinding(tree, ctxs, f, PaymentHandlers(f)[k])]
    IN  FlattenSeq([k \in DOMAIN tree.dirs[1].files |-> ofFile(tree.dirs[1].files[k])])

Contexts(tree) ==
    LET of(d) == {BuildPackageMiddlewareCtx(tree, tree.dirs[d], o) : o \in MethodOrders(tree.dirs[d])}
    IN  {ctxs \in [1..LastDir(tree) -> UNION {of(d) : d \in 1..LastDir(tree)}] :
            \A d \in DOMAIN ctxs : ctxs[d] \in of(d)}

(* The middleware functions that the fields of a handler can come from: of *)
(* an import of its file, of its own package, of an import further up.     *)
SourcesOf(tree) ==
    {SourceInFile(f) : f \in Range(tree.dirs[1].files)}
      \cup {[imp |-> "self", fn |-> FindAggregatorFuncInPackage(tree.dirs[1])]}
      \cup {FindMiddlewareImportInDir(tree.dirs[d]) : d \in 2..LastDir(tree)}

(* No two of them have the same name.                                      *)
KeysApart(tree) == \A s, u \in SourcesOf(tree) : s.fn = u.fn /\ s.fn # "" => s = u

(* The caches are invisible: a scan that ran beside no other, and during   *)
(* which nobody edited the sources, reports what a scan without caches     *)
(* reports of the sources as they are, whatever earlier scans left behind. *)
AuditFreshWhenAlone ==
    scanner = "audit" /\ KeysApart(AuditNow) =>
      \A c \in DOMAIN work.calls :
        work.calls[c].pc = "done" /\ work.calls[c].alone /\ work.calls[c].from = work.now
        => \E ctxs \in Contexts(AuditNow) : work.calls[c].findings = PlainFindings(AuditNow, ctxs)

(* What the comment on ExtractLogFields says: nil means that the package   *)
(* could not be parsed or has no such function.  So middleware that was    *)
(* read and logs no field is scored, and is not INFO.                      *)
AuditNilMeansUnread ==
    Done("audit") =>
      \A c \in DOMAIN work.calls : \A f \in Range(AuditDir.files) :
        LET src == SourceInFile(f)
            pkg == MiddlewarePkg(AuditNow, src.imp)
        IN  /\ src # NoSource
            /\ \E g \in Range(ParsePkgFiles(pkg)) : \E d \in Range(g.decls) : d.name = src.fn
            /\ ExtractLogFields(AuditNow, src) = {}
            => \A h \in Range(PaymentHandlers(f)) : \A r \in Range(work.calls[c].findings) :
                  r.handler = h.decl.name /\ r.mw => r.sev # "INFO"
==============================================================================
