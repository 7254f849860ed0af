------------------------------ MODULE AuthScan ------------------------------
(***************************************************************************)
(* The authentication scanner: hardcoded passwords, weak length policies,  *)
(* payment routes and handlers without MFA, and webhook handlers that      *)
(* parse a body they have not verified.                                    *)
(*                                                                         *)
(* project = [dirs, mods] as in AuditCoverage; the scan is of directory 1. *)
(* A file has a place (DevContext) and brand, whether a brand name occurs  *)
(* in its path.  A statement [op, on, to, how, path, wrap, n] is one of    *)
(*   verb     on.<how>(path, wrap(to))    password  name = "to"            *)
(*   setenv   os.Setenv(name, "to")       len       len(password) <how> n, *)
(*   strong   a signature comparison                or n <how> len if on   *)
(*   parse    a body parser <how>                   is "literal"           *)
(*   session  a session cookie write      header    the Authorization read *)
(*   readall  io.ReadAll                  mfa       a call named for MFA   *)
(*   call     to(..)                      delegate  x.ServeHTTP(w, r)      *)
(* and group, use, install, aggregate as in AuditCoverage; wrap is the     *)
(* kind of function around a handler: "", "mfa", "sig" or "other".         *)
(***************************************************************************)
EXTENDS AuditCoverage, DevContext, InOrder

CONSTANTS WebhookMaxParentWalk,      \* directories walked upwards
          TrustedSignatureImports,   \* external packages with a trusted segment
          AuthSources                \* the trees that the scanner is called on

(* The group of a handler that is wrapped at its route; no variable can be *)
(* called that.                                                            *)
WrapperMarker == <<"__wrapped:signature">>

(* What the parser gives: finite lists, literals without a sign, and a     *)
(* name for every group that is made, covered or installed.                *)
ASSUME AuthSourcesAssumption ==
    /\ WebhookMaxParentWalk \in Nat
    /\ \A tree \in AuthSources :
          /\ IsList(tree.dirs) /\ tree.dirs # <<>>
          /\ \A pkg \in Range(tree.dirs) :
                /\ IsList(pkg.files)
                /\ \A file \in Range(pkg.files) :
                      /\ IsList(file.decls)
                      /\ \A d \in Range(file.decls) :
                            /\ IsList(d.body)
                            /\ \A s \in Range(d.body) :
                                  /\ s.n \in Nat /\ <<s.on>> # WrapperMarker
                                  /\ s.op \in {"group", "use", "install", "aggregate"} => s.on # ""
                                  /\ s.op = "group" => s.to # ""

RouteRegistrationMethods == {"POST", "Post", "GET", "HandleFunc", "Group"}
SignatureVerbs == {"POST", "GET", "HandleFunc", "Any"}
PostMethods == {"POST", "Post"}
BodyParsers == {"Unmarshal", "Decode", "Bind"}
JsonParsers == {"Unmarshal", "NewDecoder"}

AuthFinding(rule, sev, at, handler) == [rule |-> rule, sev |-> sev, at |-> at, handler |-> handler]

(* The statements of a file in order, with declaration and number.         *)
Places(file) ==
    FlattenSeq([k \in DOMAIN file.decls |->
        [j \in DOMAIN file.decls[k].body |-> [at |-> <<k, j>>, s |-> file.decls[k].body[j]]]])

(* Those of a kind.                                                        *)
PlacesOf(file, ops) ==
    LET all == Places(file) IN Where(all, {i \in DOMAIN all : all[i].s.op \in ops})

------------------------------------------------------------------------------
(* Passwords.                                                              *)

IsPlaceholder(value) == value \in {"", "changeme", "todo"}
IsTestutilPath(place) == "test" \in Segments(place)

ApplyAuthDevContext(sev, value, place) ==
    LET dc == ClassifyDevContextInRoot(place, value, sev)
    IN  IF dc.dedicated /\ ~dc.prod THEN "INFO" ELSE dc.sev

PasswordSeverity(s, place) ==
    IF IsTestutilPath(place) THEN "INFO"
    ELSE ApplyAuthDevContext(IF s.op = "password" /\ IsPlaceholder(s.to) THEN "INFO" ELSE "CRITICAL",
                             s.to, place)

DetectHardcodedPasswords(file) ==
    LET found == PlacesOf(file, {"password", "setenv"})
    IN  [k \in DOMAIN found |-> AuthFinding("AUTH-HARDCODED-PWD",
            PasswordSeverity(found[k].s, file.place), found[k].at, "")]

------------------------------------------------------------------------------
(* Length policies.                                                        *)

(* Mutant of FlipOp: the operator is taken as it stands.                   *)
KeepOp(op) == op
FlipOp(op) ==
    CASE op = "<" -> ">" [] op = ">" -> "<" [] op = "<=" -> ">=" [] op = ">=" -> "<=" [] OTHER -> op

NormalizeLenComparison(s) == IF s.on = "literal" THEN FlipOp(s.how) ELSE s.how

IsWeakThreshold(op, n) ==
    \/ op \in {"<", ">="} /\ n < 12
    \/ op \in {"<=", ">"} /\ n < 11

DetectWeakPasswordPolicy(file) ==
    LET checks == PlacesOf(file, {"len"})
        weak == Where(checks, {i \in DOMAIN checks :
                                 IsWeakThreshold(NormalizeLenComparison(checks[i].s), checks[i].s.n)})
        flag(p) == <<AuthFinding("AUTH-WEAK-POLICY", "CRITICAL", p.at, "")>>
                     \o IF p.s.to = "bytes"
                        THEN <<AuthFinding("AUTH-BYTE-COUNT", "MEDIUM", p.at, "")>> ELSE <<>>
    IN  FlattenSeq([k \in DOMAIN weak |-> flag(weak[k])])

------------------------------------------------------------------------------
(* Missing MFA.                                                            *)

IsRoute(s) == s.op = "verb" /\ s.how \in RouteRegistrationMethods
IsPaymentRoute(s) == IsRoute(s) /\ "payment" \in s.path

(* Strategy A: a payment route whose handler is not wrapped.               *)
CheckRouteRegistration(p) ==
    IF IsPaymentRoute(p.s) /\ p.s.wrap # "mfa"
    THEN <<AuthFinding("AUTH-MISSING-MFA", "HIGH", p.at, p.s.to)>> ELSE <<>>

BodyContainsMFACall(body) == \E s \in Range(body) : s.op = "mfa" \/ s.wrap = "mfa"
IsDelegationOnlyHandler(body) == Len(body) = 1 /\ body[1].op = "delegate"

(* Mutant of CheckPaymentHandler: registered handlers are flagged again.   *)
CheckEveryPaymentHandler(file, k, registered) ==
    LET d == file.decls[k]
    IN  IF /\ IsPaymentContext(file, d) /\ IsHTTPHandler(d, "http")
           /\ ~IsDelegationOnlyHandler(d.body) /\ ~BodyContainsMFACall(d.body)
        THEN <<AuthFinding("AUTH-MISSING-MFA", "HIGH", <<k, 0>>, d.name)>> ELSE <<>>

(* Strategy B: a payment handler that no payment route seen so far names.  *)
CheckPaymentHandler(file, k, registered) ==
    LET d == file.decls[k]
    IN  IF /\ IsPaymentContext(file, d) /\ IsHTTPHandler(d, "http")
           /\ ~IsDelegationOnlyHandler(d.body)
           /\ d.name \notin registered
           /\ ~BodyContainsMFACall(d.body)
        THEN <<AuthFinding("AUTH-MISSING-MFA", "HIGH", <<k, 0>>, d.name)>> ELSE <<>>

(* One walk of the file does both, in source order: a declaration is met   *)
(* before its body, and before the routes of later declarations.           *)
RegisteredBefore(file, k) ==
    {p.s.to : p \in {q \in Range(Places(file)) : q.at[1] < k /\ IsPaymentRoute(q.s)}}

DetectMissingMFA(file) ==
    LET all == Places(file)
        routes(k) == Where(all, {i \in DOMAIN all : all[i].at[1] = k})
        ofDecl(k) == CheckPaymentHandler(file, k, RegisteredBefore(file, k))
                       \o FlattenSeq([j \in DOMAIN routes(k) |-> CheckRouteRegistration(routes(k)[j])])
    IN  FlattenSeq([k \in DOMAIN file.decls |-> ofDecl(k)])

------------------------------------------------------------------------------
(* Machine-to-machine handlers.                                            *)

(* What the routes of a file say of a handler name.                        *)
RouteMeta(file, name) ==
    LET routes == SelectSeq(Body(file), LAMBDA s : IsRoute(s) /\ s.to = name)
    IN  [webhook |-> \E s \in Range(routes) : "webhook" \in s.path,
         post |-> \E s \in Range(routes) : s.how \in PostMethods,
         path |-> IF routes = <<>> THEN {} ELSE Last(routes).path]

Does(body, op) == \E s \in Range(body) : s.op = op

(* Signals are counted up to a session write; the map is keyed by name, so *)
(* the last function of a name counts.                                     *)
IsS2S(fn, route) ==
    LET medium == {m \in {"name", "webhook", "post"} :
                     CASE m = "name" -> "webhook" \in fn.words
                       [] m = "webhook" -> route.webhook
                       [] m = "post" -> route.post}
        weak == {w \in {"noAuthHeader", "rawBody"} :
                   CASE w = "noAuthHeader" -> ~Does(fn.body, "header")
                     [] w = "rawBody" -> /\ Does(fn.body, "readall")
                                         /\ \E s \in Range(fn.body) :
                                               s.op = "parse" /\ s.how \in JsonParsers}
    IN  /\ ~Does(fn.body, "session")
        /\ Does(fn.body, "strong") \/ (Cardinality(medium) >= 2 /\ Cardinality(weak) >= 1)

HandlerIsS2S(file, name) ==
    LET same == {k \in DOMAIN file.decls : file.decls[k].name = name}
    IN  same # {} /\ IsS2S(file.decls[Max(same)], RouteMeta(file, name))

(* A finding belongs to the handler of the route on its line, else to the  *)
(* function declared there.                                                *)
S2SDowngraded(file, f) ==
    IF f.rule = "AUTH-MISSING-MFA" /\ f.handler # "" /\ HandlerIsS2S(file, f.handler)
    THEN [f EXCEPT !.sev = "INFO"] ELSE f

ApplyS2SDowngrade(file, findings) == [k \in DOMAIN findings |-> S2SDowngraded(file, findings[k])]

------------------------------------------------------------------------------
(* Signature middleware around webhook handlers.                           *)

SigBlockHasArg(body) == \E s \in Range(body) : s.wrap = "sig"

SigResolveInProjectMiddleware(pkg) ==
    \E f \in Range(ParsePkgFiles(pkg)) : \E d \in Range(f.decls) :
        d.name \in AggregatorFuncNames /\ SigBlockHasArg(d.body)

SigResolveExternalMiddleware(tree, imp) ==
    IF imp \in DOMAIN tree.mods THEN SigResolveInProjectMiddleware(tree.mods[imp])
    ELSE imp \in TrustedSignatureImports

PassASignature(tree, file) ==
    LET effect(s) ==
          CASE s.op = "group" -> Effect("parent", <<s.to>>, <<s.on>>)
            [] s.op = "use" /\ s.wrap = "sig" -> Effect("cover", <<s.on>>, <<>>)
            [] s.op = "verb" /\ s.how \in SignatureVerbs /\ s.to # "" ->
                  Effect("handler", <<s.to>>, IF s.wrap = "sig" THEN WrapperMarker ELSE <<s.on>>)
            [] s.op = "install" -> Effect("ir", <<s.on>>, <<>>)
            [] s.op = "aggregate" /\ s.how \in AggregatorFuncNames /\ s.to \in file.imports
                  /\ SigResolveExternalMiddleware(tree, s.to) -> Effect("cover", <<s.on>>, <<>>)
            [] OTHER -> Effect("", <<>>, <<>>)
    IN  [k \in DOMAIN Body(file) |-> effect(Body(file)[k])]

BuildSignatureCtx(tree, d) ==
    LET files == ParsePkgFiles(tree.dirs[d])
    IN  CtxOf(FlattenSeq([k \in DOMAIN files |-> PassASignature(tree, files[k])]))

(* The contexts looked at for a handler: its own directory's, then those   *)
(* above until one covers the routes that it installs.                     *)
SigCoveredAt(ctx, d, name) ==
    IF d > 1 THEN ParentHasMiddlewareCoveringChild(ctx)
    ELSE /\ <<name>> \in DOMAIN ctx.handler
         /\ \/ GroupHasCoverage(ctx, ctx.handler[<<name>>])
            \/ ctx.handler[<<name>>] = WrapperMarker

SigLastDir(tree) == Min({Len(tree.dirs), WebhookMaxParentWalk + 1})

------------------------------------------------------------------------------
(* Webhook handlers.                                                       *)

IsWebhookCandidate(file, d) ==
    LET route == RouteMeta(file, d.name)
    IN  "webhook" \in d.words \/ route.webhook \/ "brand" \in route.path

FirstBodyParserPos(body) ==
    LET at == {j \in DOMAIN body : body[j].op = "parse" /\ body[j].how \in BodyParsers}
    IN  IF at = {} THEN 0 ELSE Min(at)

(* A helper counts if its name says so and it compares by itself.          *)
HelperVerifies(file, name) ==
    /\ name \in DOMAIN SameFileFuncs(file)
    /\ "verify" \in SameFileFuncs(file)[name].words
    /\ Does(SameFileFuncs(file)[name].body, "strong")

(* Mutant of SignatureVerifiedBeforeParser: where the check is, is no      *)
(* matter.                                                                 *)
VerifiedAnywhere(file, body) ==
    \E s \in Range(body) : s.op = "strong" \/ (s.op = "call" /\ HelperVerifies(file, s.to))

SignatureVerifiedBeforeParser(file, body) ==
    \E j \in 1..(FirstBodyParserPos(body) - 1) :
        body[j].op = "strong" \/ (body[j].op = "call" /\ HelperVerifies(file, body[j].to))

WebhookFinding(file, k, verified) ==
    LET d == file.decls[k]
        brand == "brand" \in RouteMeta(file, d.name).path \/ file.brand
    IN  IF verified THEN AuthFinding("AUTH-WEBHOOK-VERIFIED", "INFO", <<k, 0>>, d.name)
        ELSE AuthFinding("AUTH-WEBHOOK-NO-SIGNATURE", IF brand THEN "CRITICAL" ELSE "HIGH",
                         <<k, 0>>, d.name)

------------------------------------------------------------------------------
(* One scan: work is [file, decl, dir, cache, findings], the file it is    *)
(* in, the declaration and the directory of the webhook pass, the contexts *)
(* built so far.                                                           *)

AuthFile == project.dirs[1].files[work.file]
AuthIdle == [file |-> 1, decl |-> 1, dir |-> 1, cache |-> <<>>, findings |-> <<>>]

Add(fs) == [work EXCEPT !.findings = @ \o fs]

(* The findings of the file in hand; the pass below changes only those.    *)
AuthParse ==
    \/ /\ work.file > Len(project.dirs[1].files)
       /\ Pass("auth", "start", "done", work)
    \/ /\ work.file <= Len(project.dirs[1].files) /\ ~AuthFile.parses
       /\ Pass("auth", "start", "failed", [work EXCEPT !.findings = <<>>])
    \/ /\ work.file <= Len(project.dirs[1].files) /\ AuthFile.parses /\ AuthFile.generated
       /\ Pass("auth", "start", "start", [work EXCEPT !.file = @ + 1])
    \/ /\ work.file <= Len(project.dirs[1].files) /\ AuthFile.parses /\ ~AuthFile.generated
       /\ Pass("auth", "start", "policy", Add(DetectHardcodedPasswords(AuthFile)))

AuthPolicy == Pass("auth", "policy", "mfa", Add(DetectWeakPasswordPolicy(AuthFile)))

(* The downgrade sees the findings of this file only; those of a password  *)
(* or a policy have another rule.                                          *)
AuthMFA == Pass("auth", "mfa", "webhook",
                [Add(ApplyS2SDowngrade(AuthFile, DetectMissingMFA(AuthFile))) EXCEPT !.decl = 1])

NextDecl(w) == [w EXCEPT !.decl = @ + 1, !.dir = 1]

(* A handler that verifies by itself, or is none.                          *)
AuthWebhook ==
    /\ work.decl <= Len(AuthFile.decls)
    /\ LET d == AuthFile.decls[work.decl]
       IN  Pass("auth", "webhook",
              IF IsWebhookCandidate(AuthFile, d) /\ FirstBodyParserPos(d.body) # 0
                   /\ ~SignatureVerifiedBeforeParser(AuthFile, d.body) THEN "cover" ELSE "webhook",
              IF ~IsWebhookCandidate(AuthFile, d) \/ FirstBodyParserPos(d.body) = 0 THEN NextDecl(work)
              ELSE IF SignatureVerifiedBeforeParser(AuthFile, d.body)
              THEN NextDecl(Add(<<WebhookFinding(AuthFile, work.decl, TRUE)>>)) ELSE work)

AuthFileDone ==
    /\ work.decl > Len(AuthFile.decls)
    /\ Pass("auth", "webhook", "start", [work EXCEPT !.file = @ + 1])

(* One directory of HasSignatureMiddlewareCoverage, from the cache or      *)
(* built and kept.                                                         *)
AuthCover ==
    LET d == AuthFile.decls[work.decl]
        ctx == IF work.dir \in DOMAIN work.cache THEN work.cache[work.dir]
               ELSE BuildSignatureCtx(project, work.dir)
        kept(w) == [w EXCEPT !.cache = CacheWith(@, work.dir, ctx)]
        settle(v) == kept(NextDecl(Add(<<WebhookFinding(AuthFile, work.decl, v)>>)))
    IN  \/ /\ SigCoveredAt(ctx, work.dir, d.name)
           /\ Pass("auth", "cover", "webhook", settle(TRUE))
        \/ /\ ~SigCoveredAt(ctx, work.dir, d.name) /\ work.dir < SigLastDir(project)
           /\ Pass("auth", "cover", "cover", kept([work EXCEPT !.dir = @ + 1]))
        \/ /\ ~SigCoveredAt(ctx, work.dir, d.name) /\ work.dir = SigLastDir(project)
           /\ Pass("auth", "cover", "webhook", settle(FALSE))

AuthInit == \E p \in AuthSources : Called("auth", p, AuthIdle)

AuthNext ==
    /\ scanner = "auth"
    /\ \/ AuthParse \/ AuthPolicy \/ AuthMFA
       \/ pc = "webhook" /\ (AuthWebhook \/ AuthFileDone)
       \/ pc = "cover" /\ AuthCover

------------------------------------------------------------------------------
(* Properties.                                                             *)

AuthOf(rule) == Where(work.findings, {i \in DOMAIN work.findings : work.findings[i].rule = rule})

(* The comparison of a length check, for a password of len characters.     *)
LengthHolds(s, len) ==
    LET x == IF s.on = "literal" THEN s.n ELSE len
        y == IF s.on = "literal" THEN len ELSE s.n
    IN  CASE s.how = "<" -> x < y [] s.how = "<=" -> x <= y
          [] s.how = ">" -> x > y [] s.how = ">=" -> x >= y

(* The check rejects short ones, or it accepts long ones.                  *)
LengthAccepts(s, len) == IF LengthHolds(s, 0) THEN ~LengthHolds(s, len) ELSE LengthHolds(s, len)

(* A length check is flagged exactly if it lets a password of fewer than   *)
(* twelve characters through, whichever way round it is written: the least *)
(* accepted length is found by trying every length.                        *)
AuthPolicyExact ==
    Done("auth") /\ Len(project.dirs[1].files) = 1 =>
      LET file == project.dirs[1].files[1]
      IN  \A p \in Range(PlacesOf(file, {"len"})) :
            p.s.n > 0 /\ p.s.how \in {"<", "<=", ">", ">="} /\ ~file.generated =>
            ((\E len \in 0..11 : LengthAccepts(p.s, len))
             <=> \E f \in Range(AuthOf("AUTH-WEAK-POLICY")) : f.at = p.at)

RoutesFirst(file) ==
    \A p \in Range(Places(file)) : \A k \in DOMAIN file.decls :
        IsPaymentRoute(p.s) /\ p.s.to = file.decls[k].name => p.at[1] < k

(* One verdict per payment endpoint: with the routes declared before the   *)
(* handlers, a name is flagged once for each payment route that leaves it  *)
(* unprotected or, if no payment route names it, once for each function or *)
(* method of that name that takes payments and neither asks for a second   *)
(* factor nor passes the request on.                                       *)
AuthMfaOncePerHandler ==
    Done("auth") /\ Len(project.dirs[1].files) = 1 =>
      LET file == project.dirs[1].files[1]
          flagged(name) == {i \in DOMAIN work.findings :
                              /\ work.findings[i].rule = "AUTH-MISSING-MFA"
                              /\ work.findings[i].handler = name}
          routes(name) == {p \in Range(Places(file)) : IsPaymentRoute(p.s) /\ p.s.to = name}
          own(name) == {k \in DOMAIN file.decls :
                          /\ file.decls[k].name = name /\ routes(name) = {}
                          /\ IsPaymentContext(file, file.decls[k])
                          /\ IsHTTPHandler(file.decls[k], "http")
                          /\ ~BodyContainsMFACall(file.decls[k].body)
                          /\ ~IsDelegationOnlyHandler(file.decls[k].body)}
      IN  RoutesFirst(file) /\ ~file.generated =>
            \A d \in Range(file.decls) :
              Cardinality(flagged(d.name))
                = Cardinality({p \in routes(d.name) : p.s.wrap # "mfa"}) + Cardinality(own(d.name))

(* What the comment in detectMissingMFA says: a handler seen in a payment  *)
(* route, flagged or protected, gets no second finding from strategy B.    *)
AuthNoDuplicateMfa ==
    Done("auth") /\ Len(project.dirs[1].files) = 1 =>
      LET file == project.dirs[1].files[1]
      IN  \A f \in Range(AuthOf("AUTH-MISSING-MFA")) :
            f.at[2] = 0 => ~\E p \in Range(Places(file)) : IsPaymentRoute(p.s) /\ p.s.to = f.handler

SigTidy(pkg) ==
    LET verbs == {p \in Placed(pkg) : p[2].op = "verb"}
        groups == {p \in Placed(pkg) : p[2].op = "group"}
        names(k) == {s.on : s \in Range(PkgDecls(pkg)[k].fn.body)}
                      \cup {s.to : s \in {t \in Range(PkgDecls(pkg)[k].fn.body) : t.op = "group"}}
    IN  /\ \A p, q \in verbs : p[2].to = q[2].to => p = q
        /\ \A p, q \in groups : p[2].to = q[2].to => p = q
        /\ \A i, j \in DOMAIN PkgDecls(pkg) : i # j => names(i) \cap names(j) \subseteq {""}

(* The groups that lie below a group with signature middleware.            *)
UnderSignature(tree, pkg) ==
    LET sig == {<<p[1], p[2].on>> : p \in {q \in Placed(pkg) :
                  \/ q[2].op = "use" /\ q[2].wrap = "sig"
                  \/ /\ q[2].op = "aggregate" /\ q[2].to \in PkgDecls(pkg)[q[1]].imports
                     /\ SigResolveExternalMiddleware(tree, q[2].to)}}
        step == {<<<<p[1], p[2].to>>, <<p[1], p[2].on>>>> :
                    p \in {q \in Placed(pkg) : q[2].op = "group"}}
        all == sig \cup UNION {{e[1], e[2]} : e \in step}
    IN  {g \in all : \A closed \in SUBSET all :
            sig \subseteq closed /\ (\A e \in step : e[2] \in closed => e[1] \in closed)
            => g \in closed}

(* A webhook handler is called verified only if something really stands    *)
(* between the request and its first body parser: a comparison earlier in  *)
(* its body or in a helper it calls earlier, a wrapper at its route, or a  *)
(* group with signature middleware above its route or, up to               *)
(* WebhookMaxParentWalk directories up, above the routes it installs.      *)
AuthVerifiedIsReal ==
    Done("auth") /\ (\A d \in DOMAIN project.dirs : SigTidy(project.dirs[d])) =>
      LET pkg == project.dirs[1]
          route(name) == {p \in Placed(pkg) : p[2].op = "verb" /\ p[2].to = name}
          installs(d) == {<<p[1], p[2].on>> :
                            p \in {q \in Placed(project.dirs[d]) : q[2].op = "install"}}
          before(file, d, j) == \A i \in DOMAIN d.body :
                                  d.body[i].op = "parse" /\ d.body[i].how \in BodyParsers => j < i
      IN  \A f \in Range(AuthOf("AUTH-WEBHOOK-VERIFIED")) :
            \/ \E file \in Range(pkg.files) : \E d \in Range(file.decls) :
                 /\ d.name = f.handler
                 /\ \E j \in DOMAIN d.body :
                      /\ before(file, d, j)
                      /\ \/ d.body[j].op = "strong"
                         \/ /\ d.body[j].op = "call"
                            /\ \E h \in Range(file.decls) : h.name = d.body[j].to /\ Does(h.body, "strong")
            \/ \E p \in route(f.handler) :
                 p[2].wrap = "sig" \/ <<p[1], p[2].on>> \in UnderSignature(project, pkg)
            \/ \E d \in 2..SigLastDir(project) :
                 installs(d) \cap UnderSignature(project, project.dirs[d]) # {}

==============================================================================
