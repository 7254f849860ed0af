---------------------------- MODULE RouteProjects ---------------------------
(* Small source trees for the audit and the authentication scanner.        *)
EXTENDS AuthScan, ProjectSets

MCFieldCategory ==
    ("user_id" :> {"user"}) @@ ("path" :> {"event", "resource"}) @@ ("error" :> {"outcome"})
      @@ ("foo" :> {})

Stm(op, on, to, how) == [op |-> op, on |-> on, to |-> to, how |-> how]
Fn(name, body) ==
    [name |-> name, recv |-> "", param |-> "", words |-> {}, types |-> {}, fields |-> {},
     params |-> {}, body |-> body]
Handler(name, words, body) == [Fn(name, body) EXCEPT !.words = words, !.params = {"http"}]
Method(recv, name, param, body) == [Fn(name, body) EXCEPT !.recv = recv, !.param = param]
GoFile(imports, decls) ==
    [parses |-> TRUE, generated |-> FALSE, imports |-> imports, alias |-> [i \in imports |-> i],
     paymentDir |-> FALSE, decls |-> decls]
Pkg(files) == [files |-> files, consts |-> "KeyUser" :> "user_id"]

(* The package app/logging: a method that passes another one on.           *)
Logging(fields) ==
    Pkg(<<GoFile({"zap"}, <<Method("M", "Install", "r", <<Stm("value", "", "request", "logger")>>),
                            Method("M", "request", "", fields)>>)>>)
NoLogging == Pkg(<<GoFile({}, <<Method("M", "Setup", "r", <<Stm("use", "r", "", "")>>)>>)>>)
FieldStms == {Stm("field", "", "KeyUser", "Fields"), Stm("field", "zap", "path", "key"),
              Stm("field", "zap", "", "error"), Stm("field", "", "foo", "chain"),
              Stm("field", "app/logging", "KeyUser", "Fields")}
Mods(fields) == ("app/logging" :> Logging(fields)) @@ ("app/plain" :> NoLogging)

RouteStms ==
    {Stm("group", "r", "g", ""), Stm("group", "g", "s", ""), Stm("group", "g", "r", ""),
     Stm("use", "r", "", "logger"), Stm("use", "s", "", ""), Stm("verb", "s", "Pay", ""),
     Stm("verb", "g", "Pay", ""), Stm("install", "g", "", ""),
     Stm("aggregate", "g", "app/logging", "Install"), Stm("aggregate", "g", "app/plain", "Setup")}
Routes == {<<>>} \cup {<<s>> : s \in RouteStms} \cup {<<s, t>> : s, t \in RouteStms}
            \cup {<<s, t, u>> : s, t, u \in RouteStms}
RouteFile(body) == GoFile({"app/logging", "app/plain"}, <<Fn("routes", body)>>)

Install(p, l, logger) ==
    Method("H", "InstallRoutes", p, <<Stm("group", p, l, ""), Stm("use", l, "", logger),
                                      Stm("verb", l, "Pay", "")>>)
Methods == {<<>>, <<Install("p", "l", "")>>, <<Install("p", "l", "logger")>>,
            <<Install("p", "l", ""), [Install("q", "k", "logger") EXCEPT !.recv = "K"]>>}

(* Methods that use, pass on and reuse the parameter, or install again.    *)
ParamStms ==
    {Stm("use", "p", "", "logger"), Stm("verb", "p", "Pay", ""), Stm("group", "p", "l", ""),
     Stm("use", "l", "", "logger"), Stm("verb", "l", "Pay", ""), Stm("verb", "", "Pay", ""),
     Stm("group", "l", "k", ""), Stm("group", "p", "p", ""), Stm("install", "p", "", ""),
     Stm("aggregate", "p", "app/logging", "Install")}
ParamRoutes ==
    {<<Stm("group", "r", "g", ""), s, Stm("install", i, "", "")>> :
        s \in {Stm("verb", "g", "Pay", ""), Stm("use", "r", "", "logger"), Stm("use", "", "", "logger"),
               Stm("aggregate", "g", "app/logging", "Other"), Stm("group", "g", "s", "")},
        i \in {"g", "s"}}
ParamMethods == {<<Method("H", "InstallRoutes", "p", <<s, u>>)>> : s, u \in ParamStms}
                  \cup {<<Method("H", "InstallRoutes", "p", <<Stm("group", "p", "l", ""), s, u>>)>> :
                          s, u \in ParamStms}

PayFile == GoFile({}, <<Handler("Pay", {"tier1"}, <<>>)>>)
Tree(files, above, fields) == [dirs |-> <<Pkg(files)>> \o above, mods |-> Mods(fields)]
Above == Pkg(<<RouteFile(<<Stm("group", "r", "g", ""), Stm("install", "g", "", ""),
                           Stm("use", "r", "", "logger")>>)>>)
Bare == Pkg(<<>>)

AboveByMethod ==
    Pkg(<<RouteFile(<<Stm("group", "r", "g", ""), Stm("install", "g", "", "")>>),
          GoFile({}, <<Method("H", "InstallRoutes", "p", <<Stm("use", "p", "", "logger")>>)>>)>>)

Aboves == {<<>>, <<Above>>, <<AboveByMethod>>, <<Bare, Above>>, <<Bare, Bare, Above>>,
           <<Pkg(<<[RouteFile(<<Stm("use", "r", "", "logger"), Stm("install", "r", "", "")>>)
                      EXCEPT !.parses = FALSE]>>)>>}

RouteCovers ==
    {Tree(<<PayFile, RouteFile(b), GoFile({}, m)>>, <<>>, <<>>) : b \in Routes, m \in Methods}
ParamCovers ==
    {Tree(<<PayFile, RouteFile(b), GoFile({"app/logging"}, m)>>, <<>>, <<>>) :
        b \in ParamRoutes, m \in ParamMethods}
AboveCovers ==
    {Tree(<<PayFile, RouteFile(b)>>, above, <<>>) :
        b \in {<<>>, <<Stm("verb", "g", "Pay", "")>>}, above \in Aboves}
LoggingCovers ==
    {Tree(<<PayFile, RouteFile(b), GoFile({}, <<Handler("Pay", {"tier1"},
              <<Stm("log", "slog", "Info", "")>>)>>)>>, <<>>, <<>>) :
        b \in {<<>>, <<Stm("use", "g", "", "logger"), Stm("verb", "g", "Pay", "")>>}}
Covers == Both(RouteCovers, Both(ParamCovers, AboveCovers \cup LoggingCovers))

(* Handlers that log, or whose file names a logger.                        *)
LogStms == {Stm("log", "log", "Printf", ""), Stm("log", "log", "Fatal", ""),
            Stm("log", "slog", "Info", ""), Stm("call", "", "audit", ""),
            Stm("call", "", "wrap", "logger")}
Imports == {{"log"}, {"log/slog"}, {"zerolog/log"}, {"log", "zerolog/log"}, {"gin"}, {"sdk"}}
Aliased(file) == [file EXCEPT !.alias = [i \in DOMAIN @ |->
                    CASE i = "log/slog" -> "slog" [] i = "zerolog/log" /\ "log" \in DOMAIN @ -> "zlog"
                      [] i = "zerolog/log" /\ "log" \notin DOMAIN @ -> "log" [] OTHER -> i]]
Loggers ==
    {Tree(<<[Aliased(GoFile(i, <<Handler("Pay", w, <<s>>), Handler("Hook", {"tier3"}, <<>>),
                                 Fn("audit", <<Stm("log", "slog", "Info", "")>>)>>))
               EXCEPT !.parses = p, !.generated = ~p]>>, <<>>, <<>>) :
        i \in Imports, w \in {{"tier1", "keyword"}, {"tier2"}, {}}, s \in LogStms, p \in BOOLEAN}
      \cup {Tree(<<[PayFile EXCEPT !.generated = TRUE]>>, <<>>, <<>>)}

(* Handlers in the file of their routes: the fields of the middleware.     *)
Scored1(imp, fn) ==
    GoFile({imp}, <<Handler("Pay", {"tier1"}, <<>>), Handler("Refund", {"tier1"}, <<>>),
                    Fn("routes", <<Stm("aggregate", "g", imp, fn), Stm("verb", "g", "Pay", "")>>)>>)
Fields == {<<>>} \cup {<<s>> : s \in FieldStms} \cup {<<s, t>> : s, t \in FieldStms}
Scores == {Tree(<<Scored1(imp, "Install")>>, above, f) :
              imp \in {"app/logging", "ext/logger"}, above \in {<<>>, <<Above>>}, f \in Fields}

(* Handlers with different middleware: an import's, and the package's own. *)
OwnMiddleware(fn) ==
    Tree(<<Scored1("app/logging", "Install"), GoFile({}, <<Handler("Charge", {"tier1"}, <<>>)>>),
           GoFile({"zap"}, <<Fn(fn, <<Stm("use", "h", "", "logger"), Stm("verb", "h", "Charge", ""),
                                      Stm("field", "zap", "path", "key")>>)>>)>>,
         <<>>, <<Stm("field", "zap", "foo", "key")>>)
Mixed == {OwnMiddleware(fn) : fn \in {"Setup", "Install"}}

(* Two scans, and an edit that adds or removes the middleware.             *)
Edits == LET bare == Tree(<<PayFile>>, <<Bare>>, <<>>)
             under == Tree(<<PayFile>>, <<Above>>, <<>>)
             few == Tree(<<Scored1("app/logging", "Install")>>, <<>>, <<Stm("field", "zap", "path", "key")>>)
             none == Tree(<<Scored1("app/logging", "Install")>>, <<>>, <<Stm("field", "zap", "foo", "key")>>)
         IN  {<<bare, under>>, <<under, bare>>, <<few, none>>}

------------------------------------------------------------------------------
(* Files for the authentication scanner.                                   *)

A(op) == [op |-> op, on |-> "", to |-> "", how |-> "", path |-> {}, wrap |-> "", n |-> 0]
Verb(verb, on, to, path, wrap) ==
    [A("verb") EXCEPT !.how = verb, !.on = on, !.to = to, !.path = path, !.wrap = wrap]
Parse(how) == [A("parse") EXCEPT !.how = how]
Call(to) == [A("call") EXCEPT !.to = to]

NowhereSpecial == [above |-> {}, below |-> {}, base |-> ""]
AuthGo(decls) == [parses |-> TRUE, generated |-> FALSE, imports |-> {"app/sig", "ext/hmac"},
                  paymentDir |-> FALSE, place |-> NowhereSpecial, brand |-> FALSE, decls |-> decls]
One(file) == [dirs |-> <<Pkg(<<file>>)>>, mods |-> <<>>]

PlacesMC == {[above |-> a, below |-> b, base |-> n] :
               a \in {{}, {"dev"}, {"prod"}}, b \in {{}, {"docker"}, {"test"}, {"k8s", "dev"}, {"examples"}},
               n \in {"", "dev", "prod"}}
Passwords ==
    {[AuthGo(<<Fn("f", <<[A(op1) EXCEPT !.to = v1], [A("password") EXCEPT !.to = "s3cr3t"]>>)>>)
        EXCEPT !.place = p] : op1 \in {"password", "setenv"}, v1 \in Literals, p \in PlacesMC}

Policies ==
    {AuthGo(<<Fn("f", <<[A("len") EXCEPT !.how = op, !.on = side, !.to = kind, !.n = n]>>)>>) :
        op \in {"<", "<=", ">", ">="}, side \in {"", "literal"}, kind \in {"bytes", "runes"},
        n \in {8, 10, 11, 12, 13}}

(* Routes before, after and around a handler, and two methods of one name. *)
AuthRoutes == {<<>>} \cup {<<Verb(v, "r", h, {p}, w)>> :
                 v \in {"POST", "HandleFunc", "Any"}, h \in {"Pay", "Hook"},
                 p \in {"payment", "webhook"}, w \in {"", "mfa"}}
                \cup {<<Verb("Post", "r", "Pay", {"payment", "webhook"}, ""), Verb("GET", "r", "Pay", {"payment"}, w)>> :
                        w \in {"", "mfa", "other"}}
Bodies == {<<A("delegate")>>, <<A("mfa")>>, <<A("strong")>>, <<A("session"), A("strong")>>,
           <<A("header"), A("readall"), Parse("NewDecoder")>>, <<>>}
HandlerMfas ==
    {AuthGo(<<Fn("before", b), Handler("Pay", {"keyword"} \cup w, body),
              Handler("Hook", {"webhook"}, <<A("strong")>>), Fn("after", a)>>) :
        b \in AuthRoutes, a \in AuthRoutes, w \in {{}, {"webhook"}}, body \in Bodies}
MethodMfas ==
    {AuthGo(<<Fn("before", b)>> \o
            [k \in 1..2 |-> [Method(<<"M", "N">>[k], "Pay", "", body) EXCEPT
                              !.words = {"keyword"}, !.params = {"http"}]]) :
        b \in {<<>>, <<Verb("POST", "r", "Pay", {"payment"}, "mfa")>>}, body \in Bodies}

(* Webhook handlers and the routes and directories around them.            *)
HookBodies == {<<A("strong"), Parse("Unmarshal")>>, <<Parse("Unmarshal"), A("strong")>>,
               <<Call("verifySig"), Parse("Decode")>>, <<Call("helper"), Parse("Bind")>>,
               <<Parse("NewDecoder")>>, <<Parse("Decode")>>}
SigStms == {[A("group") EXCEPT !.on = "r", !.to = "g"], [A("use") EXCEPT !.on = "r", !.wrap = "sig"],
            [A("use") EXCEPT !.on = "g"], Verb("POST", "g", "Hook", {"webhook", "brand"}, ""),
            Verb("HandleFunc", "r", "Hook", {}, "sig"), Verb("Post", "g", "Hook", {"webhook"}, "sig"),
            [A("install") EXCEPT !.on = "g"],
            [A("aggregate") EXCEPT !.on = "r", !.to = "app/sig", !.how = "Install"],
            [A("aggregate") EXCEPT !.on = "g", !.to = "ext/hmac", !.how = "Setup"]}
Wiring == {<<>>} \cup {<<s>> : s \in SigStms} \cup {<<s, t>> : s, t \in SigStms}
            \cup {<<s, t, Verb("POST", "g", "Hook", {"webhook"}, "other")>> : s, t \in SigStms}
Hooks(words, body) ==
    AuthGo(<<Handler("Hook", words, body), [Fn("verifySig", <<A("strong")>>) EXCEPT !.words = {"verify"}],
             Fn("helper", <<A("strong")>>)>>)
SigMods == {"app/sig" :> Pkg(<<AuthGo(<<Method("M", "Install", "r", <<[A("use") EXCEPT !.on = "r", !.wrap = w]>>)>>)>>) :
              w \in {"sig", ""}}
SigAbove == {<<>>, <<Pkg(<<AuthGo(<<Fn("up", <<[A("install") EXCEPT !.on = "r"], [A("use") EXCEPT !.on = "r", !.wrap = "sig"]>>)>>)>>)>>,
             <<Bare, Bare, Pkg(<<AuthGo(<<Fn("up", <<[A("install") EXCEPT !.on = "r"], [A("use") EXCEPT !.on = "r", !.wrap = "sig"]>>)>>)>>)>>}
Webhooks ==
    {[dirs |-> <<Pkg(<<AuthGo(<<Fn("wire", w)>>), Hooks({"webhook"}, <<Parse("Decode")>>)>>)>>, mods |-> m] :
        w \in Wiring, m \in SigMods}
      \cup {[dirs |-> <<Pkg(<<[AuthGo(<<Fn("wire", w)>> \o Hooks(n, b).decls) EXCEPT !.brand = br]>>)>> \o up, mods |-> m] :
              w \in {<<>>, <<Verb("POST", "g", "Hook", {"webhook", "brand"}, "")>>}, n \in {{}, {"webhook"}},
              b \in HookBodies, br \in BOOLEAN, up \in SigAbove, m \in SigMods}
      \cup {[dirs |-> <<Pkg(<<[AuthGo(<<>>) EXCEPT !.parses = p, !.generated = p], Hooks({}, <<>>)>>)>>, mods |-> <<>>] :
              p \in BOOLEAN}

AuditTrees == Both(Covers, Both(Loggers, Scores \cup Mixed))
AuthFiles == Both(HandlerMfas, Both(Passwords, Policies \cup MethodMfas))

MCAuditSources ==
    {[history |-> h, callers |-> {1, 2}] : h \in Edits}
      \cup {[history |-> <<t>>, callers |-> {1}] : t \in AuditTrees}
MCAuthSources == Both({One(f) : f \in AuthFiles}, Webhooks)
=============================================================================
