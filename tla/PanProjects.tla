----------------------------- MODULE PanProjects -----------------------------
(* Small projects for the PAN scanner and the taint engine.                *)
EXTENDS PanScan, ProjectSets

(* Objects, expressions and nodes of a program.                            *)
Field(type, name) == <<type, name>>
Local(name) == <<"", name>>
Ex(objs) == [objs |-> objs, index |-> {}, concat |-> {}, calls |-> {}]
Indexed(obj) == [Ex({}) EXCEPT !.index = {obj}]
Concat(obj) == [Ex({}) EXCEPT !.concat = {obj}]
CallOf(fn, args) == [Ex(args) EXCEPT !.calls = {fn}]
Node(op) == [op |-> op, to |-> {}, args |-> <<>>, elts |-> <<>>, fn |-> "", recv |-> Ex({})]
Assign(to, e) == [Node("assign") EXCEPT !.to = {to}, !.args = <<e>>]
Literal(to, e) == [Node("lit") EXCEPT !.elts = <<<<to, e>>>>]
FuncDecl(fn) == [Node("func") EXCEPT !.fn = fn]
Return(fn, e) == [Node("return") EXCEPT !.fn = fn, !.args = <<e>>]
CallNode(fn, args) == [Node("call") EXCEPT !.fn = fn, !.args = args]

PAN == Field("Card", "PAN")
CVV == Field("Card", "CVV")
Row == Field("Row", "Data")
X == Local("x")
Y == Local("y")
Q == Local("q")

Func(kind, params) == [kind |-> kind, iface |-> FALSE, params |-> params]
IfaceMethod(kind, params) == [Func(kind, params) EXCEPT !.iface = TRUE]
PanFuncs ==
    [exec |-> Func("plain", <<Local("query"), Local("arg")>>), save |-> Func("plain", <<Q>>),
     mask |-> Func("plain", <<Local("m")>>), number |-> Func("plain", <<Local("c")>>),
     store |-> IfaceMethod("plain", <<Local("s")>>), param |-> IfaceMethod("accessor", <<Local("name")>>),
     bind |-> Func("decoder", <<Local("dst")>>), recover |-> Func("recovery", <<>>),
     sprintf |-> Func("through", <<>>), write |-> Func("into", <<>>)]

(* Statements of a function; save(q) writes q.                             *)
PanStmts ==
    {<<Assign(X, Ex({PAN, Local("card")}))>>,
     <<Assign(Y, Ex({X}))>>,
     <<Assign(Y, Indexed(X))>>,
     <<Assign(Y, Concat(X))>>,
     <<Literal(Row, Ex({X}))>>,
     <<CallNode("exec", <<Ex({}), Ex({Row, Local("row")})>>)>>,
     <<CallNode("exec", <<Ex({}), Ex({Y})>>)>>,
     <<CallNode("save", <<Ex({X})>>)>>,
     <<CallNode("save", <<Ex({Local("other")})>>)>>,
     <<CallNode("mask", <<Ex({X})>>)>>,
     <<Assign(Y, CallOf("number", {Local("card")})), CallNode("number", <<Ex({Local("card")})>>)>>,
     <<CallNode("exec", <<Ex({}), CallOf("number", {Local("card")})>>), CallNode("number", <<Ex({Local("card")})>>)>>,
     <<CallNode("store", <<Ex({X})>>)>>,
     <<Assign(Y, CallOf("param", {})), CallNode("param", <<Ex({})>>)>>,
     <<[CallNode("bind", <<Ex({Local("card")})>>) EXCEPT !.to = {PAN, CVV}]>>,
     <<[CallNode("recover", <<>>) EXCEPT !.to = {Y}]>>,
     <<[CallNode("sprintf", <<Concat(X)>>) EXCEPT !.recv = Ex({})]>>,
     <<[CallNode("write", <<Ex({X})>>) EXCEPT !.to = {Y}, !.recv = Ex({Y})]>>,
     <<CallNode("unresolved", <<Ex({X})>>)>>}

SaveFile == <<FuncDecl("save"), CallNode("exec", <<Ex({}), Ex({Q})>>),
              FuncDecl("number"), Return("number", Ex({PAN, Local("c")}))>>
Program(files, sinks, loaded) ==
    [files |-> files, funcs |-> PanFuncs, fields |-> {PAN, CVV, Row, Field("Order", "PAN"), Field("Order", "CVV")}, sinks |-> sinks, loaded |-> loaded]

Flows(a, b, c) == Program(<<a \o b, c, SaveFile>>, {"exec"}, TRUE)

(* Files to scan.                                                          *)
StructField(names, type, json, db, line) ==
    [names |-> names, type |-> type, json |-> json, db |-> db, line |-> line, cardTag |-> FALSE]
Struct(name, fields) == [name |-> name, tokenization |-> FALSE, fields |-> fields]
PanGo(structs) ==
    [kind |-> "go", unreadable |-> FALSE, generated |-> FALSE, transit |-> FALSE, structs |-> structs,
     params |-> <<>>, literals |-> <<>>, logged |-> <<>>, bodies |-> <<>>, entries |-> <<>>]
EnvFile(entries) == [PanGo(<<>>) EXCEPT !.kind = "env", !.entries = entries]

CardStruct(json, db) ==
    Struct("Card", <<StructField(<<"PAN">>, "string", json, db, 1),
                     StructField(<<"CVV">>, "string", IF json = "none" THEN "none" ELSE "cvv", FALSE, 2)>>)
CardFile(json, db) == PanGo(<<CardStruct(json, db)>>)
Visa == <<4, 1, 1, 1, 1, 1, 1, 1, 1, 1, 1, 1, 1, 1, 1, 1>>
Env == EnvFile(<<[key |-> "PAN", digits |-> Visa, empty |-> FALSE], [key |-> "Amount", digits |-> <<>>, empty |-> TRUE]>>)

NoCode == Program(<<>>, {"exec"}, TRUE)
PanProject(files, program) ==
    [files |-> files, program |-> program, taint |-> TRUE, engine |-> TRUE, module |-> TRUE]

(* Where the value of a card goes.                                         *)
FlowProjects ==
    {PanProject(<<CardFile("pan", FALSE)>>, Flows(a, b, c)) : a, b, c \in PanStmts}
(* What the bridge makes of it.                                            *)
BridgeProjects ==
    {[PanProject(<<Env, [CardFile(json, db) EXCEPT !.transit = t, !.generated = g]>>, Program(files, sinks, l))
        EXCEPT !.taint = a, !.engine = e, !.module = m] :
        json \in {"none", "pan", "-", "number"}, db \in BOOLEAN, t \in BOOLEAN, g \in BOOLEAN, a \in BOOLEAN,
        e \in BOOLEAN, m \in BOOLEAN, l \in BOOLEAN, sinks \in {{}, {"exec"}},
        files \in {<<>>, <<<<CallNode("exec", <<Ex({}), Ex({CVV})>>)>>>>}}
(* Structs, tags and names.                                                *)
Names == {"PAN", "pan", "Amount", "Fee", "IBAN", "BIC", "AccountNumber", "CVV", "cvv", "number", "account_number"}
Structs ==
    {Struct("Card", <<StructField(n, t, j, FALSE, 1), StructField(<<m>>, "string", "none", FALSE, 2),
                      StructField(<<"PAN">>, "int", "none", FALSE, 3)>>) :
        n \in {<<"CVV">>, <<"CVV", "pan">>, <<"pan", "CVV">>}, m \in {"Amount", "cvv"},
        t \in {"string", "int"}, j \in {"none", "-", "cvv", "pan"}}
      \cup {Struct(s, <<StructField(<<"AccountNumber">>, "string", j, FALSE, 1),
                        StructField(<<"IBAN", x>>, "string", "none", db, 2)>>) :
              s \in {"", "Card"}, j \in {"none", "account_number"}, x \in {"BIC", "CVV", "Amount"}, db \in BOOLEAN}
      \cup {Struct("Card", <<StructField(<<>>, "Base", "pan", FALSE, 1), StructField(<<"Amount", "Fee">>, "int", "none", FALSE, 2)>>),
            [Struct("Card", <<StructField(<<"AccountNumber", "IBAN", "BIC">>, "string", "none", FALSE, 1)>>) EXCEPT !.tokenization = TRUE],
            Struct("Card", <<[StructField(<<"AccountNumber", "IBAN", "BIC">>, "string", "none", FALSE, 1) EXCEPT !.cardTag = TRUE]>>)}
StructProjects ==
    {PanProject(<<PanGo(<<st>>), PanGo(<<[CardStruct("pan", FALSE) EXCEPT !.name = "Order"]>>)>>,
                Program(<<<<CallNode("exec", <<Ex({}), Ex({o})>>)>>>>, {"exec"}, TRUE)) :
        st \in Structs, o \in {PAN, CVV, Field("Order", "PAN"), Field("Order", "CVV")}}
(* A struct without a name, on the line of the field that holds it.        *)
NestedProjects ==
    {PanProject(<<PanGo(<<Struct("Order", <<StructField(<<"number">>, "struct", j, FALSE, 1)>>),
                          Struct("", <<StructField(<<"PAN">>, "string", "none", db, l)>>)>>)>>, NoCode) :
        j \in {"none", "pan"}, db \in BOOLEAN, l \in {1, 2}}
(* Card numbers with one digit changed, and other passes.                  *)
Lit(line, var, digits) == [line |-> line, var |-> var, digits |-> digits]
Numbers == {Visa, <<3, 7>> \o [i \in 1 .. 13 |-> 1], <<6, 0, 1, 1>> \o [i \in 1 .. 15 |-> 3], <<4, 5, 9>> \o [i \in 1 .. 10 |-> 7]}
CardNumbers == {[n EXCEPT ![Len(n)] = CHOOSE d \in 0 .. 9 : LuhnValid([n EXCEPT ![Len(n)] = d])] : n \in Numbers}
WithDigit(n, i, d) == IF i \in DOMAIN n THEN [n EXCEPT ![i] = d] ELSE n
LiteralProjects ==
    {PanProject(<<[PanGo(<<>>) EXCEPT !.literals = <<Lit(1, v, n), Lit(l, "", WithDigit(n, i, d))>>]>>, NoCode) :
        n \in CardNumbers, i \in 1 .. 19, d \in 0 .. 9, v \in {"", "PAN"}, l \in {1, 2}}
LocalBytes(bytes, zeroed, within) == [bytes |-> bytes, zeroed |-> zeroed, within |-> within]
OtherProjects ==
    {PanProject(<<[CardFile(j, FALSE) EXCEPT !.params = ps, !.logged = lg, !.bodies = b, !.unreadable = u]>>, NoCode) :
        j \in {"none", "pan"}, ps \in {<<>>, <<"PAN">>, <<"PAN", "CVV", "PAN">>}, lg \in {<<>>, <<"CVV", "Amount">>},
        b \in {<<>>, <<LocalBytes(<<"PAN">>, {}, 0), LocalBytes(<<"CVV">>, {"PAN"}, 1), LocalBytes(<<"PAN">>, {"PAN"}, 0)>>}, u \in BOOLEAN}

MCNormalize ==
    [n \in Names |-> CASE n \in {"PAN", "pan"} -> "pan" [] n \in {"CVV", "cvv"} -> "cvv"
                       [] n = "Amount" -> "amount" [] n = "Fee" -> "fee"
                       [] n = "IBAN" -> "iban" [] n = "BIC" -> "bic" [] n = "number" -> "number"
                       [] n \in {"AccountNumber", "account_number"} -> "accountnumber"]

MCPanSources ==
    Both(FlowProjects, Both(LiteralProjects, Both(BridgeProjects,
         Both(StructProjects, NestedProjects \cup OtherProjects))))
==============================================================================
