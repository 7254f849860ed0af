---------------------------- MODULE SqlProjects -----------------------------
(* Small projects for the SQL scanner.                                     *)
EXTENDS SqlSchema

St(op, table, col, type) == [op |-> op, table |-> table, col |-> col, type |-> type]

MCStmts == {St("create", "cards", "pan", "text"), St("create", "cards", "pan", "bytea"),
            St("add", "cards", "exp_month", "int"), St("add", "cards", "cvv", "text"),
            St("drop", "cards", "pan", ""), St("add", "cards", "pan", "text"),
            St("drop", "users", "pan", "")}

Scripts == {<<s>> : s \in MCStmts} \cup {<<s, t>> : s, t \in MCStmts}
Migrations == {<<b>> : b \in Scripts} \cup {<<b, <<s>>>> : b \in Scripts, s \in MCStmts}
                \cup {<<<<s>>, <<t>>, <<u>>>> : s, t, u \in MCStmts}

Tag(gorm, db) == [gorm |-> gorm, db |-> db, sql |-> ""]
Enc(fields) == {[fields |-> fields, crypts |-> TRUE], [fields |-> {"Month"}, crypts |-> FALSE]}
CardModel(hooks, type) ==
    [name |-> "cards", method |-> "", const |-> "", cardLike |-> TRUE, hooks |-> hooks,
     fields |-> <<[tag |-> Tag("pan", "number"), field |-> "Pan", type |-> type],
                  [tag |-> Tag("", "exp_month"), field |-> "Month", type |-> "string"],
                  [tag |-> Tag("", ""), field |-> "Note", type |-> "string"]>>]
File(struct, decls) == [parses |-> TRUE, struct |-> struct, decls |-> decls]
GoFunc(recv, name, strong, calls) == [recv |-> recv, name |-> name, strong |-> strong, calls |-> calls]
Hook(h, fields) == [x \in {h} |-> Enc(fields)]

GoFiles == {<<>>,
    <<File(CardModel(Hook("String", {"Pan"}), "string"), <<>>)>>,
    <<File(CardModel(Hook("BeforeSave", {"Pan"}), "string"), <<>>)>>,
    <<File(CardModel(Hook("BeforeSave", {"Month"}), "string"), <<>>)>>,
    <<[File(CardModel(Hook("BeforeSave", {"Pan"}), "string"), <<>>) EXCEPT !.parses = FALSE]>>,
    <<File(CardModel(Hook("String", {}), "Secret"), <<GoFunc("Secret", "Scan", FALSE, {}),
            GoFunc("Secret", "Value", FALSE, {"Value", "seal"}), GoFunc("", "seal", TRUE, {})>>),
      File([CardModel(Hook("String", {}), "string") EXCEPT !.method = "users", !.cardLike = FALSE],
           <<GoFunc("", "seal", FALSE, {})>>)>>,
    <<File([CardModel(Hook("String", {}), "Secret") EXCEPT !.const = "users"],
           <<GoFunc("Secret", "Value", TRUE, {})>>),
      File(CardModel(Hook("AfterFind", {"Pan"}), "string"), <<>>)>>}

MCSqlSources == {[sql |-> m, go |-> g, ordered |-> o] : m \in Migrations, g \in GoFiles, o \in BOOLEAN}
=============================================================================
