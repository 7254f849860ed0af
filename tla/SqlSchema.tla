------------------------------ MODULE SqlSchema ------------------------------
(***************************************************************************)
(* The SQL scanner: sensitive columns of migrations (pass 1) and of gorm   *)
(* structs (pass 2), verified column types (pass 2b), the cross reference  *)
(* between the two (pass 3) and dropped columns (pass 4).                  *)
(*                                                                         *)
(* A project is a record of                                                *)
(*   sql      the migration files in the order of their numbers, each a    *)
(*            sequence of statements [op, table, col, type] with op one of *)
(*            "create", "add" and "drop"                                   *)
(*   ordered  whether every file of the directory is numbered, and the     *)
(*            directory is a migration directory                           *)
(*   go       the Go files: one struct each, and function declarations     *)
(* Names are kept apart only as far as the keyword tables do: the sets     *)
(* below are the columns and tables of the model that they match.          *)
(***************************************************************************)
EXTENDS ScanCall, InOrder, SequencesExt

CONSTANTS SensitiveKeywords,    \* matched in every table
          PanKeywords,          \* "number" and "account"
          CardContextKeywords,  \* matched in card tables only
          ExpiryKeywords,       \* normalized: matched while the PAN is unprotected
          SqlExpiryColumns,     \* raw: dropped where the PAN is protected
          CardTables,           \* tables whose name speaks of cards
          PlaintextTypes,       \* SQL types that store readable text
          SqlSources            \* the projects that the scanner is called on

(* keywords.go keeps the tables apart: an expiry column is never sensitive *)
(* by itself.                                                              *)
ASSUME KeywordAssumption ==
    SensitiveKeywords \cap (ExpiryKeywords \cup SqlExpiryColumns) = {}

Statement == [op : {"create", "add", "drop"}, table : STRING, col : STRING, type : STRING]
GormField == [tag : [gorm : STRING, db : STRING, sql : STRING], field : STRING, type : STRING]

ASSUME SqlSourcesAssumption ==
    \A p \in SqlSources :
        /\ p.sql \in Seq(Seq(Statement))
        /\ p.go \in Seq(Range(p.go))
        /\ \A file \in Range(p.go) :
              /\ {file.struct.name, file.struct.method, file.struct.const} \subseteq STRING
              /\ file.struct.fields \in Seq(GormField)

HookMethodNames == {"BeforeCreate", "BeforeSave", "BeforeUpdate", "AfterFind"}

------------------------------------------------------------------------------
(* Which columns are sensitive.                                            *)

IsPAN(col) == col \in SensitiveKeywords \cup PanKeywords

IsSensitiveColumnInContext(table, col, panProtected) ==
    \/ col \in SensitiveKeywords
    \/ /\ table \in CardTables
       /\ \/ col \in CardContextKeywords
          \/ ~panProtected /\ col \in ExpiryKeywords

(* The first PAN-like column of the table decides; none counts as safe.    *)
IsPANProtectedInTable(columns, table) ==
    LET pans == {i \in DOMAIN columns : columns[i].table = table /\ IsPAN(columns[i].col)}
    IN  pans = {} \/ columns[Min(pans)].type = "bytea"

------------------------------------------------------------------------------
(* Pass 1: .sql files.                                                     *)

(* CREATE TABLE bodies first, then ADD COLUMN; nothing else is a column.   *)
(* The statements are those the parser's expressions recognise: ADD COLUMN *)
(* IF NOT EXISTS, and what follows the first ADD of an ALTER TABLE, are    *)
(* none of them.                                                           *)
ParseSQLFile(stmts) ==
    Where(stmts, {i \in DOMAIN stmts : stmts[i].op = "create"})
        \o Where(stmts, {i \in DOMAIN stmts : stmts[i].op = "add"})

ColumnFindings(c, f) ==
    LET finding(rule, sev) == [rule |-> rule, sev |-> sev, table |-> c.table,
                               col |-> c.col, file |-> f, hint |-> ""]
    IN  <<finding("SQL-SENSITIVE-COLUMN", "HIGH")>>
            \o IF c.type \in PlaintextTypes
               THEN <<finding("SQL-TEXT-TYPE", "MEDIUM")>> ELSE <<>>

Flagged(c, allCols) ==
    LET panProtected == IsPANProtectedInTable(allCols, c.table)
    IN  /\ IsSensitiveColumnInContext(c.table, c.col, panProtected)
        /\ ~(c.col \in SqlExpiryColumns /\ panProtected)

ScanSQLFile(stmts, f) ==
    LET allCols == ParseSQLFile(stmts)
        flagged == Where(allCols, {i \in DOMAIN allCols : Flagged(allCols[i], allCols)})
    IN  FlattenSeq([k \in 1..Len(flagged) |-> ColumnFindings(flagged[k], f)])

MetaOf(f) == [table |-> f.table, col |-> f.col]

SqlIdle == [next |-> 1, findings |-> <<>>, metas |-> <<>>, sqlEnd |-> 0,
            structs |-> <<>>, types |-> <<>>, funcs |-> <<>>]

SqlScanFile ==
    LET found == ScanSQLFile(project.sql[work.next], work.next)
    IN  /\ work.next <= Len(project.sql)
        /\ Pass("sql", "start", "start",
                [work EXCEPT !.next = @ + 1,
                             !.findings = @ \o found,
                             !.metas = @ \o [k \in 1..Len(found) |-> MetaOf(found[k])]])

SqlFilesDone ==
    /\ work.next > Len(project.sql)
    /\ Pass("sql", "start", "go",
            [work EXCEPT !.next = 1, !.sqlEnd = Len(work.findings)])

------------------------------------------------------------------------------
(* Pass 2: gorm structs.  A struct is [name, method, const, cardLike,      *)
(* fields, hooks]; method and const are the table names that a TableName   *)
(* method or a constant <name>TableName gives, "" for none.                *)

ResolveStructTableName(s) ==
    IF s.method # "" THEN s.method
    ELSE IF s.const # "" THEN s.const
    ELSE IF s.cardLike THEN s.name ELSE ""

(* The column of a field: gorm's column:, else db, else sql, "" for none.  *)
ExtractDBTag(tag) ==
    IF tag.gorm # "" THEN tag.gorm ELSE IF tag.db # "" THEN tag.db ELSE tag.sql

CollectDBTaggedFields(s) ==
    LET tagged == Where(s.fields, {k \in DOMAIN s.fields : ExtractDBTag(s.fields[k].tag) # ""})
    IN  [k \in DOMAIN tagged |-> [col |-> ExtractDBTag(tagged[k].tag),
                                  field |-> tagged[k].field, type |-> tagged[k].type]]

(* A hook body is a set of assignments [fields, crypts].                   *)
HookEncryptedFields(body) == UNION {a.fields : a \in {b \in body : b.crypts}}

EncryptedFields(s) ==
    UNION {HookEncryptedFields(s.hooks[h]) : h \in DOMAIN s.hooks \cap HookMethodNames}

ColumnToField(fields) ==
    [col \in {fields[k].col : k \in DOMAIN fields} |->
        fields[CHOOSE k \in DOMAIN fields :
                  /\ fields[k].col = col
                  /\ \A j \in DOMAIN fields : fields[j].col = col => j <= k].field]

IsPANFieldProtected(fields, encrypted) ==
    \/ \E k \in DOMAIN fields :
          IsPAN(fields[k].col) /\ fields[k].field \in encrypted
    \/ \A k \in DOMAIN fields : ~IsPAN(fields[k].col)

BuildGormStruct(s, f) ==
    LET table == ResolveStructTableName(s)
        enc == EncryptedFields(s)
        fields == CollectDBTaggedFields(s)
    IN  [file |-> f, table |-> table, encrypted |-> enc,
         hasHook |-> enc # {}, columnToField |-> ColumnToField(fields),
         tags |-> Where(fields, {k \in DOMAIN fields :
                     IsSensitiveColumnInContext(table, fields[k].col,
                         IsPANFieldProtected(fields, enc))})]

TagSeverity(g, tag) ==
    CASE tag.field \in g.encrypted -> "INFO"
      [] tag.field \notin g.encrypted /\ tag.col \in ExpiryKeywords -> "MEDIUM"
      [] tag.field \notin g.encrypted /\ tag.col \notin ExpiryKeywords ->
            IF g.hasHook THEN "INFO" ELSE "HIGH"

GormFindings(g) ==
    LET finding(rule, sev, tag) == [rule |-> rule, sev |-> sev, table |-> g.table,
                                    col |-> tag.col, file |-> g.file, hint |-> ""]
    IN  [k \in 1..Len(g.tags) |->
            finding("GORM-SENSITIVE-TAG", TagSeverity(g, g.tags[k]), g.tags[k])]
        \o IF g.hasHook THEN <<>>
           ELSE <<finding("GORM-NO-ENCRYPT-HOOK", "HIGH", [col |-> ""])>>

(* Types of the file with a Value or GormValue method, by bare name; the   *)
(* last method counts.  A declaration is [recv, name, strong, calls].      *)
BuildVerifiedTypeMap(file) ==
    LET valuer(t) == {k \in DOMAIN file.decls :
            file.decls[k].recv = t /\ file.decls[k].name \in {"Value", "GormValue"}}
    IN  [t \in {u \in {file.decls[k].recv : k \in DOMAIN file.decls} \ {""} : valuer(u) # {}} |->
            file.decls[CHOOSE k \in valuer(t) : \A j \in valuer(t) : j <= k]]

CollectPkgFuncEntries(file) ==
    LET funcs == {k \in DOMAIN file.decls : file.decls[k].recv = ""}
    IN  [n \in {file.decls[k].name : k \in funcs} |->
            file.decls[CHOOSE k \in funcs : file.decls[k].name = n]]

(* Later files overwrite what earlier ones said of a type or a function.   *)
Overwrite(old, new) ==
    [x \in DOMAIN old \cup DOMAIN new |-> IF x \in DOMAIN new THEN new[x] ELSE old[x]]

(* A file that does not parse is passed over without an error, a struct    *)
(* without sensitive tags is forgotten.                                    *)
SqlScanGoFile ==
    LET file == project.go[work.next]
        built == BuildGormStruct(file.struct, work.next)
        kept == IF file.parses /\ built.tags # <<>> THEN <<built>> ELSE <<>>
    IN  /\ work.next <= Len(project.go)
        /\ Pass("sql", "go", "go",
                [work EXCEPT !.next = @ + 1,
                   !.findings = @ \o IF kept = <<>> THEN <<>> ELSE GormFindings(built),
                   !.structs = @ \o kept,
                   !.types = IF file.parses THEN Overwrite(@, BuildVerifiedTypeMap(file)) ELSE @,
                   !.funcs = IF file.parses THEN Overwrite(@, CollectPkgFuncEntries(file)) ELSE @])

SqlGoFilesDone ==
    /\ work.next > Len(project.go)
    /\ Pass("sql", "go", "verify", work)

(* Cancellation, a walk error or a file that cannot be read ends the scan  *)
(* without findings.                                                       *)
SqlError ==
    \/ Pass("sql", "start", "failed", SqlIdle)
    \/ Pass("sql", "go", "failed", SqlIdle)

------------------------------------------------------------------------------
(* Pass 2b: column types whose Value method encrypts.  A body is strong if *)
(* it calls a cipher of the strong-signal table or a key service itself.   *)

(* One level of helpers is followed; Value itself counts as visited.       *)
VerifyValueBody(vt, funcs) ==
    \/ vt.strong
    \/ \E h \in (vt.calls \ {"Value"}) \cap DOMAIN funcs : funcs[h].strong

(* Mutant of VerifiedFields: a type that is not recorded passes.           *)
UnrecordedPasses(g) ==
    {g.tags[k].col : k \in {j \in DOMAIN g.tags :
        g.tags[j].type \in DOMAIN work.types
            => VerifyValueBody(work.types[g.tags[j].type], work.funcs)}}

VerifiedFields(g) ==
    {g.tags[k].col : k \in {j \in DOMAIN g.tags :
        /\ g.tags[j].type \in DOMAIN work.types
        /\ VerifyValueBody(work.types[g.tags[j].type], work.funcs)}}

StructAt(f) == CHOOSE g \in Range(work.structs) : g.file = f

ApplyVerifiedTypeFixup ==
    LET fix(f) ==
          CASE f.rule = "GORM-NO-ENCRYPT-HOOK" /\ VerifiedFields(StructAt(f.file)) # {} ->
                  [f EXCEPT !.rule = "GORM-ENCRYPT-OK", !.sev = "INFO", !.hint = "type"]
            [] f.rule = "GORM-SENSITIVE-TAG" /\ f.col \in VerifiedFields(StructAt(f.file)) ->
                  [f EXCEPT !.sev = "INFO", !.hint = "type"]
            [] OTHER -> f
    IN  Pass("sql", "verify", "xref",
             [work EXCEPT !.findings = [k \in DOMAIN @ |-> fix(@[k])]])

------------------------------------------------------------------------------
(* Pass 3: migrations against structs.  The struct found last speaks for   *)
(* its table.                                                              *)

GoTables == {g.table : g \in Range(work.structs)} \ {""}

GoEncrypt(t) ==
    work.structs[CHOOSE k \in DOMAIN work.structs :
        /\ work.structs[k].table = t
        /\ \A j \in DOMAIN work.structs : work.structs[j].table = t => j <= k]

(* Mutant of GoEncrypts: a hook anywhere in the struct is enough.          *)
GoEncryptsAnything(t, col) == t \in GoTables /\ GoEncrypt(t).hasHook

GoEncrypts(t, col) ==
    LET g == GoEncrypt(t)
    IN  /\ t \in GoTables
        /\ col \in DOMAIN g.columnToField
        /\ g.columnToField[col] \in g.encrypted

(* Without the elements at the positions in cut.                           *)
Pruned(seq, cut) == Where(seq, (1..Len(seq)) \ cut)

WithPANEncrypt(t) ==
    \E col \in SensitiveKeywords \cup PanKeywords : GoEncrypts(t, col)

PrunedMetas(metas, cut) == Pruned(metas, cut)

(* Expiry columns beside an encrypted PAN go, encrypted columns become     *)
(* INFO; the parallel slice of metas loses the same positions.             *)
CrossRefSQLWithGoEncryption ==
    LET walked == 1..(IF Len(work.metas) < work.sqlEnd THEN Len(work.metas) ELSE work.sqlEnd)
        suppress == {i \in walked :
            /\ work.findings[i].rule = "SQL-SENSITIVE-COLUMN"
            /\ work.metas[i].col \in SqlExpiryColumns
            /\ WithPANEncrypt(work.metas[i].table)}
        downgraded(i) == GoEncrypts(work.metas[i].table, work.metas[i].col)
        after == [i \in DOMAIN work.findings |->
                    IF i \in walked \ suppress /\ downgraded(i)
                    THEN [work.findings[i] EXCEPT !.sev = "INFO", !.hint = "hook"]
                    ELSE work.findings[i]]
    IN  Pass("sql", "xref", "drop",
             [work EXCEPT !.findings = Pruned(after, suppress),
                          !.metas = PrunedMetas(@, suppress),
                          !.sqlEnd = @ - Cardinality(suppress)])

------------------------------------------------------------------------------
(* Pass 4: columns that a later migration drops.                           *)

Mentions(file, op, col) ==
    \E s \in Range(project.sql[file]) : s.op = op /\ s.col = col

(* Mutant of DroppedLater: a drop is final.                                *)
DroppedForGood(f, col) ==
    project.ordered /\ \E k \in DOMAIN project.sql : k > f /\ Mentions(k, "drop", col)

(* The first later file that drops a column of that name decides; a file   *)
(* after it that adds one undoes the drop.                                 *)
DroppedLater(f, col) ==
    LET drops == {k \in DOMAIN project.sql : k > f /\ Mentions(k, "drop", col)}
    IN  /\ project.ordered
        /\ drops # {}
        /\ LET dropAt == CHOOSE k \in drops : \A j \in drops : k <= j
           IN  \A k \in DOMAIN project.sql : k > dropAt => ~Mentions(k, "add", col)

ApplyMigrationDropDowngrade ==
    LET drop(i) ==
          /\ i <= work.sqlEnd /\ i <= Len(work.metas)
          /\ work.findings[i].rule \in {"SQL-SENSITIVE-COLUMN", "SQL-TEXT-TYPE"}
          /\ work.findings[i].sev # "INFO"
          /\ DroppedLater(work.findings[i].file, work.metas[i].col)
    IN  Pass("sql", "drop", "done",
             [work EXCEPT !.findings = [i \in DOMAIN @ |->
                IF drop(i) THEN [@[i] EXCEPT !.sev = "INFO", !.hint = "drop"] ELSE @[i]]])

SqlInit == \E p \in SqlSources : Called("sql", p, SqlIdle)

SqlNext ==
    \/ SqlScanFile
    \/ SqlFilesDone
    \/ SqlScanGoFile
    \/ SqlGoFilesDone
    \/ SqlError
    \/ ApplyVerifiedTypeFixup
    \/ CrossRefSQLWithGoEncryption
    \/ ApplyMigrationDropDowngrade

------------------------------------------------------------------------------
(* Properties.                                                             *)

(* What the migrations leave behind: the last statement about the column   *)
(* of that table is not a drop.                                            *)
Statements == FlattenSeq(project.sql)
Present(table, col) ==
    \E k \in DOMAIN Statements :
        /\ Statements[k].table = table /\ Statements[k].col = col
        /\ Statements[k].op # "drop"
        /\ \A j \in DOMAIN Statements :
              j > k => ~(Statements[j].table = table /\ Statements[j].col = col
                         /\ Statements[j].op = "drop")

(* The scanner can only tell tables apart by column name: one table, at    *)
(* most one statement in a file, and no CREATE TABLE that brings it back.  *)
Unambiguous(col) ==
    /\ \A f \in DOMAIN project.sql : \A j, k \in DOMAIN project.sql[f] :
          project.sql[f][j].col = col /\ project.sql[f][k].col = col => j = k
    /\ \A s, t \in Range(Statements) : s.col = col /\ t.col = col => s.table = t.table
    /\ \A j, k \in DOMAIN Statements :
          j < k /\ Statements[j].col = col /\ Statements[j].op = "drop"
              => ~(Statements[k].col = col /\ Statements[k].op = "create")

(* A migration's column is only excused by a hook if a struct of the same  *)
(* table that parses encrypts the field of that very column.               *)
SqlHookExcuses ==
    Done("sql") => \A f \in Range(work.findings) :
        f.hint = "hook" =>
            \E k \in DOMAIN project.go :
                LET s == project.go[k].struct
                IN  /\ project.go[k].parses
                    /\ ResolveStructTableName(s) = f.table
                    /\ \E t \in Range(CollectDBTaggedFields(s)) :
                          t.col = f.col /\ t.field \in EncryptedFields(s)

(* No column of the migrations is lost on the way: a keyword column that   *)
(* is there at the end and that no struct encrypts is reported HIGH,       *)
(* whatever the other passes removed or rewrote.  For columns whose drop   *)
(* the scanner can attribute (see Unambiguous).                            *)
SqlLiveColumnReported ==
    Done("sql") => \A f \in DOMAIN project.sql : \A s \in Range(project.sql[f]) :
        /\ s.op # "drop"
        /\ s.col \in SensitiveKeywords
        /\ Unambiguous(s.col) /\ Present(s.table, s.col)
        /\ ~GoEncrypts(s.table, s.col)
        => \E r \in Range(work.findings) :
              /\ r.rule = "SQL-SENSITIVE-COLUMN"
              /\ r.table = s.table /\ r.col = s.col /\ r.file = f
              /\ r.sev = "HIGH"

(* A struct that stores a keyword column with no encrypting hook stays     *)
(* HIGH unless one of its fields has a type with methods of its own.       *)
GormPlaintextReported ==
    Done("sql") => \A k \in DOMAIN project.go :
        LET s == project.go[k].struct
        IN  /\ project.go[k].parses
            /\ EncryptedFields(s) = {}
            /\ \E t \in Range(CollectDBTaggedFields(s)) : t.col \in SensitiveKeywords
            /\ \A t \in Range(s.fields), g \in Range(project.go) :
                  \A d \in Range(g.decls) : ~(g.parses /\ d.recv = t.type)
            => \E r \in Range(work.findings) :
                  r.rule = "GORM-NO-ENCRYPT-HOOK" /\ r.file = k /\ r.sev = "HIGH"

(* What the comment on applyMigrationDropDowngrade says: INFO because of a *)
(* drop means that a later migration dropped the flagged column and that   *)
(* nothing brought it back.                                                *)
SqlDropMeansGone ==
    Done("sql") => \A f \in Range(work.findings) :
        f.hint = "drop" => ~Present(f.table, f.col)
==============================================================================
