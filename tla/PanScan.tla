------------------------------- MODULE PanScan -------------------------------
(***************************************************************************)
(* The PAN scanner and its severity bridge.  Each file gives findings and, *)
(* in step with them, the struct field each one is about; the scan keys    *)
(* these sources by the position of the finding in the whole result, and   *)
(* the bridge asks FlowsTo about each field and then keeps, downgrades or  *)
(* suppresses the finding at that position.                                *)
(*                                                                         *)
(* A project is [files, program, taint, engine, module]: its files in the  *)
(* order of the walk, its program as TaintFlow sees it, whether the caller *)
(* asked for taint, whether there is an engine, and whether the root has a *)
(* go.mod.  A Go file has structs, string parameters, string literals,     *)
(* logger calls and function bodies; an .env file has entries.             *)
(***************************************************************************)
EXTENDS TaintFlow, InOrder

CONSTANTS Normalize,           \* the names of a project, without case and separators
          CardKeywords,   \* normalized names of cardholder data
          PaymentIndicators,   \* names that make a struct a payment
          BankingSiblings, PciScopeSiblings,
          SadFieldNames,       \* field names the bridge takes for SAD
          PanSources           \* the projects that the scanner is called on

(* What the parser gives: finite lists, and digits in a card number.       *)
WellFormedFile(file) ==
    /\ IsList(file.structs) /\ IsList(file.params) /\ IsList(file.literals)
    /\ IsList(file.logged) /\ IsList(file.bodies) /\ IsList(file.entries)
    /\ \A st \in Range(file.structs) : IsList(st.fields) /\ \A f \in Range(st.fields) : IsList(f.names)
    /\ \A b \in Range(file.bodies) : IsList(b.bytes)
    /\ \A l \in Range(file.literals) : l.digits \in Seq(0 .. 9)

ASSUME PanSourcesAssumption ==
    \A q \in PanSources :
        /\ WellFormed(q.program)
        /\ IsList(q.files) /\ \A file \in Range(q.files) : WellFormedFile(file)

IsSensitiveKeyword(name) == Normalize[name] \in CardKeywords

------------------------------------------------------------------------------
(* Card numbers, as sequences of digits.                                   *)

(* Mutant of Doubled: the carry is forgotten.                              *)
DoubledMod(d) == (2 * d) % 10

Doubled(d) == IF 2 * d > 9 THEN 2 * d - 9 ELSE 2 * d

LuhnValid(n) ==
    LET place(i) == IF (Len(n) - i) % 2 = 1 THEN Doubled(n[i]) ELSE n[i]
        sum[i \in 0 .. Len(n)] == IF i = 0 THEN 0 ELSE sum[i - 1] + place(i)
    IN  Len(n) \in 13 .. 19 /\ sum[Len(n)] % 10 = 0

(* iinRules: so many leading digits, between these, at these lengths.      *)
iinRules ==
    {[digits |-> 1, lo |-> 4, hi |-> 4, lengths |-> {13, 16, 19}],
     [digits |-> 2, lo |-> 51, hi |-> 55, lengths |-> {16}],
     [digits |-> 4, lo |-> 2221, hi |-> 2720, lengths |-> {16}],
     [digits |-> 2, lo |-> 34, hi |-> 34, lengths |-> {15}],
     [digits |-> 2, lo |-> 37, hi |-> 37, lengths |-> {15}],
     [digits |-> 4, lo |-> 6011, hi |-> 6011, lengths |-> 16 .. 19],
     [digits |-> 3, lo |-> 644, hi |-> 649, lengths |-> 16 .. 19],
     [digits |-> 2, lo |-> 65, hi |-> 65, lengths |-> 16 .. 19],
     [digits |-> 4, lo |-> 3528, hi |-> 3589, lengths |-> 16 .. 19]}

MatchesIINPrefix(n) ==
    \E r \in iinRules :
        /\ Len(n) \in r.lengths
        /\ FoldLeft(LAMBDA v, d : 10 * v + d, 0, SubSeq(n, 1, r.digits)) \in r.lo .. r.hi

IsLikelyPAN(n) == LuhnValid(n) /\ MatchesIINPrefix(n)

------------------------------------------------------------------------------
(* Findings of a Go file, with their sources.                              *)

SevRank == [CRITICAL |-> 5, HIGH |-> 4, MEDIUM |-> 3, LOW |-> 2, INFO |-> 1]
severityHigher(a, b) == SevRank[a] > SevRank[b]

(* how and name are what the description says; note is what the bridge     *)
(* appends to it.                                                          *)
Finding(rule, sev, line, how, name) ==
    [rule |-> rule, sev |-> sev, file |-> 0, line |-> line, how |-> how, name |-> name, digits |-> <<>>, note |-> ""]
CardNumber(sev, line, how, digits) == [Finding("PAN-LITERAL", sev, line, how, "") EXCEPT !.digits = digits]
NoField == [type |-> "", field |-> "", json |-> FALSE, db |-> FALSE]
Entry(finding, source) == [finding |-> finding, source |-> source]
Other(finding) == Entry(finding, NoField)

classifyStructTags(st) ==
    [json |-> \E f \in Range(st.fields) : f.json # "none",
     db |-> \E f \in Range(st.fields) : f.db]

SourceOf(st, name) ==
    [type |-> st.name, field |-> name, json |-> classifyStructTags(st).json, db |-> classifyStructTags(st).db]

StructNames(st) == UNION {Range(f.names) : f \in Range(st.fields)}
countPaymentIndicatorsInFields(st) ==
    FoldLeft(LAMBDA c, f : c + Len(SelectSeq(f.names, LAMBDA n : Normalize[n] \in PaymentIndicators)),
             0, st.fields)

(* An account number among bank details, not cards.                        *)
IsBankingContext(st) ==
    /\ ~st.tokenization
    /\ \A n \in StructNames(st) : Normalize[n] \notin PciScopeSiblings
    /\ \A f \in Range(st.fields) : ~f.cardTag
    /\ Cardinality({n \in StructNames(st) : Normalize[n] \in BankingSiblings}) >= 2

KeywordSeverity(st, name) ==
    IF Normalize[name] = "accountnumber" /\ IsBankingContext(st) THEN "INFO"
    ELSE IF countPaymentIndicatorsInFields(st) >= 2 THEN "CRITICAL" ELSE "HIGH"

emitFieldFindings(st, f) ==
    FlattenSeq([i \in DOMAIN f.names |->
        LET name == f.names[i]
            entry(rule, sev) == Entry(Finding(rule, sev, f.line, "field", name), SourceOf(st, name))
        IN  IF ~IsSensitiveKeyword(name) THEN <<>>
            ELSE <<entry("PAN-KEYWORD", KeywordSeverity(st, name))>>
                   \o IF f.type = "string" THEN <<entry("PAN-TYPE", "MEDIUM")>> ELSE <<>>])

(* An embedded field has no name: its source is then named by the tag.     *)
emitJSONTagFindings(st, f) ==
    IF f.json \in {"none", "-"} \/ ~IsSensitiveKeyword(f.json) THEN <<>>
    ELSE <<Entry(Finding("PAN-KEYWORD", "HIGH", f.line, "tag", f.json),
                 SourceOf(st, IF f.names = <<>> THEN f.json ELSE f.names[1]))>>

scanStructFields(file) ==
    FlattenSeq([i \in DOMAIN file.structs |->
        LET st == file.structs[i]
        IN  FlattenSeq([j \in DOMAIN st.fields |->
                emitFieldFindings(st, st.fields[j]) \o emitJSONTagFindings(st, st.fields[j])])])

Without(entries, gone) == Where(entries, DOMAIN entries \ gone)

(* The last field and the last tag of a line, if they name the same thing. *)
Merges(entries) ==
    LET f(i) == entries[i].finding
        on(line, how) == {i \in DOMAIN entries : f(i).rule = "PAN-KEYWORD" /\ f(i).line = line /\ f(i).how = how}
        lines == {f(i).line : i \in DOMAIN entries}
    IN  {m \in {<<Max(on(l, "field")), Max(on(l, "tag"))>> :
                   l \in {x \in lines : on(x, "field") # {} /\ on(x, "tag") # {}}} :
            Normalize[f(m[1]).name] = Normalize[f(m[2]).name]}

MergedEntry(entry, tag) ==
    Entry([entry.finding EXCEPT !.sev = IF severityHigher(tag.finding.sev, @) THEN tag.finding.sev ELSE @],
          IF entry.source.type = "" /\ tag.source.type # "" THEN tag.source ELSE entry.source)

deduplicateStructFindings(entries) ==
    LET merges == Merges(entries)
        merged == [i \in DOMAIN entries |->
                     IF \E m \in merges : m[1] = i
                     THEN MergedEntry(entries[i], entries[(CHOOSE m \in merges : m[1] = i)[2]])
                     ELSE entries[i]]
    IN  Without(merged, {m[2] : m \in merges})

Sensitive(names) == Where(names, {i \in DOMAIN names : IsSensitiveKeyword(names[i])})

scanFunctionParams(file) ==
    LET sensitive == Sensitive(file.params)
    IN  [i \in DOMAIN sensitive |-> Other(Finding("PAN-TYPE", "MEDIUM", 0, "parameter", sensitive[i]))]

(* One finding for all parameters of a name; all have the same severity.   *)
groupParameterFindings(entries) ==
    LET isParam(i) == entries[i].finding.how = "parameter"
    IN  Without(entries, {i \in DOMAIN entries :
                            isParam(i) /\ \E j \in 1 .. i - 1 :
                                isParam(j) /\ entries[j].finding.name = entries[i].finding.name})

(* A literal bound to a sensitive name, or next to one on its line.        *)
classifyLiteralPAN(file, lit) ==
    IF \E l \in Range(file.literals) : l.line = lit.line /\ l.var # "" /\ IsSensitiveKeyword(l.var)
    THEN "CRITICAL" ELSE "MEDIUM"

scanStringLiteralPANs(file) ==
    LET pans == Where(file.literals, {i \in DOMAIN file.literals : IsLikelyPAN(file.literals[i].digits)})
    IN  [i \in DOMAIN pans |->
            Other(CardNumber(classifyLiteralPAN(file, pans[i]), pans[i].line, "literal", pans[i].digits))]

scanLoggerCalls(file) ==
    LET logged == Sensitive(file.logged)
    IN  [i \in DOMAIN logged |-> Other(Finding("PAN-LOGGER", "CRITICAL", 0, "logger", logged[i]))]

(* A body has its own locals and those of the function literals inside it  *)
(* (one level of them); a local is looked for, and its zeroing, by name in *)
(* the whole body.                                                         *)
Inside(file, b) == {c \in DOMAIN file.bodies : c = b \/ file.bodies[c].within = b}
hasZeroingPattern(file, b, name) == \E c \in Inside(file, b) : name \in file.bodies[c].zeroed
collectLocalSensitiveByteVars(file, b) ==
    Sensitive(FlattenSeq([c \in DOMAIN file.bodies |->
                  IF c \in Inside(file, b) THEN file.bodies[c].bytes ELSE <<>>]))

scanLocalByteZeroing(file) ==
    FlattenSeq([b \in DOMAIN file.bodies |->
        LET found == collectLocalSensitiveByteVars(file, b)
            locals == Where(found, {i \in DOMAIN found : ~hasZeroingPattern(file, b, found[i])})
        IN  [i \in DOMAIN locals |-> Other(Finding("PAN-ZEROING", "MEDIUM", 0, "local", locals[i]))]])

scanGoFile(file) ==
    IF file.generated THEN <<>>
    ELSE groupParameterFindings(deduplicateStructFindings(scanStructFields(file)) \o scanFunctionParams(file))
           \o scanStringLiteralPANs(file) \o scanLoggerCalls(file) \o scanLocalByteZeroing(file)

scanEnvFile(file) ==
    FlattenSeq([i \in DOMAIN file.entries |->
        LET e == file.entries[i]
        IN  (IF IsLikelyPAN(e.digits) THEN <<CardNumber("CRITICAL", i, "env", e.digits)>> ELSE <<>>)
              \o IF IsSensitiveKeyword(e.key) /\ ~e.empty THEN <<Finding("PAN-KEYWORD", "HIGH", i, "env", e.key)>>
                 ELSE <<>>])

------------------------------------------------------------------------------
(* The scan.                                                               *)

PanIdle == [file |-> 1, findings |-> <<>>, sources |-> <<>>, at |-> 1, flow |-> NewFlow("")]

(* The sources of a file, keyed by where its findings will stand.          *)
KeyedSources(sources, entries, base) ==
    LET named == {j \in DOMAIN entries : entries[j].source.type # "" /\ entries[j].source.field # ""}
    IN  [k \in DOMAIN sources \cup {base + j : j \in named} |->
            IF k \in DOMAIN sources THEN sources[k] ELSE entries[k - base].source]

InFile(findings, n) == [i \in DOMAIN findings |-> [findings[i] EXCEPT !.file = n]]

ScannedGo(w, file) ==
    LET entries == scanGoFile(file)
    IN  [w EXCEPT !.file = @ + 1,
                  !.findings = @ \o InFile([i \in DOMAIN entries |-> entries[i].finding], w.file),
                  !.sources = IF project.taint THEN KeyedSources(@, entries, Len(w.findings)) ELSE @]

ScannedEnv(w, file) ==
    [w EXCEPT !.file = @ + 1, !.findings = @ \o InFile(scanEnvFile(file), w.file)]

PanScanFile ==
    /\ scanner = "pan" /\ pc = "start" /\ work.file <= Len(project.files)
    /\ LET file == project.files[work.file]
       IN  IF file.unreadable THEN Pass("pan", "start", "failed", work)
           ELSE Pass("pan", "start", "start",
                     IF file.kind = "go" THEN ScannedGo(work, file) ELSE ScannedEnv(work, file))

(* The client's context ends between two files.                            *)
PanCancel ==
    /\ scanner = "pan" /\ work.file <= Len(project.files)
    /\ Pass("pan", "start", "failed", work)

(* The bridge runs only with a source and an engine.                       *)
PanScanned ==
    /\ scanner = "pan" /\ pc = "start" /\ work.file > Len(project.files)
    /\ Pass("pan", "start",
            IF project.taint /\ DOMAIN work.sources # {} /\ project.engine THEN "bridge" ELSE "done", work)

------------------------------------------------------------------------------
(* The bridge.                                                             *)

structTagClassification(src) == IF src.db THEN "storage" ELSE IF src.json THEN "transit" ELSE "inconclusive"
negativeEvidenceTransit(src) == ~src.db /\ src.field \in SadFieldNames

(* Who is asked: a field finding whose package is known.                   *)
Asked(i) ==
    /\ work.findings[i].rule \in {"PAN-KEYWORD", "PAN-TYPE"}
    /\ i \in DOMAIN work.sources
    /\ project.module

TransitOnly(i) ==
    LET src == work.sources[i]
        class == structTagClassification(src)
    IN  \/ class = "transit"
        \/ class = "inconclusive" /\ (negativeEvidenceTransit(src) \/ project.files[work.findings[i].file].transit)

AskedOf(i) == <<work.sources[i].type, work.sources[i].field>>

(* One finding: passed over, answered at once, or asked about.             *)
adjustSeverityByTaint ==
    /\ scanner = "pan" /\ pc = "bridge" /\ work.at <= Len(work.findings)
    /\ IF ~Asked(work.at)
       THEN Pass("pan", "bridge", "bridge", [work EXCEPT !.at = @ + 1])
       ELSE Pass("pan", "bridge",
                 IF Answerable(project.program, AskedOf(work.at)) THEN "query" ELSE "answer",
                 [work EXCEPT !.flow = NewFlow(AskedOf(work.at))])

Adjusted(f, i, stored) ==
    IF stored THEN [f EXCEPT !.note = "stored"]
    ELSE IF ~TransitOnly(i) THEN f
    ELSE IF f.rule = "PAN-TYPE" THEN [f EXCEPT !.rule = "suppressed"]
    ELSE [f EXCEPT !.sev = "INFO", !.note = "transit"]

PanAnswer ==
    /\ scanner = "pan" /\ pc = "answer"
    /\ Pass("pan", "answer", "bridge",
            [work EXCEPT !.findings[work.at] = Adjusted(@, work.at, work.flow.hit), !.at = @ + 1])

removeSuppressed(findings) == Where(findings, {i \in DOMAIN findings : findings[i].rule # "suppressed"})

PanBridged ==
    /\ scanner = "pan" /\ pc = "bridge" /\ work.at > Len(work.findings)
    /\ Pass("pan", "bridge", "done", [work EXCEPT !.findings = removeSuppressed(@)])

PanInit == \E p \in PanSources : Called("pan", p, PanIdle)

PanNext ==
    \/ PanScanFile \/ PanCancel \/ PanScanned
    \/ adjustSeverityByTaint \/ FlowSteps("pan") \/ PanAnswer \/ PanBridged

------------------------------------------------------------------------------
(* Properties.                                                             *)

FieldsOf(file) ==
    UNION {UNION {{<<st, f, n>> : n \in Range(f.names)} : f \in Range(st.fields)} : st \in Range(file.structs)}

(* Field f of struct st shares its line with no other struct that could    *)
(* lend it a name: an anonymous struct written on one line inside another  *)
(* takes the source of the field that holds it.                            *)
OwnLine(file, st, f) ==
    st.name # "" \/ \A t \in Range(file.structs) : t.name # "" => \A g \in Range(t.fields) : g.line # f.line

(* A sensitive field whose value is written to a database along            *)
(* assignments and struct literals, in whatever files and whatever order,  *)
(* keeps both its findings, at a severity no lower than HIGH unless it is  *)
(* a bank account: the bridge neither takes it for transit data nor        *)
(* applies to it the verdict of another field.  So do fields of a struct   *)
(* with database tags, and parameters, literals, logger calls and .env     *)
(* entries are never touched.                                              *)
PanStoredKept ==
    Done("pan") =>
        \A i \in DOMAIN project.files :
            LET file == project.files[i]
                shown(rule, n, line) ==
                    {f \in Range(work.findings) :
                        f.rule = rule /\ f.file = i /\ f.line = line /\ f.how = "field" /\ f.name = n}
            IN  file.kind = "go" /\ ~file.generated =>
                  \A x \in FieldsOf(file) :
                    LET st == x[1]  f == x[2]  n == x[3]
                    IN  IsSensitiveKeyword(n) /\ OwnLine(file, st, f)
                          /\ (StoredDirectly(project.program, <<st.name, n>>) \/ classifyStructTags(st).db)
                        => /\ \E g \in shown("PAN-KEYWORD", n, f.line) :
                                g.note # "transit" /\ (g.sev # "INFO" \/ IsBankingContext(st))
                           /\ f.type = "string" => shown("PAN-TYPE", n, f.line) # {}

(* Two literals that differ in one digit, a card number and the same       *)
(* number mistyped, are never both reported as card numbers.               *)
PanMistypedNotReported ==
    Done("pan") =>
        \A f, g \in {x \in Range(work.findings) : x.how = "literal"} :
            Len(f.digits) = Len(g.digits) =>
                Cardinality({i \in DOMAIN f.digits : f.digits[i] # g.digits[i]}) # 1
==============================================================================
