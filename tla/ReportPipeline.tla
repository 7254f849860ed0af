--------------------------- MODULE ReportPipeline ---------------------------
(***************************************************************************)
(* generate_compliance_report: ReportGenerator.GenerateWithOptions of      *)
(* scanner/reportscanner/report.go, from running the scanners to the       *)
(* finished report, with the exclusions and suppressions of                *)
(* scanner/suppression that it applies on the way.                         *)
(*                                                                         *)
(* A finding is reduced to what the pipeline looks at: its severity, its   *)
(* requirement, the related requirements, the exclude-package patterns     *)
(* that match its path, and whether an ignore rule or an inline comment    *)
(* suppresses it. Which findings a scanner returns, whether it fails, and  *)
(* the order in which Go walks a map are nondeterministic.                 *)
(***************************************************************************)
EXTENDS InOrder, Functions

CONSTANTS
    Scanners,        \* the registered scanners, in order (a sequence)
    Covers,          \* Requirements() of each scanner
    Reqs,            \* requirement ids of the PCI DSS database
    SbomReq,         \* 6.3.2, decided by the SBOM probe
    Rules,           \* exclude-package patterns of the ignore file, in order
    IgnoredPatterns, \* patterns whose own text an ignore rule matches
    Outputs          \* what each scanner may return: sequences of findings

Severities == <<"CRITICAL", "HIGH", "MEDIUM", "LOW", "INFO">>
Actionable == {"CRITICAL", "HIGH", "MEDIUM"}
Statuses == {"PASS", "FAIL", "SUPPRESSED", "NOT_CHECKED"}
NotApplicable == "n/a"
NoPrimary == "none"

\* The findings that a scanner may return.
Emittable == UNION {UNION {Range(out) : out \in Outputs[Scanners[i]]} : i \in DOMAIN Scanners}

ASSUME SequencesAssumption ==
    /\ Scanners \in Seq(Range(Scanners))
    /\ Rules \in Seq(Range(Rules))
    /\ \A i \in DOMAIN Scanners : Outputs[Scanners[i]] \subseteq Seq(Emittable)
ASSUME EmittableAssumption ==
    \A f \in Emittable :
        f.sev \in Range(Severities) /\ f.ignored \in BOOLEAN /\ f.drops = 0
ASSUME ReqsAssumption == IsFiniteSet(Reqs)
ASSUME NamesAssumption == NotApplicable \notin Reqs /\ NoPrimary \notin Reqs
ASSUME CoversAssumption == \A i \in DOMAIN Scanners : Covers[Scanners[i]] \subseteq Reqs

\* No scanner decides on the software inventory.
ASSUME SbomAssumption ==
    SbomReq \in Reqs /\ \A i \in DOMAIN Scanners : SbomReq \notin Covers[Scanners[i]]

\* Every finding's own requirement is one that some scanner covers.
ASSUME PrimaryCovered ==
    \A i \in DOMAIN Scanners : \A out \in Outputs[Scanners[i]] :
        \A k \in DOMAIN out :
            \E j \in DOMAIN Scanners : out[k].req \in Covers[Scanners[j]]

VARIABLES
    pc,        \* the stage GenerateWithOptions is in
    next,      \* index of the scanner to run next
    findings,  \* allFindings
    names,     \* findingScannerNames, parallel to findings
    results,   \* suppression results: findings with a "suppressed" flag
    status,    \* requirementStatus
    related,   \* relatedReqPrimary: related requirement -> its primary
    pending,   \* keys of related that the range loop has yet to visit
    report,    \* the finished report
    emitted,   \* history: what the scanners returned, with their names
    failed     \* history: scanners that returned an error

vars == <<pc, next, findings, names, results, status, related, pending, report,
          emitted, failed>>

NoReport == [findings |-> <<>>, suppressions |-> <<>>, summary |-> [total |-> 0]]

Init ==
    /\ pc = "scan"
    /\ next = 1
    /\ findings = <<>>
    /\ names = <<>>
    /\ results = <<>>
    /\ status = [r \in Reqs |-> "NOT_CHECKED"]
    /\ related = [r \in Reqs |-> NoPrimary]
    /\ pending = {}
    /\ report = NoReport
    /\ emitted = <<>>
    /\ failed = {}

-----------------------------------------------------------------------------
(* runAllScanners *)

\* One scanner returns its findings; its name is recorded once per finding.
ScannerReturns(out) ==
    /\ pc = "scan"
    /\ next <= Len(Scanners)
    /\ LET own == [k \in DOMAIN out |-> Scanners[next]]
       IN /\ findings' = findings \o out
          /\ names' = names \o own
          /\ emitted' = emitted \o [k \in DOMAIN out |-> [f |-> out[k], by |-> own[k]]]
    /\ next' = next + 1
    /\ UNCHANGED <<pc, results, status, related, pending, report, failed>>

\* A scanner's error is logged and the loop goes on.
ScannerFails ==
    /\ pc = "scan"
    /\ next <= Len(Scanners)
    /\ failed' = failed \cup {Scanners[next]}
    /\ next' = next + 1
    /\ UNCHANGED <<pc, findings, names, results, status, related, pending,
                   report, emitted>>

ScannersDone ==
    /\ pc = "scan"
    /\ next > Len(Scanners)
    /\ pc' = "exclude"
    /\ UNCHANGED <<next, findings, names, results, status, related, pending,
                   report, emitted, failed>>

-----------------------------------------------------------------------------
(* applyPackageExclusions *)

Excluded(f) == \E i \in DOMAIN Rules : Rules[i] \in f.pkgs

\* The rule a dropped finding is booked under: the first that matches.
FirstRule(f) ==
    CHOOSE i \in DOMAIN Rules :
        Rules[i] \in f.pkgs /\ \A j \in DOMAIN Rules : j < i => Rules[j] \notin f.pkgs

\* Mutant of MatchCount: no break after the first match, every rule counts.
MatchCountAll(fs, p) == Cardinality({k \in DOMAIN fs : p \in fs[k].pkgs})

MatchCount(fs, p) ==
    Cardinality({k \in DOMAIN fs : Excluded(fs[k]) /\ Rules[FirstRule(fs[k])] = p})

SuppressedPackage(p, n) ==
    [sev |-> "INFO", req |-> NotApplicable, related |-> {}, pkgs |-> {},
     ignored |-> p \in IgnoredPatterns, drops |-> n]

\* One report per rule whose pattern dropped something.
ExcludeReports(fs) ==
    LET hit == Where(Rules, {i \in DOMAIN Rules : MatchCount(fs, Rules[i]) > 0})
    IN  [k \in DOMAIN hit |-> SuppressedPackage(hit[k], MatchCount(fs, hit[k]))]

\* The findings that survive, and the reports.
Filtered(fs) == Where(fs, {k \in DOMAIN fs : ~Excluded(fs[k])}) \o ExcludeReports(fs)

\* Mutant of Kept: the second walk matches only the first rule.
KeptFirstRule(fs) == {k \in DOMAIN fs : Rules = <<>> \/ Rules[1] \notin fs[k].pkgs}

\* Which names survive: a second walk over the findings repeats the match.
Kept(fs) == {k \in DOMAIN fs : ~Excluded(fs[k])}

FilteredNames(ns, fs) ==
    Where(ns, Kept(fs)) \o [k \in DOMAIN ExcludeReports(fs) |-> "suppression"]

ApplyPackageExclusions ==
    /\ pc = "exclude"
    /\ findings' = Filtered(findings)
    /\ names' = FilteredNames(names, findings)
    /\ pc' = "suppress"
    /\ UNCHANGED <<next, results, status, related, pending, report, emitted, failed>>

-----------------------------------------------------------------------------
(* ApplySuppression, and the statuses derived from it *)

Judged(fs) == [k \in DOMAIN fs |-> [f |-> fs[k], suppressed |-> fs[k].ignored]]

ApplySuppression ==
    /\ pc = "suppress"
    /\ results' = Judged(findings)
    /\ pc' = "status"
    /\ UNCHANGED <<next, findings, names, status, related, pending, report,
                   emitted, failed>>

\* collectCoveredRequirements: every registered scanner counts.
CoveredReqs == UNION {Covers[Scanners[i]] : i \in DOMAIN Scanners}

ActiveOf(r) == {k \in DOMAIN results : results[k].f.req = r /\ ~results[k].suppressed}
SuppressedOf(r) == {k \in DOMAIN results : results[k].f.req = r /\ results[k].suppressed}

\* Mutant of ClassifyRequirement: LOW and INFO suppressions hide active findings.
ClassifySuppressedFirst(r) ==
    IF SuppressedOf(r) # {} THEN "SUPPRESSED"
    ELSE IF \E k \in ActiveOf(r) : results[k].f.sev \in Actionable THEN "FAIL"
    ELSE "PASS"

\* classifyRequirementFromFindings
ClassifyRequirement(r) ==
    IF \E k \in ActiveOf(r) : results[k].f.sev \in Actionable THEN "FAIL"
    ELSE IF ActiveOf(r) = {} /\ SuppressedOf(r) # {} THEN "SUPPRESSED"
    ELSE "PASS"

\* Mutant of PrimaryOf: the skip of suppressed findings is missing.
PrimaryOfAny(r) ==
    LET naming == {k \in DOMAIN results : r \in results[k].f.related}
    IN  IF naming = {} THEN NoPrimary
        ELSE results[CHOOSE k \in naming : \A j \in naming : k <= j].f.req

\* collectRelatedRequirementMap: the first active finding that names r.
PrimaryOf(r) ==
    LET naming == {k \in DOMAIN results :
                     ~results[k].suppressed /\ r \in results[k].f.related}
    IN  IF naming = {} THEN NoPrimary
        ELSE results[CHOOSE k \in naming : \A j \in naming : k <= j].f.req

BuildRequirementStatus ==
    /\ pc = "status"
    /\ status' = [r \in Reqs |->
                    IF r \in CoveredReqs THEN ClassifyRequirement(r) ELSE "NOT_CHECKED"]
    /\ related' = [r \in Reqs |-> PrimaryOf(r)]
    /\ pending' = {r \in Reqs : PrimaryOf(r) # NoPrimary}
    /\ pc' = "propagate"
    /\ UNCHANGED <<next, findings, names, results, report, emitted, failed>>

\* Mutant of PropagateCrossReference: directly scanned requirements are
\* overridden too.
PropagateOverrides(r) ==
    /\ pc = "propagate"
    /\ r \in pending
    /\ pending' = pending \ {r}
    /\ status' = IF related[r] \in Reqs
                 THEN [status EXCEPT ![r] = status[related[r]]] ELSE status
    /\ UNCHANGED <<pc, next, findings, names, results, related, report, emitted, failed>>

\* propagateCrossReferences: one iteration of a range over a Go map.
PropagateCrossReference(r) ==
    /\ pc = "propagate"
    /\ r \in pending
    /\ pending' = pending \ {r}
    /\ status' = IF status[r] = "NOT_CHECKED" /\ related[r] \in Reqs
                 THEN [status EXCEPT ![r] = status[related[r]]] ELSE status
    /\ UNCHANGED <<pc, next, findings, names, results, related, report, emitted, failed>>

\* addSBOMInventoryStatus: the probe's outcome decides alone.
AddSBOMInventoryStatus(ok) ==
    /\ pc = "propagate"
    /\ pending = {}
    /\ status' = [status EXCEPT ![SbomReq] = IF ok THEN "PASS" ELSE "FAIL"]
    /\ pc' = "build"
    /\ UNCHANGED <<next, findings, names, results, related, pending, report,
                   emitted, failed>>

-----------------------------------------------------------------------------
(* The report *)

\* buildReportFindings: the results with their scanners' names, and the split.
Entries == [k \in DOMAIN results |-> [f |-> results[k].f, by |-> names[k]]]

Pick(suppressed) == Where(Entries, {k \in DOMAIN results : results[k].suppressed = suppressed})

Bucket(es, sev) == Where(es, {k \in DOMAIN es : es[k].f.sev = sev})

\* Mutant of SortBySeverity: the buckets stop at LOW.
SortWithoutInfo(es) ==
    Bucket(es, "CRITICAL") \o Bucket(es, "HIGH") \o Bucket(es, "MEDIUM") \o Bucket(es, "LOW")

\* sort.SliceStable by severityOrder
SortBySeverity(es) ==
    Bucket(es, "CRITICAL") \o Bucket(es, "HIGH") \o Bucket(es, "MEDIUM") \o Bucket(es, "LOW")
        \o Bucket(es, "INFO")

Count(st) == Cardinality({r \in Reqs : status[r] = st})

BuildReportSummary(es) ==
    [total |-> Cardinality(Reqs),
     checked |-> Count("PASS") + Count("FAIL") + Count("SUPPRESSED"),
     notChecked |-> Count("NOT_CHECKED"),
     pass |-> Count("PASS"), fail |-> Count("FAIL"),
     suppressed |-> Count("SUPPRESSED"),
     severity |-> [i \in DOMAIN Severities |->
                     Cardinality({k \in DOMAIN es : es[k].f.sev = Severities[i]})]]

Report ==
    LET active == SortBySeverity(Pick(FALSE))
    IN  [findings |-> active, suppressions |-> Pick(TRUE), summary |-> BuildReportSummary(active)]

BuildReport ==
    /\ pc = "build"
    /\ report' = Report
    /\ pc' = "done"
    /\ UNCHANGED <<next, findings, names, results, status, related, pending,
                   emitted, failed>>

Finished == pc = "done" /\ UNCHANGED vars

Next ==
    \/ next <= Len(Scanners) /\ \E out \in Outputs[Scanners[next]] : ScannerReturns(out)
    \/ ScannerFails
    \/ ScannersDone
    \/ ApplyPackageExclusions
    \/ ApplySuppression
    \/ BuildRequirementStatus
    \/ \E r \in pending : PropagateCrossReference(r)
    \/ \E ok \in BOOLEAN : AddSBOMInventoryStatus(ok)
    \/ BuildReport
    \/ Finished

Spec == Init /\ [][Next]_vars

-----------------------------------------------------------------------------
(* Properties *)

Done == pc = "done"
Shown == Range(report.findings) \cup Range(report.suppressions)

\* Types, and the two slices that report.go indexes with one counter staying
\* equally long through scanning and exclusion.
TypeOK ==
    /\ pc \in {"scan", "exclude", "suppress", "status", "propagate", "build", "done"}
    /\ next \in 1..(Len(Scanners) + 1)
    /\ Len(names) = Len(findings)
    /\ status \in [Reqs -> Statuses]
    /\ related \in [Reqs -> Reqs \cup {NoPrimary, NotApplicable}]
    /\ pending \subseteq Reqs
    /\ failed \subseteq Range(Scanners)

\* docs/usage.md "never silently dropped": every finding outside an excluded
\* package is in the finished report, active or suppressed, exactly as often
\* as it was emitted and under the name of the scanner that emitted it.
NeverSilentlyDropped ==
    Done => \A k \in DOMAIN emitted :
        ~Excluded(emitted[k].f) =>
            Occurrences(emitted[k], report.findings)
              + Occurrences(emitted[k], report.suppressions)
            = Occurrences(emitted[k], emitted)

\* What the entries of s say was dropped, one pair for each count.
Dropped(s) == UNION {{k} \X (1..s[k].f.drops) : k \in DOMAIN s}

NoRepeatedRule == \A i, j \in DOMAIN Rules : Rules[i] = Rules[j] => i = j

\* suppression.go: the audit entries account for what exclude-package dropped.
\* Their counts add up to the number of findings that are missing, unless the
\* ignore file repeats a pattern, which is then reported at each of its lines.
ExclusionsAccounted ==
    Done /\ NoRepeatedRule =>
        Cardinality(Dropped(report.findings \o report.suppressions))
          = Cardinality({k \in DOMAIN emitted : Excluded(emitted[k].f)})

\* report.go: a scanned requirement fails exactly if the report lists an active
\* CRITICAL, HIGH or MEDIUM finding of it; no later step changes the verdict.
FailIffShown ==
    Done => \A r \in CoveredReqs \ {SbomReq} :
        status[r] = "FAIL" <=>
            \E k \in DOMAIN report.findings :
                report.findings[k].f.req = r /\ report.findings[k].f.sev \in Actionable

\* report.go propagateCrossReferences: the order in which Go walks the map does
\* not show. A requirement nobody scans stays NOT_CHECKED unless the report
\* lists an active finding that names it, and then it has the verdict of that
\* finding's own requirement; suppressed findings refer to nothing.
CrossReferenceStable ==
    Done => \A r \in Reqs \ (CoveredReqs \cup {SbomReq}) :
        LET naming == {k \in DOMAIN report.findings :
                         r \in report.findings[k].f.related}
        IN  IF naming = {} THEN status[r] = "NOT_CHECKED"
            ELSE \E k \in naming : status[r] = status[report.findings[k].f.req]

\* docs/ci-cd.md gate: a summary without failed requirements stands on a report
\* without CRITICAL, HIGH or MEDIUM findings, and its counts cover every
\* requirement and every listed finding once.
SummaryHonest ==
    Done =>
        /\ report.summary.fail = 0 =>
             \A k \in DOMAIN report.findings : report.findings[k].f.sev \notin Actionable
        /\ report.summary.checked + report.summary.notChecked = report.summary.total
        /\ LET n == report.summary.severity
           IN  n[1] + n[2] + n[3] + n[4] + n[5] + Len(report.suppressions) = Len(results)

\* docs/pci-coverage.md: a PASS carries the scope that "was verified", so some
\* scanner that covers the requirement must have run.
PassMeansVerified ==
    Done => \A r \in CoveredReqs \ {SbomReq} :
        status[r] = "PASS" =>
            \E i \in DOMAIN Scanners :
                r \in Covers[Scanners[i]] /\ Scanners[i] \notin failed

-----------------------------------------------------------------------------
(* The inductive invariant behind the safety properties: what each stage has *)
(* made of the findings that the scanners returned                           *)

Emissions == [f : Emittable, by : Range(Scanners)]
FindingsOf(em) == [k \in DOMAIN em |-> em[k].f]
NamesOf(em) == [k \in DOMAIN em |-> em[k].by]

FindingsInv ==
    /\ emitted \in Seq(Emissions)
    /\ IF pc \in {"scan", "exclude"}
       THEN findings = FindingsOf(emitted) /\ names = NamesOf(emitted)
       ELSE /\ findings = Filtered(FindingsOf(emitted))
            /\ names = FilteredNames(NamesOf(emitted), FindingsOf(emitted))

ResultsInv == pc \notin {"scan", "exclude", "suppress"} => results = Judged(findings)

\* Only requirements that no scanner covers wait for a verdict, and none of them
\* is the primary of another.
StatusInv ==
    pc \in {"propagate", "build", "done"} =>
        /\ related = [r \in Reqs |-> PrimaryOf(r)]
        /\ \A r \in CoveredReqs : status[r] = ClassifyRequirement(r)
        /\ \A r \in Reqs \ (CoveredReqs \cup {SbomReq}) :
             status[r] = IF r \in pending \/ PrimaryOf(r) = NoPrimary THEN "NOT_CHECKED"
                         ELSE status[PrimaryOf(r)]
        /\ pc # "propagate" => pending = {}

ReportInv == Done => report = Report

PipelineInv == TypeOK /\ FindingsInv /\ ResultsInv /\ StatusInv /\ ReportInv
=============================================================================
