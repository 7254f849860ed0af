------------------------ MODULE ReportPipeline_proofs ------------------------
(***************************************************************************)
(* The finished report against what the scanners returned, for every list  *)
(* of scanners, rules and requirements and everything scanners may return. *)
(* The inductive invariant PipelineInv says what each stage has made of    *)
(* the findings; the report is then a rearrangement of the results.        *)
(***************************************************************************)
EXTENDS ReportPipeline, InOrder_proofs

Audits == {SuppressedPackage(p, n) : p \in Range(Rules), n \in Nat \ {0}}
Listed == Emittable \cup Audits
ScannerNames == Range(Scanners) \cup {"suppression"}

-----------------------------------------------------------------------------
(* Findings *)

\* The severities that the report counts are these five.
LEMMA FiveSeverities == Range(Severities) = {"CRITICAL", "HIGH", "MEDIUM", "LOW", "INFO"}
  <1>1. DOMAIN Severities = 1..5
    BY DEF Severities
  <1>2. 1..5 = {1, 2, 3, 4, 5}
    OBVIOUS
  <1> QED BY <1>1, <1>2 DEF Range, Severities

\* What the stages rely on of a finding, or an audit entry in its place.
LEMMA ListedFacts ==
    ASSUME NEW f \in Listed
    PROVE  /\ f.sev \in Range(Severities) /\ f.ignored \in BOOLEAN /\ f.drops \in Nat
           /\ f.req \in CoveredReqs \cup {NotApplicable}
           /\ f.sev \in Actionable => f.req \in CoveredReqs
           /\ f.related # {} => f.req \in CoveredReqs
           /\ f \in Emittable <=> f.drops = 0
  <1>1. CASE f \in Emittable
    <2>1. PICK i \in DOMAIN Scanners : \E out \in Outputs[Scanners[i]] : f \in Range(out)
      BY <1>1 DEF Emittable
    <2>2. PICK out \in Outputs[Scanners[i]] : f \in Range(out)
      BY <2>1
    <2>3. PICK k \in DOMAIN out : f = out[k]
      BY <2>2 DEF Range
    <2>4. f.req \in CoveredReqs
      BY <2>3, PrimaryCovered DEF CoveredReqs
    <2> QED BY <1>1, <2>4, EmittableAssumption
  <1>2. CASE f \in Audits
    <2>1. PICK p \in Range(Rules), n \in Nat \ {0} : f = SuppressedPackage(p, n)
      BY <1>2 DEF Audits
    <2>2. /\ f.sev = "INFO" /\ f.req = NotApplicable /\ f.related = {} /\ f.drops = n
          /\ f.ignored \in BOOLEAN
      BY <2>1 DEF SuppressedPackage
    <2>3. f \notin Emittable
      BY <2>2, EmittableAssumption
    <2> QED BY <2>2, <2>3, FiveSeverities DEF Actionable
  <1> QED BY <1>1, <1>2 DEF Listed

\* Splitting the history of emissions into findings and scanner names keeps length
\* and places.
LEMMA EmissionFacts ==
    ASSUME NEW em \in Seq(Emissions)
    PROVE  /\ FindingsOf(em) \in Seq(Emittable) /\ NamesOf(em) \in Seq(Range(Scanners))
           /\ Len(FindingsOf(em)) = Len(em) /\ Len(NamesOf(em)) = Len(em)
           /\ DOMAIN FindingsOf(em) = 1..Len(em) /\ DOMAIN em = 1..Len(em) /\ Len(em) \in Nat
           /\ \A k \in 1..Len(em) : /\ FindingsOf(em)[k] = em[k].f /\ em[k].f \in Emittable
                                    /\ NamesOf(em)[k] = em[k].by
                                    /\ em[k] = [f |-> em[k].f, by |-> em[k].by]
  <1>1. DOMAIN em = 1..Len(em) /\ Len(em) \in Nat /\ \A k \in 1..Len(em) : em[k] \in Emissions
    OBVIOUS
  <1>2. \A k \in 1..Len(em) : /\ em[k].f \in Emittable /\ em[k].by \in Range(Scanners)
                              /\ em[k] = [f |-> em[k].f, by |-> em[k].by]
    BY <1>1 DEF Emissions
  <1>3. /\ FindingsOf(em) \in [1..Len(em) -> Emittable]
        /\ NamesOf(em) \in [1..Len(em) -> Range(Scanners)]
    BY <1>1, <1>2 DEF FindingsOf, NamesOf
  <1>4. /\ FindingsOf(em) \in Seq(Emittable) /\ NamesOf(em) \in Seq(Range(Scanners))
        /\ Len(FindingsOf(em)) = Len(em) /\ Len(NamesOf(em)) = Len(em)
    BY <1>1, <1>3
  <1> QED BY <1>1, <1>2, <1>3, <1>4 DEF FindingsOf, NamesOf

\* How many findings a pattern has dropped.
LEMMA MatchCountType ==
    ASSUME NEW V, NEW fs \in Seq(V), NEW p
    PROVE  MatchCount(fs, p) \in Nat
  <1> DEFINE S == {k \in DOMAIN fs : Excluded(fs[k]) /\ Rules[FirstRule(fs[k])] = p}
  <1>1. IsFiniteSet(1..Len(fs)) /\ DOMAIN fs = 1..Len(fs)
    BY FS_Interval
  <1>2. IsFiniteSet(S)
    BY <1>1, FS_Subset
  <1> QED BY <1>2, FS_CardinalityType DEF MatchCount

\* Of which rules there is an audit entry, and how many.
Hit(fs) == {i \in DOMAIN Rules : MatchCount(fs, Rules[i]) > 0}

\* There is one audit entry per exclude rule that some finding matches.
LEMMA AuditFacts ==
    ASSUME NEW V, NEW fs \in Seq(V)
    PROVE  /\ Hit(fs) \in SUBSET Int /\ IsFiniteSet(Hit(fs))
           /\ ExcludeReports(fs) \in Seq(Audits)
           /\ DOMAIN ExcludeReports(fs) = 1..Len(ExcludeReports(fs))
           /\ Len(ExcludeReports(fs)) = Cardinality(Hit(fs))
           /\ \A k \in DOMAIN ExcludeReports(fs) :
                ExcludeReports(fs)[k].drops = MatchCount(fs, Where(Rules, Hit(fs))[k])
  <1> DEFINE H == Hit(fs)
             hit == Where(Rules, H)
  <1>1. Rules \in Seq(Range(Rules))
    BY SequencesAssumption
  <1>2. H \in SUBSET Int /\ IsFiniteSet(H) /\ \A i \in H : Rules[i] \in Range(Rules)
    <2>1. IsFiniteSet(1..Len(Rules)) /\ DOMAIN Rules = 1..Len(Rules)
      BY <1>1, FS_Interval
    <2>2. H \in SUBSET (1..Len(Rules))
      BY <2>1 DEF Hit
    <2> QED BY <1>1, <2>1, <2>2, FS_Subset
  <1> HIDE DEF H
  <1>3. hit \in Seq(Range(Rules)) /\ DOMAIN hit = 1..Cardinality(H) /\ Cardinality(H) \in Nat
    BY <1>2, WhereType
  <1>4. \A k \in DOMAIN hit : \E i \in H : hit[k] = Rules[i]
    BY <1>2, WhereElements
  <1>5. \A k \in DOMAIN hit : hit[k] \in Range(Rules) /\ MatchCount(fs, hit[k]) \in Nat \ {0}
    <2> TAKE k \in DOMAIN hit
    <2>1. PICK i \in H : hit[k] = Rules[i]
      BY <1>4
    <2>2. MatchCount(fs, hit[k]) \in Nat /\ MatchCount(fs, Rules[i]) > 0
      BY MatchCountType DEF H, Hit
    <2> QED BY <1>2, <2>1, <2>2
  <1>6. ExcludeReports(fs) = [k \in DOMAIN hit |-> SuppressedPackage(hit[k], MatchCount(fs, hit[k]))]
    BY DEF ExcludeReports, H, Hit
  <1> HIDE DEF hit
  <1>7. ExcludeReports(fs) \in [1..Cardinality(H) -> Audits]
    BY <1>3, <1>5, <1>6 DEF Audits
  <1>8. /\ ExcludeReports(fs) \in Seq(Audits) /\ Len(ExcludeReports(fs)) = Cardinality(H)
        /\ DOMAIN ExcludeReports(fs) = 1..Cardinality(H)
    BY <1>3, <1>7
  <1>9. \A k \in 1..Cardinality(H) : ExcludeReports(fs)[k].drops = MatchCount(fs, hit[k])
    BY <1>3, <1>6 DEF SuppressedPackage
  <1> QED BY <1>2, <1>8, <1>9 DEF H, hit

\* The findings and the names after the exclusion are equally long, and those that
\* are not audit entries are the emissions outside excluded packages, in order.
LEMMA FilteredFacts ==
    ASSUME NEW em \in Seq(Emissions)
    PROVE  LET fs == FindingsOf(em)
               K == Kept(fs)
           IN  /\ K \in SUBSET (1..Len(em)) /\ IsFiniteSet(K) /\ Cardinality(K) \in Nat
               /\ K = {k \in 1..Len(em) : ~Excluded(em[k].f)}
               /\ Filtered(fs) = Where(fs, K) \o ExcludeReports(fs)
               /\ Filtered(fs) \in Seq(Listed)
               /\ Where(em, K) \in Seq(Emissions) /\ Len(Where(em, K)) = Cardinality(K)
               /\ Len(Where(fs, K)) = Cardinality(K) /\ Where(fs, K) \in Seq(Emittable)
               /\ Len(FilteredNames(NamesOf(em), fs)) = Len(Filtered(fs))
               /\ Len(Filtered(fs)) = Cardinality(K) + Len(ExcludeReports(fs))
               /\ \A k \in 1..Cardinality(K) :
                    /\ Filtered(fs)[k] = Where(em, K)[k].f
                    /\ FilteredNames(NamesOf(em), fs)[k] = Where(em, K)[k].by
               /\ \A k \in 1..Len(ExcludeReports(fs)) :
                    /\ Filtered(fs)[Cardinality(K) + k] = ExcludeReports(fs)[k]
                    /\ FilteredNames(NamesOf(em), fs)[Cardinality(K) + k] = "suppression"
  <1> DEFINE fs == FindingsOf(em)
             ns == NamesOf(em)
             K == Kept(fs)
             n == Cardinality(K)
             X == ExcludeReports(fs)
             sup == [k \in DOMAIN X |-> "suppression"]
  <1>1. /\ fs \in Seq(Emittable) /\ ns \in Seq(Range(Scanners)) /\ Len(em) \in Nat
        /\ DOMAIN fs = 1..Len(em)
        /\ \A k \in 1..Len(em) : /\ fs[k] = em[k].f /\ em[k].f \in Emittable
                                 /\ ns[k] = em[k].by /\ em[k] \in Emissions
    <2>1. \A k \in 1..Len(em) : em[k] \in Emissions
      OBVIOUS
    <2> QED BY <2>1, EmissionFacts
  <1>2. K \in SUBSET (1..Len(em)) /\ K = {k \in 1..Len(em) : ~Excluded(em[k].f)}
    BY <1>1 DEF Kept
  <1>3. IsFiniteSet(K) /\ K \in SUBSET Int
    <2>1. IsFiniteSet(1..Len(em))
      BY <1>1, FS_Interval
    <2> QED BY <1>2, <2>1, FS_Subset
  <1>4. X \in Seq(Audits) /\ DOMAIN X = 1..Len(X) /\ Len(X) \in Nat
    BY <1>1, AuditFacts
  <1>5. Filtered(fs) = Where(fs, K) \o X /\ FilteredNames(ns, fs) = Where(ns, K) \o sup
    BY DEF Filtered, FilteredNames, Kept
  <1>6. /\ \A i \in K : /\ fs[i] \in Emittable /\ ns[i] \in Range(Scanners)
                        /\ em[i] \in Emissions /\ fs[i] = em[i].f /\ ns[i] = em[i].by
    <2>1. \A i \in K : ns[i] \in Range(Scanners)
      BY <1>1, <1>2 DEF Emissions
    <2> QED BY <1>1, <1>2, <2>1
  <1>7. sup \in Seq(ScannerNames) /\ Len(sup) = Len(X) /\ \A k \in 1..Len(X) : sup[k] = "suppression"
    BY <1>4 DEF ScannerNames
  <1> HIDE DEF K, fs, ns, X, sup
  <1>8. PICK at : Lists(at, n, K) /\ Where(em, K) = Through(em, at, n)
    BY <1>3, WhereEnumerates
  <1>9. Where(fs, K) = Through(fs, at, n) /\ Where(ns, K) = Through(ns, at, n)
    BY <1>3, <1>8, WhereIs
  <1>10. /\ Where(em, K) \in Seq(Emissions) /\ Len(Where(em, K)) = n
         /\ Where(fs, K) \in Seq(Emittable) /\ Len(Where(fs, K)) = n
         /\ Where(ns, K) \in Seq(Range(Scanners)) /\ Len(Where(ns, K)) = n
         /\ n \in Nat
    BY <1>3, <1>6, WhereType
  <1>11. \A k \in 1..n : /\ Where(em, K)[k] = em[at[k]] /\ Where(fs, K)[k] = fs[at[k]]
                        /\ Where(ns, K)[k] = ns[at[k]] /\ at[k] \in K
    BY <1>8, <1>9 DEF Through, Lists
  <1> HIDE DEF n
  <1> DEFINE wf == Where(fs, K)
             wn == Where(ns, K)
             we == Where(em, K)
  <1>12. \A k \in 1..n : wf[k] = we[k].f /\ wn[k] = we[k].by
    BY <1>6, <1>11
  <1>13. /\ wf \in Seq(Listed) /\ X \in Seq(Listed) /\ Len(wf) = n
         /\ wn \in Seq(ScannerNames) /\ Len(wn) = n
    BY <1>4, <1>10 DEF Listed, ScannerNames
  <1> HIDE DEF wf, wn, we
  <1>14. /\ wf \o X \in Seq(Listed) /\ Len(wf \o X) = n + Len(X)
         /\ wn \o sup \in Seq(ScannerNames) /\ Len(wn \o sup) = n + Len(X)
    <2>1. wf \o X \in Seq(Listed) /\ Len(wf \o X) = Len(wf) + Len(X)
      BY <1>13, ConcatProperties
    <2>2. wn \o sup \in Seq(ScannerNames) /\ Len(wn \o sup) = Len(wn) + Len(sup)
      BY <1>7, <1>13, ConcatProperties
    <2> QED BY <1>7, <1>13, <2>1, <2>2
  <1>15. \A k \in 1..n : (wf \o X)[k] = we[k].f /\ (wn \o sup)[k] = we[k].by
    BY <1>4, <1>7, <1>10, <1>12, <1>13, ConcatProperties
  <1>16. \A k \in 1..Len(X) : (wf \o X)[n + k] = X[k] /\ (wn \o sup)[n + k] = "suppression"
    BY <1>4, <1>7, <1>10, <1>13
  <1>17. /\ Filtered(fs) = wf \o X /\ FilteredNames(ns, fs) = wn \o sup
    BY <1>5 DEF wf, wn
  <1>18. /\ K \in SUBSET (1..Len(em)) /\ IsFiniteSet(K) /\ n \in Nat
         /\ K = {k \in 1..Len(em) : ~Excluded(em[k].f)}
         /\ Filtered(fs) = Where(fs, K) \o X
         /\ Filtered(fs) \in Seq(Listed)
         /\ we \in Seq(Emissions) /\ Len(we) = n
         /\ Len(wf) = n /\ wf \in Seq(Emittable)
         /\ Len(FilteredNames(ns, fs)) = Len(Filtered(fs))
         /\ Len(Filtered(fs)) = n + Len(X)
         /\ \A k \in 1..n : Filtered(fs)[k] = we[k].f /\ FilteredNames(ns, fs)[k] = we[k].by
         /\ \A k \in 1..Len(X) :
              /\ Filtered(fs)[n + k] = X[k]
              /\ FilteredNames(ns, fs)[n + k] = "suppression"
    BY <1>2, <1>3, <1>5, <1>10, <1>13, <1>14, <1>15, <1>16, <1>17 DEF we, wf
  <1> QED BY <1>18 DEF K, n, fs, ns, X, we, wf

-----------------------------------------------------------------------------
(* The invariant *)

\* From the exclusion on the findings are listed ones with a name each.
LEMMA FindingsType ==
    ASSUME FindingsInv
    PROVE  findings \in Seq(Listed) /\ Len(names) = Len(findings)
  <1>1. emitted \in Seq(Emissions)
    BY DEF FindingsInv
  <1>2. CASE pc \in {"scan", "exclude"}
    <2>1. findings = FindingsOf(emitted) /\ names = NamesOf(emitted)
      BY <1>2 DEF FindingsInv
    <2>2. findings \in Seq(Emittable) /\ Len(names) = Len(findings)
      BY <1>1, <2>1, EmissionFacts
    <2> QED BY <2>2 DEF Listed
  <1>3. CASE pc \notin {"scan", "exclude"}
    <2>1. /\ findings = Filtered(FindingsOf(emitted))
          /\ names = FilteredNames(NamesOf(emitted), FindingsOf(emitted))
      BY <1>3 DEF FindingsInv
    <2> QED BY <1>1, <2>1, FilteredFacts
  <1> QED BY <1>2, <1>3

\* The suppression results stand in the places of the findings, each with its own flag.
LEMMA ResultsFacts ==
    ASSUME FindingsInv, results = Judged(findings)
    PROVE  /\ DOMAIN results = 1..Len(findings) /\ Len(findings) \in Nat
           /\ \A k \in DOMAIN results : /\ results[k].f = findings[k] /\ results[k].f \in Listed
                                        /\ results[k].suppressed = findings[k].ignored
                                        /\ results[k].suppressed \in BOOLEAN
  <1>1. findings \in Seq(Listed)
    BY FindingsType
  <1>2. DOMAIN findings = 1..Len(findings) /\ Len(findings) \in Nat
        /\ \A k \in DOMAIN findings : findings[k] \in Listed
    BY <1>1
  <1>3. \A k \in DOMAIN findings : findings[k].ignored \in BOOLEAN
    BY <1>2, ListedFacts
  <1> QED BY <1>2, <1>3 DEF Judged

\* A cross reference leads to a requirement that some scanner covers.
LEMMA PrimaryIsCovered ==
    ASSUME FindingsInv, results = Judged(findings), NEW r
    PROVE  /\ PrimaryOf(r) \in CoveredReqs \cup {NoPrimary}
           /\ LET naming == {k \in DOMAIN results :
                               ~results[k].suppressed /\ r \in results[k].f.related}
              IN  IF naming = {} THEN PrimaryOf(r) = NoPrimary
                  ELSE /\ PrimaryOf(r) # NoPrimary
                       /\ \E k \in naming : PrimaryOf(r) = results[k].f.req
  <1> DEFINE N == {k \in DOMAIN results : ~results[k].suppressed /\ r \in results[k].f.related}
  <1>1. /\ DOMAIN results = 1..Len(findings) /\ Len(findings) \in Nat
        /\ \A k \in DOMAIN results : results[k].f \in Listed
    BY ResultsFacts
  <1>2. N \in SUBSET Int /\ IsFiniteSet(N)
    <2>1. N \in SUBSET (1..Len(findings))
      BY <1>1
    <2>2. IsFiniteSet(1..Len(findings))
      BY <1>1, FS_Interval
    <2> HIDE DEF N
    <2>3. N \in SUBSET Int
      BY <2>1
    <2>4. IsFiniteSet(N)
      BY <2>1, <2>2, FS_Subset
    <2> QED BY <2>3, <2>4
  <1>3. CASE N = {}
    BY <1>3 DEF PrimaryOf
  <1>4. CASE N # {}
    <2> DEFINE k == CHOOSE i \in N : \A j \in N : i <= j
    <2>1. \E i \in N : \A j \in N : i <= j
      <3> HIDE DEF N
      <3> QED BY <1>2, <1>4, LeastMember
    <2>2. k \in N
      <3> HIDE DEF N
      <3> QED BY <2>1
    <2>3. PrimaryOf(r) = results[k].f.req
      BY <1>4 DEF PrimaryOf
    <2> HIDE DEF k
    <2>4. results[k].f.req \in CoveredReqs
      <3>1. results[k].f \in Listed /\ results[k].f.related # {}
        BY <1>1, <2>2
      <3> QED BY <3>1, ListedFacts
    <2>5. NoPrimary \notin CoveredReqs
      BY NamesAssumption, CoversAssumption DEF CoveredReqs
    <2> QED BY <1>4, <2>2, <2>3, <2>4, <2>5
  <1> QED BY <1>3, <1>4

\* The verdicts do not depend on anything but the results.
LEMMA ResultsKeep ==
    ASSUME results' = results
    PROVE  /\ \A r : PrimaryOf(r)' = PrimaryOf(r)
           /\ \A r : ClassifyRequirement(r)' = ClassifyRequirement(r)
  BY DEF PrimaryOf, ClassifyRequirement, ActiveOf, SuppressedOf

\* A requirement that is classified gets a verdict, never NOT_CHECKED.
LEMMA ClassifyType ==
    ASSUME NEW r
    PROVE  ClassifyRequirement(r) \in Statuses \ {"NOT_CHECKED"}
  BY DEF ClassifyRequirement, Statuses

\* Covered requirements are in the database, and the one on the inventory is not
\* covered.
LEMMA CoveredType == CoveredReqs \in SUBSET Reqs /\ SbomReq \in Reqs \ CoveredReqs
  BY CoversAssumption, SbomAssumption DEF CoveredReqs

\* A report starts in the invariant.
LEMMA InitInv == Init => PipelineInv
  <1> SUFFICES ASSUME Init PROVE PipelineInv
    OBVIOUS
  <1>1. Len(Scanners) \in Nat
    BY SequencesAssumption
  <1>2. TypeOK
    BY <1>1 DEF Init, TypeOK, Statuses
  <1>3. FindingsInv
    BY DEF Init, FindingsInv, FindingsOf, NamesOf
  <1> QED BY <1>2, <1>3 DEF Init, PipelineInv, ResultsInv, StatusInv, ReportInv, Done

\* more is what the findings out and the names own say together.
Named(more, out, own) ==
    /\ more \in Seq(Emissions) /\ out \in Seq(Emittable) /\ own \in Seq(Range(Scanners))
    /\ Len(own) = Len(out) /\ Len(more) = Len(out)
    /\ \A k \in 1..Len(out) : more[k].f = out[k] /\ more[k].by = own[k]

\* What one more scanner returns extends findings and names in step.
LEMMA ConcatEmissions ==
    ASSUME NEW em \in Seq(Emissions), NEW more, NEW out, NEW own, Named(more, out, own)
    PROVE  /\ em \o more \in Seq(Emissions)
           /\ FindingsOf(em \o more) = FindingsOf(em) \o out
           /\ NamesOf(em \o more) = NamesOf(em) \o own
  <1> DEFINE W == Range(Scanners)
             a == Len(em)
             b == Len(out)
             fs == FindingsOf(em)
             ns == NamesOf(em)
  <1>1. /\ a \in Nat /\ b \in Nat /\ DOMAIN em = 1..a /\ DOMAIN out = 1..b
        /\ out \in Seq(Emittable)
        /\ \A k \in 1..b : out[k] \in Emittable
    BY DEF Named
  <1>2. \A k \in 1..b : more[k].f = out[k] /\ more[k].by = own[k]
    BY DEF Named
  <1>3. own \in Seq(W) /\ Len(own) = b /\ more \in Seq(Emissions) /\ Len(more) = b
    BY DEF Named
  <1>4. /\ fs \in Seq(Emittable) /\ ns \in Seq(W) /\ Len(fs) = a /\ Len(ns) = a
        /\ \A k \in 1..a : fs[k] = em[k].f /\ ns[k] = em[k].by
    BY EmissionFacts
  <1> HIDE DEF W, a, b, fs, ns
  <1> DEFINE u == em \o more
             v == fs \o out
             w == ns \o own
  <1>5. /\ u \in Seq(Emissions) /\ v \in Seq(Emittable) /\ w \in Seq(W)
        /\ Len(u) = a + b /\ Len(v) = a + b /\ Len(w) = a + b
    <2>1. u \in Seq(Emissions) /\ Len(u) = a + b
      BY <1>1, <1>3, ConcatProperties DEF a
    <2>2. v \in Seq(Emittable) /\ Len(v) = a + b
      BY <1>1, <1>4, ConcatProperties DEF b
    <2>3. w \in Seq(W) /\ Len(w) = Len(ns) + Len(own)
      BY <1>3, <1>4, ConcatProperties
    <2> QED BY <1>3, <1>4, <2>1, <2>2, <2>3
  <1>6. \A k \in 1..(a + b) : v[k] = u[k].f /\ w[k] = u[k].by
    <2> SUFFICES ASSUME NEW k \in 1..(a + b) PROVE v[k] = u[k].f /\ w[k] = u[k].by
      OBVIOUS
    <2>1. CASE k <= a
      <3>1. k \in 1..a
        BY <1>1, <2>1
      <3>2. u[k] = em[k] /\ v[k] = fs[k] /\ w[k] = ns[k]
        BY <1>1, <1>3, <1>4, <3>1 DEF a
      <3> QED BY <1>4, <3>1, <3>2
    <2>2. CASE ~(k <= a)
      <3>1. k - a \in 1..b
        BY <1>1, <2>2
      <3>2. u[k] = more[k - a] /\ v[k] = out[k - a] /\ w[k] = own[k - a]
        BY <1>1, <1>3, <1>4, <2>2, <3>1 DEF a, b
      <3> QED BY <1>2, <3>1, <3>2
    <2> QED BY <2>1, <2>2
  <1>7. /\ DOMAIN u = 1..(a + b)
        /\ v = [k \in 1..(a + b) |-> v[k]] /\ w = [k \in 1..(a + b) |-> w[k]]
    <2>1. /\ u \in [1..(a + b) -> Emissions] /\ v \in [1..(a + b) -> Emittable]
          /\ w \in [1..(a + b) -> W]
      BY <1>5, LenProperties
    <2> QED BY <2>1
  <1> HIDE DEF u, v, w
  <1>8. FindingsOf(u) = v /\ NamesOf(u) = w
    BY <1>6, <1>7 DEF FindingsOf, NamesOf
  <1> QED BY <1>5, <1>8 DEF u, v, w, fs, ns

\* A scanner that returns keeps the invariant.
LEMMA ScannerReturnsInv ==
    ASSUME PipelineInv, next <= Len(Scanners), NEW out \in Outputs[Scanners[next]],
           ScannerReturns(out)
    PROVE  PipelineInv'
  <1> DEFINE n == Scanners[next]
             own == [k \in DOMAIN out |-> n]
             more == [k \in DOMAIN out |-> [f |-> out[k], by |-> own[k]]]
  <1>1. /\ pc = "scan" /\ pc' = "scan" /\ next \in 1..(Len(Scanners) + 1)
        /\ findings = FindingsOf(emitted) /\ names = NamesOf(emitted)
        /\ emitted \in Seq(Emissions) /\ Len(Scanners) \in Nat
    BY SequencesAssumption DEF ScannerReturns, PipelineInv, FindingsInv, TypeOK
  <1>2. /\ findings' = findings \o out /\ names' = names \o own
        /\ emitted' = emitted \o more
        /\ next' = next + 1
        /\ UNCHANGED <<pc, results, status, related, pending, report, failed>>
    BY DEF ScannerReturns
  <1>3. next \in DOMAIN Scanners /\ n \in Range(Scanners)
    BY <1>1, SequencesAssumption DEF Range
  <1>4. out \in Seq(Emittable)
    BY <1>3, SequencesAssumption
  <1>5. /\ emitted' \in Seq(Emissions)
        /\ findings' = FindingsOf(emitted') /\ names' = NamesOf(emitted')
    <2> DEFINE b == Len(out)
               W == Range(Scanners)
    <2>1. b \in Nat /\ DOMAIN out = 1..b /\ \A k \in 1..b : out[k] \in Emittable
      BY <1>4
    <2>2. \A k \in 1..b : /\ own[k] = n /\ more[k] = [f |-> out[k], by |-> n]
                         /\ more[k].f = out[k] /\ more[k].by = own[k]
      BY <2>1
    <2>3. own \in [1..b -> W] /\ more \in [1..b -> Emissions]
      BY <1>3, <2>1 DEF Emissions
    <2> HIDE DEF own, more, n, b, W
    <2>4. own \in Seq(W) /\ Len(own) = b /\ more \in Seq(Emissions) /\ Len(more) = b
      BY <2>1, <2>3, FunctionIsSequence
    <2>5. \A k \in 1..b : more[k].f = out[k] /\ more[k].by = own[k]
      BY <2>2
    <2>6. /\ emitted \o more \in Seq(Emissions)
          /\ FindingsOf(emitted \o more) = FindingsOf(emitted) \o out
          /\ NamesOf(emitted \o more) = NamesOf(emitted) \o own
      <3>1. Named(more, out, own)
        BY <1>4, <2>4, <2>5 DEF b, W, Named
      <3>2. emitted \in Seq(Emissions)
        BY <1>1
      <3> QED BY ONLY <3>1, <3>2, ConcatEmissions
    <2> QED BY <1>1, <1>2, <2>6
  <1>6. FindingsInv'
    BY <1>1, <1>5 DEF FindingsInv
  <1>7. TypeOK'
    <2>1. Len(names') = Len(findings')
      BY <1>5, EmissionFacts
    <2>2. next' \in 1..(Len(Scanners) + 1)
      BY <1>1, <1>2
    <2> QED BY <1>2, <2>1, <2>2 DEF PipelineInv, TypeOK
  <1> QED BY <1>1, <1>6, <1>7 DEF PipelineInv, ResultsInv, StatusInv, ReportInv, Done

\* A scanner that fails adds nothing, and keeps the invariant.
LEMMA ScannerFailsInv ==
    ASSUME PipelineInv, ScannerFails
    PROVE  PipelineInv'
  <1>1. /\ pc = "scan" /\ pc' = "scan" /\ next \in 1..(Len(Scanners) + 1) /\ next <= Len(Scanners)
        /\ next' = next + 1 /\ failed' = failed \cup {Scanners[next]} /\ Len(Scanners) \in Nat
        /\ UNCHANGED <<pc, findings, names, results, status, related, pending, report, emitted>>
    BY SequencesAssumption DEF ScannerFails, PipelineInv, TypeOK
  <1>2. Scanners[next] \in Range(Scanners) /\ next' \in 1..(Len(Scanners) + 1)
    BY <1>1, SequencesAssumption DEF Range
  <1>3. TypeOK'
    BY <1>1, <1>2 DEF PipelineInv, TypeOK
  <1>4. FindingsInv'
    BY <1>1 DEF PipelineInv, FindingsInv
  <1> QED BY <1>1, <1>3, <1>4 DEF PipelineInv, ResultsInv, StatusInv, ReportInv, Done

\* The end of the loop over the scanners keeps the invariant.
LEMMA ScannersDoneInv ==
    ASSUME PipelineInv, ScannersDone
    PROVE  PipelineInv'
  <1>1. TypeOK'
    BY DEF ScannersDone, PipelineInv, TypeOK
  <1>2. FindingsInv'
    BY DEF ScannersDone, PipelineInv, FindingsInv
  <1> QED BY <1>1, <1>2
          DEF ScannersDone, PipelineInv, ResultsInv, StatusInv, ReportInv, Done

\* The exclude-package stage filters findings and names alike, and keeps the invariant.
LEMMA ApplyPackageExclusionsInv ==
    ASSUME PipelineInv, ApplyPackageExclusions
    PROVE  PipelineInv'
  <1>1. FindingsInv'
    BY DEF ApplyPackageExclusions, PipelineInv, FindingsInv
  <1>2. Len(names') = Len(findings')
    <2>1. /\ emitted \in Seq(Emissions)
          /\ findings' = Filtered(FindingsOf(emitted))
          /\ names' = FilteredNames(NamesOf(emitted), FindingsOf(emitted))
      BY DEF ApplyPackageExclusions, PipelineInv, FindingsInv
    <2> QED BY <2>1, FilteredFacts
  <1>3. TypeOK'
    BY <1>2 DEF ApplyPackageExclusions, PipelineInv, TypeOK
  <1> QED BY <1>1, <1>3
          DEF ApplyPackageExclusions, PipelineInv, ResultsInv, StatusInv, ReportInv, Done

\* The suppression stage judges every finding that is left, and keeps the invariant.
LEMMA ApplySuppressionInv ==
    ASSUME PipelineInv, ApplySuppression
    PROVE  PipelineInv'
  <1>1. FindingsInv'
    BY DEF ApplySuppression, PipelineInv, FindingsInv
  <1>2. TypeOK'
    BY DEF ApplySuppression, PipelineInv, TypeOK
  <1> QED BY <1>1, <1>2
          DEF ApplySuppression, PipelineInv, ResultsInv, StatusInv, ReportInv, Done

\* Classification keeps the invariant: what is not covered waits for its primary.
LEMMA BuildRequirementStatusInv ==
    ASSUME PipelineInv, BuildRequirementStatus
    PROVE  PipelineInv'
  <1>1. /\ pc = "status" /\ pc' = "propagate"
        /\ status' = [r \in Reqs |->
                         IF r \in CoveredReqs THEN ClassifyRequirement(r) ELSE "NOT_CHECKED"]
        /\ related' = [r \in Reqs |-> PrimaryOf(r)]
        /\ pending' = {r \in Reqs : PrimaryOf(r) # NoPrimary}
        /\ UNCHANGED <<next, findings, names, results, report, emitted, failed>>
    BY DEF BuildRequirementStatus
  <1>2. FindingsInv' /\ FindingsInv /\ results = Judged(findings)
    BY <1>1 DEF PipelineInv, FindingsInv, ResultsInv
  <1>3. \A r \in Reqs : PrimaryOf(r) \in Reqs \cup {NoPrimary}
    BY <1>2, PrimaryIsCovered, CoveredType
  <1>4. TypeOK'
    <2>1. status' \in [Reqs -> Statuses]
      BY <1>1, ClassifyType DEF Statuses
    <2> QED BY <1>1, <1>3, <2>1 DEF PipelineInv, TypeOK
  <1>5. StatusInv'
    BY <1>1, ResultsKeep, CoveredType DEF StatusInv
  <1> QED BY <1>1, <1>2, <1>4, <1>5 DEF PipelineInv, ResultsInv, ReportInv, Done

\* Giving one related requirement the verdict of its primary keeps the invariant,
\* whichever it is.
LEMMA PropagateInv ==
    ASSUME PipelineInv, NEW r, PropagateCrossReference(r)
    PROVE  PipelineInv'
  <1>1. /\ pc = "propagate" /\ pc' = "propagate" /\ r \in pending /\ r \in Reqs
        /\ pending' = pending \ {r}
        /\ status' = IF status[r] = "NOT_CHECKED" /\ related[r] \in Reqs
                     THEN [status EXCEPT ![r] = status[related[r]]] ELSE status
        /\ UNCHANGED <<pc, next, findings, names, results, related, report, emitted, failed>>
    BY DEF PropagateCrossReference, PipelineInv, TypeOK
  <1>2. FindingsInv' /\ FindingsInv /\ results = Judged(findings)
    BY <1>1 DEF PipelineInv, FindingsInv, ResultsInv
  <1>3. status \in [Reqs -> Statuses] /\ StatusInv
    BY DEF PipelineInv, TypeOK
  <1>4. TypeOK'
    <2>1. status' \in [Reqs -> Statuses]
      BY <1>1, <1>3
    <2> QED BY <1>1, <2>1 DEF PipelineInv, TypeOK
  <1>5. /\ related = [q \in Reqs |-> PrimaryOf(q)]
        /\ \A q \in CoveredReqs : status[q] = ClassifyRequirement(q)
        /\ \A q \in Reqs \ (CoveredReqs \cup {SbomReq}) :
             status[q] = IF q \in pending \/ PrimaryOf(q) = NoPrimary THEN "NOT_CHECKED"
                         ELSE status[PrimaryOf(q)]
    BY <1>1, <1>3 DEF StatusInv
  <1>6. \A q : PrimaryOf(q) \in CoveredReqs \cup {NoPrimary}
    BY <1>2, PrimaryIsCovered
  <1>7. \A q \in CoveredReqs : status'[q] = status[q]
    <2> TAKE q \in CoveredReqs
    <2>1. status[q] # "NOT_CHECKED" /\ q \in Reqs
      BY <1>5, ClassifyType, CoveredType
    <2> QED BY <1>1, <1>3, <2>1
  <1>8. \A q \in Reqs \ (CoveredReqs \cup {SbomReq}) :
          status'[q] = IF q \in pending' \/ PrimaryOf(q) = NoPrimary THEN "NOT_CHECKED"
                       ELSE status'[PrimaryOf(q)]
    <2> TAKE q \in Reqs \ (CoveredReqs \cup {SbomReq})
    <2>1. CASE q # r
      <3>1. status'[q] = status[q] /\ (q \in pending' <=> q \in pending)
        BY <1>1, <1>3, <2>1
      <3> QED BY <1>5, <1>6, <1>7, <3>1
    <2>2. CASE q = r /\ PrimaryOf(q) = NoPrimary
      <3>1. related[r] \notin Reqs /\ status[q] = "NOT_CHECKED"
        BY <1>1, <1>5, <2>2, NamesAssumption
      <3> QED BY <1>1, <2>2, <3>1
    <2>3. CASE q = r /\ PrimaryOf(q) # NoPrimary
      <3>1. /\ related[r] = PrimaryOf(q) /\ PrimaryOf(q) \in CoveredReqs /\ PrimaryOf(q) \in Reqs
            /\ status[q] = "NOT_CHECKED"
        BY <1>1, <1>5, <1>6, <2>3, CoveredType
      <3>2. status'[q] = status[PrimaryOf(q)]
        BY <1>1, <1>3, <2>3, <3>1
      <3> QED BY <1>1, <1>7, <2>3, <3>1, <3>2
    <2> QED BY <2>1, <2>2, <2>3
  <1>9. StatusInv'
    BY <1>1, <1>5, <1>7, <1>8, ResultsKeep DEF StatusInv
  <1> QED BY <1>1, <1>2, <1>4, <1>9 DEF PipelineInv, ResultsInv, ReportInv, Done

\* The verdict on the inventory touches no other, and keeps the invariant.
LEMMA AddSBOMInv ==
    ASSUME PipelineInv, NEW ok, AddSBOMInventoryStatus(ok)
    PROVE  PipelineInv'
  <1>1. /\ pc = "propagate" /\ pc' = "build" /\ pending = {}
        /\ status' = [status EXCEPT ![SbomReq] = IF ok THEN "PASS" ELSE "FAIL"]
        /\ UNCHANGED <<next, findings, names, results, related, pending, report, emitted, failed>>
    BY DEF AddSBOMInventoryStatus
  <1>2. FindingsInv' /\ FindingsInv /\ results = Judged(findings)
    BY <1>1 DEF PipelineInv, FindingsInv, ResultsInv
  <1>3. status \in [Reqs -> Statuses] /\ StatusInv
    BY DEF PipelineInv, TypeOK
  <1>4. TypeOK'
    <2>1. status' \in [Reqs -> Statuses]
      BY <1>1, <1>3 DEF Statuses
    <2> QED BY <1>1, <2>1 DEF PipelineInv, TypeOK
  <1>5. /\ \A q \in Reqs \ {SbomReq} : status'[q] = status[q]
        /\ \A q : PrimaryOf(q) \in CoveredReqs \cup {NoPrimary}
        /\ \A q \in CoveredReqs : q \in Reqs \ {SbomReq}
    BY <1>1, <1>2, <1>3, PrimaryIsCovered, CoveredType
  <1>6. \A q \in Reqs \ (CoveredReqs \cup {SbomReq}) :
          status'[q] = IF q \in pending' \/ PrimaryOf(q) = NoPrimary THEN "NOT_CHECKED"
                       ELSE status'[PrimaryOf(q)]
    BY <1>1, <1>3, <1>5 DEF StatusInv
  <1>7. \A q \in CoveredReqs : status'[q] = ClassifyRequirement(q)
    BY <1>1, <1>3, <1>5 DEF StatusInv
  <1>8. related' = [q \in Reqs |-> PrimaryOf(q)] /\ pending' = {}
    BY <1>1, <1>3 DEF StatusInv
  <1>9. StatusInv'
    BY <1>1, <1>6, <1>7, <1>8, ResultsKeep DEF StatusInv
  <1> QED BY <1>1, <1>2, <1>4, <1>9 DEF PipelineInv, ResultsInv, ReportInv, Done

\* The report depends on the results, the names and the verdicts alone.
LEMMA ReportKeeps ==
    ASSUME UNCHANGED <<names, results, status>>
    PROVE  Report' = Report
  BY DEF Report, SortBySeverity, Bucket, Pick, Entries, BuildReportSummary, Count

\* Building the report keeps the invariant.
LEMMA BuildReportInv ==
    ASSUME PipelineInv, BuildReport
    PROVE  PipelineInv'
  <1>1. /\ pc = "build" /\ pc' = "done" /\ report' = Report
        /\ UNCHANGED <<next, findings, names, results, status, related, pending, emitted, failed>>
    BY DEF BuildReport
  <1>2. TypeOK'
    BY <1>1 DEF PipelineInv, TypeOK
  <1>3. FindingsInv' /\ ResultsInv'
    BY <1>1 DEF PipelineInv, FindingsInv, ResultsInv
  <1>4. StatusInv'
    BY <1>1, ResultsKeep DEF PipelineInv, StatusInv
  <1>5. ReportInv'
    BY <1>1, ReportKeeps DEF ReportInv
  <1> QED BY <1>2, <1>3, <1>4, <1>5 DEF PipelineInv

\* A step that changes nothing keeps the invariant.
LEMMA StutterInv ==
    ASSUME PipelineInv, UNCHANGED vars
    PROVE  PipelineInv'
  <1>1. TypeOK'
    BY DEF vars, PipelineInv, TypeOK
  <1>2. FindingsInv' /\ ResultsInv'
    BY DEF vars, PipelineInv, FindingsInv, ResultsInv
  <1>3. StatusInv'
    BY ResultsKeep DEF vars, PipelineInv, StatusInv
  <1>4. ReportInv'
    BY ReportKeeps DEF vars, PipelineInv, ReportInv, Done
  <1> QED BY <1>1, <1>2, <1>3, <1>4 DEF PipelineInv

\* GenerateWithOptions: at every stage the findings, the results, the verdicts and
\* the report are what the stages so far make of what the scanners returned.
THEOREM PipelineInvariant == Spec => []PipelineInv
  <1>1. PipelineInv /\ [Next]_vars => PipelineInv'
    <2> SUFFICES ASSUME PipelineInv, [Next]_vars PROVE PipelineInv'
      OBVIOUS
    <2>1. ASSUME next <= Len(Scanners), NEW out \in Outputs[Scanners[next]], ScannerReturns(out)
          PROVE  PipelineInv'
      BY <2>1, ScannerReturnsInv
    <2>2. CASE ScannerFails
      BY <2>2, ScannerFailsInv
    <2>3. CASE ScannersDone
      BY <2>3, ScannersDoneInv
    <2>4. CASE ApplyPackageExclusions
      BY <2>4, ApplyPackageExclusionsInv
    <2>5. CASE ApplySuppression
      BY <2>5, ApplySuppressionInv
    <2>6. CASE BuildRequirementStatus
      BY <2>6, BuildRequirementStatusInv
    <2>7. ASSUME NEW r \in pending, PropagateCrossReference(r)
          PROVE  PipelineInv'
      BY <2>7, PropagateInv
    <2>8. ASSUME NEW ok \in BOOLEAN, AddSBOMInventoryStatus(ok)
          PROVE  PipelineInv'
      BY <2>8, AddSBOMInv
    <2>9. CASE BuildReport
      BY <2>9, BuildReportInv
    <2>10. CASE UNCHANGED vars
      BY <2>10, StutterInv
    <2> QED BY <2>1, <2>2, <2>3, <2>4, <2>5, <2>6, <2>7, <2>8, <2>9, <2>10 DEF Next, Finished
  <1> QED BY <1>1, InitInv, PTL DEF Spec

\* The findings and their names, which report.go indexes with one counter, stay
\* equally long through scanning and exclusion, and every verdict is a status.
THEOREM PipelineTypes == Spec => []TypeOK
  <1>1. PipelineInv => TypeOK
    BY DEF PipelineInv
  <1> QED BY <1>1, PipelineInvariant, PTL

-----------------------------------------------------------------------------
(* The finished report *)

OfSeverity(es, sev) == {k \in DOMAIN es : es[k].f.sev = sev}

\* Sorting by severity loses nothing and repeats nothing.
LEMMA SortDraws ==
    ASSUME NEW V, NEW es \in Seq(V), \A k \in DOMAIN es : es[k].f.sev \in Range(Severities)
    PROVE  Drawn(SortBySeverity(es), es, DOMAIN es)
  <1> DEFINE C == OfSeverity(es, "CRITICAL")
             H == OfSeverity(es, "HIGH")
             M == OfSeverity(es, "MEDIUM")
             L == OfSeverity(es, "LOW")
             I == OfSeverity(es, "INFO")
  <1>1. /\ DOMAIN es = 1..Len(es) /\ Len(es) \in Nat
        /\ \A k \in DOMAIN es : es[k] \in V
        /\ \A k \in DOMAIN es : es[k].f.sev \in {"CRITICAL", "HIGH", "MEDIUM", "LOW", "INFO"}
    BY FiveSeverities
  <1>2. /\ C \subseteq DOMAIN es /\ H \subseteq DOMAIN es /\ M \subseteq DOMAIN es
        /\ L \subseteq DOMAIN es /\ I \subseteq DOMAIN es
        /\ DOMAIN es = C \cup H \cup M \cup L \cup I
        /\ C \cap H = {} /\ (C \cup H) \cap M = {} /\ (C \cup H \cup M) \cap L = {}
        /\ (C \cup H \cup M \cup L) \cap I = {}
    BY <1>1 DEF OfSeverity
  <1>3. ASSUME NEW sev
        PROVE  Drawn(Bucket(es, sev), es, OfSeverity(es, sev))
    <2> DEFINE S == OfSeverity(es, sev)
    <2>1. S \in SUBSET (1..Len(es)) /\ Bucket(es, sev) = Where(es, S)
      BY <1>1 DEF OfSeverity, Bucket
    <2> HIDE DEF S
    <2>2. IsFiniteSet(1..Len(es))
      BY <1>1, FS_Interval
    <2>3. S \in SUBSET Int
      BY <2>1
    <2>4. IsFiniteSet(S)
      BY <2>1, <2>2, FS_Subset
    <2>5. Drawn(Where(es, S), es, S)
      BY <2>3, <2>4, DrawnWhere
    <2> QED BY <2>1, <2>5 DEF S
  <1> DEFINE bc == Bucket(es, "CRITICAL")
             bh == Bucket(es, "HIGH")
             bm == Bucket(es, "MEDIUM")
             bl == Bucket(es, "LOW")
             bi == Bucket(es, "INFO")
  <1>4. /\ Drawn(bc, es, C) /\ Drawn(bh, es, H) /\ Drawn(bm, es, M) /\ Drawn(bl, es, L)
        /\ Drawn(bi, es, I)
    BY <1>3
  <1>5. SortBySeverity(es) = bc \o bh \o bm \o bl \o bi
    BY DEF SortBySeverity
  <1>6. \A i \in DOMAIN es : es[i] \in V
    BY <1>1
  <1> HIDE DEF C, H, M, L, I, bc, bh, bm, bl, bi
  <1>7. Drawn(bc \o bh, es, C \cup H)
    BY <1>2, <1>4, <1>6, DrawnConcat
  <1>8. Drawn(bc \o bh \o bm, es, C \cup H \cup M)
    BY <1>2, <1>4, <1>6, <1>7, DrawnConcat
  <1>9. Drawn(bc \o bh \o bm \o bl, es, C \cup H \cup M \cup L)
    BY <1>2, <1>4, <1>6, <1>8, DrawnConcat
  <1>10. Drawn(bc \o bh \o bm \o bl \o bi, es, C \cup H \cup M \cup L \cup I)
    BY <1>2, <1>4, <1>6, <1>9, DrawnConcat
  <1> QED BY <1>2, <1>5, <1>10

\* The results that the report lists as active, or under its suppressions.
Verdict(b) == {k \in DOMAIN results : results[k].suppressed = b}

\* The report rearranges the results: what is active on one list, the rest on
\* the other, each with the name that belongs to it.
LEMMA ReportDraws ==
    ASSUME PipelineInv, Done
    PROVE  /\ Drawn(report.findings, Entries, Verdict(FALSE))
           /\ Drawn(report.suppressions, Entries, Verdict(TRUE))
           /\ report.summary = BuildReportSummary(report.findings)
           /\ DOMAIN results = 1..Len(findings) /\ Len(findings) \in Nat
           /\ Verdict(FALSE) \cup Verdict(TRUE) = DOMAIN results
           /\ Verdict(FALSE) \cap Verdict(TRUE) = {}
           /\ \A k \in DOMAIN results :
                /\ results[k].f = findings[k] /\ results[k].f \in Listed
                /\ results[k].suppressed \in BOOLEAN
                /\ Entries[k] = [f |-> results[k].f, by |-> names[k]]
                /\ Entries[k].f = results[k].f
  <1>1. FindingsInv /\ results = Judged(findings) /\ report = Report
    BY DEF PipelineInv, ResultsInv, ReportInv, Done
  <1>2. /\ DOMAIN results = 1..Len(findings) /\ Len(findings) \in Nat
        /\ \A k \in DOMAIN results : /\ results[k].f = findings[k] /\ results[k].f \in Listed
                                     /\ results[k].suppressed \in BOOLEAN
    BY <1>1, ResultsFacts
  <1>3. \A k \in DOMAIN results : /\ Entries[k] = [f |-> results[k].f, by |-> names[k]]
                                  /\ Entries[k].f = results[k].f
    BY DEF Entries
  <1>4. ASSUME NEW b \in BOOLEAN
        PROVE  Drawn(Pick(b), Entries, Verdict(b))
    <2> DEFINE S == Verdict(b)
    <2>1. S \in SUBSET (1..Len(findings)) /\ Pick(b) = Where(Entries, S)
      BY <1>2 DEF Verdict, Pick
    <2> HIDE DEF S
    <2>2. IsFiniteSet(1..Len(findings))
      BY <1>2, FS_Interval
    <2>3. S \in SUBSET Int
      BY <1>2, <2>1
    <2>4. IsFiniteSet(S)
      BY <2>1, <2>2, FS_Subset
    <2>5. Drawn(Where(Entries, S), Entries, S)
      BY <2>3, <2>4, DrawnWhere
    <2> QED BY <2>1, <2>5 DEF S
  <1>5. Drawn(SortBySeverity(Pick(FALSE)), Entries, Verdict(FALSE))
    <2> DEFINE es == Pick(FALSE)
               V == Range(Entries)
               F == Verdict(FALSE)
    <2>1. Drawn(es, Entries, F) /\ F \subseteq DOMAIN results /\ DOMAIN Entries = DOMAIN results
      BY <1>4 DEF Verdict, Entries
    <2>2. \A i \in F : Entries[i] \in V /\ Entries[i].f \in Listed
      BY <1>2, <1>3, <2>1 DEF Range
    <2> HIDE DEF es, V, F
    <2>3. es \in Seq(V) /\ \A k \in DOMAIN es : \E i \in F : es[k] = Entries[i]
      <3>1. \A k \in DOMAIN es : \E i \in F : es[k] = Entries[i]
        BY <2>1, DrawnElements
      <3>2. \A i \in F : Entries[i] \in V
        BY <2>2
      <3>3. es \in Seq(V)
        BY <2>1, <3>2, DrawnType
      <3> QED BY <3>1, <3>3
    <2>4. \A k \in DOMAIN es : es[k].f.sev \in Range(Severities)
      <3> TAKE k \in DOMAIN es
      <3>1. es[k].f \in Listed
        BY <2>2, <2>3
      <3> QED BY <3>1, ListedFacts
    <2>5. Drawn(SortBySeverity(es), es, DOMAIN es)
      BY <2>3, <2>4, SortDraws
    <2>6. Drawn(SortBySeverity(es), Entries, F)
      BY <2>1, <2>5, DrawnFrom
    <2> QED BY <2>6 DEF es, F
  <1>6. /\ report.findings = SortBySeverity(Pick(FALSE)) /\ report.suppressions = Pick(TRUE)
        /\ report.summary = BuildReportSummary(report.findings)
    BY <1>1 DEF Report
  <1>7. /\ Verdict(FALSE) \cup Verdict(TRUE) = DOMAIN results
        /\ Verdict(FALSE) \cap Verdict(TRUE) = {}
    BY <1>2 DEF Verdict
  <1>8. Drawn(Pick(TRUE), Entries, Verdict(TRUE))
    BY <1>4
  <1> QED BY <1>2, <1>3, <1>5, <1>6, <1>7, <1>8

\* Exactly the results that no rule suppresses are on the list of findings.
LEMMA ListedActive ==
    ASSUME PipelineInv, Done
    PROVE  /\ \A k \in DOMAIN report.findings :
                \E i \in DOMAIN results : ~results[i].suppressed /\ report.findings[k].f = results[i].f
           /\ \A i \in DOMAIN results :
                ~results[i].suppressed => \E k \in DOMAIN report.findings :
                                             report.findings[k].f = results[i].f
  <1> DEFINE F == Verdict(FALSE)
  <1>1. /\ Drawn(report.findings, Entries, F)
        /\ \A k \in DOMAIN results : /\ results[k].suppressed \in BOOLEAN
                                     /\ Entries[k].f = results[k].f
    BY ReportDraws
  <1>2. \A i \in F : i \in DOMAIN results /\ ~results[i].suppressed
    BY DEF Verdict
  <1>3. \A i \in DOMAIN results : ~results[i].suppressed => i \in F
    BY <1>1 DEF Verdict
  <1> HIDE DEF F
  <1>5. /\ \A k \in DOMAIN report.findings : \E i \in F : report.findings[k] = Entries[i]
        /\ \A i \in F : \E k \in DOMAIN report.findings : report.findings[k] = Entries[i]
    BY <1>1, DrawnElements
  <1>6. ASSUME NEW k \in DOMAIN report.findings
        PROVE  \E i \in DOMAIN results :
                 ~results[i].suppressed /\ report.findings[k].f = results[i].f
    <2>1. PICK i \in F : report.findings[k] = Entries[i]
      BY <1>5
    <2> QED BY <1>1, <1>2, <2>1
  <1>7. ASSUME NEW i \in DOMAIN results, ~results[i].suppressed
        PROVE  \E k \in DOMAIN report.findings : report.findings[k].f = results[i].f
    <2>1. PICK k \in DOMAIN report.findings : report.findings[k] = Entries[i]
      BY <1>3, <1>5, <1>7
    <2> QED BY <1>1, <2>1
  <1> QED BY <1>6, <1>7

\* report.go buildRequirementStatus: a scanned requirement fails exactly if the
\* finished report lists an active CRITICAL, HIGH or MEDIUM finding of it.
THEOREM PipelineFails == Spec => []FailIffShown
  <1>1. PipelineInv => FailIffShown
    <2> SUFFICES ASSUME PipelineInv, Done, NEW r \in CoveredReqs \ {SbomReq}
                 PROVE  status[r] = "FAIL" <=>
                          \E k \in DOMAIN report.findings :
                             report.findings[k].f.req = r /\ report.findings[k].f.sev \in Actionable
      BY DEF FailIffShown
    <2>1. status[r] = ClassifyRequirement(r)
      BY DEF PipelineInv, StatusInv, Done
    <2>2. status[r] = "FAIL" <=>
            \E i \in DOMAIN results : /\ results[i].f.req = r /\ ~results[i].suppressed
                                      /\ results[i].f.sev \in Actionable
      BY <2>1 DEF ClassifyRequirement, ActiveOf
    <2> QED BY <2>2, ListedActive
  <1> QED BY <1>1, PipelineInvariant, PTL

\* report.go propagateCrossReferences: in whatever order Go walks the map, a
\* requirement nobody scans has the verdict of a listed finding that names it.
THEOREM PipelineCrossReference == Spec => []CrossReferenceStable
  <1>1. PipelineInv => CrossReferenceStable
    <2> SUFFICES ASSUME PipelineInv, Done, NEW r \in Reqs \ (CoveredReqs \cup {SbomReq})
                 PROVE  LET naming == {k \in DOMAIN report.findings :
                                         r \in report.findings[k].f.related}
                        IN  IF naming = {} THEN status[r] = "NOT_CHECKED"
                            ELSE \E k \in naming : status[r] = status[report.findings[k].f.req]
      BY DEF CrossReferenceStable
    <2> DEFINE naming == {k \in DOMAIN report.findings : r \in report.findings[k].f.related}
               N == {k \in DOMAIN results : ~results[k].suppressed /\ r \in results[k].f.related}
    <2>1. status[r] = IF PrimaryOf(r) = NoPrimary THEN "NOT_CHECKED" ELSE status[PrimaryOf(r)]
      BY DEF PipelineInv, StatusInv, Done
    <2>2. FindingsInv /\ results = Judged(findings)
      BY DEF PipelineInv, ResultsInv, Done
    <2>3. IF N = {} THEN PrimaryOf(r) = NoPrimary
          ELSE PrimaryOf(r) # NoPrimary /\ \E k \in N : PrimaryOf(r) = results[k].f.req
      BY <2>2, PrimaryIsCovered
    <2>4. \A k \in naming : \E i \in N : TRUE
      BY ListedActive
    <2>5. \A i \in N : \E k \in naming : report.findings[k].f.req = results[i].f.req
      BY ListedActive
    <2>6. CASE N = {}
      BY <2>1, <2>3, <2>4, <2>6
    <2>7. CASE N # {}
      <3>1. PICK i \in N : PrimaryOf(r) = results[i].f.req
        BY <2>3, <2>7
      <3>2. PICK k \in naming : report.findings[k].f.req = results[i].f.req
        BY <2>5
      <3>3. status[r] = status[report.findings[k].f.req]
        BY <2>1, <2>3, <2>7, <3>1, <3>2
      <3> QED BY <3>2, <3>3
    <2> QED BY <2>6, <2>7
  <1> QED BY <1>1, PipelineInvariant, PTL

-----------------------------------------------------------------------------
(* Counting *)

\* The sizes of disjoint finite sets add up.
LEMMA CountUnion ==
    ASSUME NEW A, NEW B, IsFiniteSet(A), IsFiniteSet(B), A \cap B = {}
    PROVE  /\ Cardinality(A \cup B) = Cardinality(A) + Cardinality(B)
           /\ IsFiniteSet(A \cup B)
           /\ Cardinality(A) \in Nat /\ Cardinality(B) \in Nat
  <1>1. Cardinality(A) \in Nat /\ Cardinality(B) \in Nat
    BY FS_CardinalityType
  <1>2. Cardinality(A \cap B) = 0
    BY FS_EmptySet
  <1>3. /\ IsFiniteSet(A \cup B)
        /\ Cardinality(A \cup B) = Cardinality(A) + Cardinality(B) - Cardinality(A \cap B)
    BY FS_Union
  <1> QED BY <1>1, <1>2, <1>3

\* What the results are made of: the emissions outside excluded packages, in
\* order and with their names, and the audit entries.
LEMMA EntriesAre ==
    ASSUME PipelineInv, Done
    PROVE  LET K == Kept(FindingsOf(emitted))
               X == ExcludeReports(FindingsOf(emitted))
               n == Cardinality(K)
           IN  /\ Len(findings) = n + Len(X) /\ n \in Nat /\ Len(X) \in Nat
               /\ \A k \in 1..n : Entries[k] = Where(emitted, K)[k]
               /\ \A k \in 1..Len(X) : Entries[n + k].f = X[k]
  <1> DEFINE K == Kept(FindingsOf(emitted))
             X == ExcludeReports(FindingsOf(emitted))
             n == Cardinality(K)
             w == Where(emitted, K)
  <1>1. /\ emitted \in Seq(Emissions)
        /\ findings = Filtered(FindingsOf(emitted))
        /\ names = FilteredNames(NamesOf(emitted), FindingsOf(emitted))
    BY DEF PipelineInv, FindingsInv, Done
  <1>2. /\ n \in Nat /\ w \in Seq(Emissions) /\ Len(w) = n /\ Len(findings) = n + Len(X)
        /\ \A k \in 1..n : findings[k] = w[k].f /\ names[k] = w[k].by
        /\ \A k \in 1..Len(X) : findings[n + k] = X[k]
    BY <1>1, FilteredFacts
  <1>3. Len(X) \in Nat
    <2>1. FindingsOf(emitted) \in Seq(Emittable)
      BY <1>1, EmissionFacts
    <2>2. X \in Seq(Audits)
      BY <2>1, AuditFacts
    <2> QED BY <2>2
  <1> HIDE DEF K, X, n, w
  <1>4. /\ DOMAIN results = 1..(n + Len(X))
        /\ \A k \in DOMAIN results : /\ results[k].f = findings[k]
                                     /\ Entries[k] = [f |-> results[k].f, by |-> names[k]]
                                     /\ Entries[k].f = results[k].f
    BY <1>2, ReportDraws
  <1>5. ASSUME NEW k \in 1..n
        PROVE  Entries[k] = w[k]
    <2>1. w[k] \in Emissions
      BY <1>2
    <2>2. w[k] = [f |-> w[k].f, by |-> w[k].by]
      BY <2>1 DEF Emissions
    <2>3. k \in DOMAIN results
      BY <1>2, <1>3, <1>4
    <2>4. Entries[k] = [f |-> findings[k], by |-> names[k]]
      BY <1>4, <2>3
    <2>5. findings[k] = w[k].f /\ names[k] = w[k].by
      BY <1>2
    <2> QED BY <2>2, <2>4, <2>5
  <1>6. ASSUME NEW k \in 1..Len(X)
        PROVE  Entries[n + k].f = X[k]
    <2>1. n + k \in DOMAIN results
      BY <1>2, <1>3, <1>4
    <2> QED BY <1>2, <1>4, <2>1
  <1> QED BY <1>2, <1>3, <1>5, <1>6 DEF K, X, n, w

\* docs/usage.md "never silently dropped": whatever the scanners return and the
\* ignore file says, every finding outside an excluded package is in the report
\* exactly as often as it was emitted, under its scanner's name.
THEOREM PipelineDropsNothing == Spec => []NeverSilentlyDropped
  <1>1. PipelineInv => NeverSilentlyDropped
    <2> SUFFICES ASSUME PipelineInv, Done, NEW m \in DOMAIN emitted, ~Excluded(emitted[m].f)
                 PROVE  Occurrences(emitted[m], report.findings)
                          + Occurrences(emitted[m], report.suppressions)
                        = Occurrences(emitted[m], emitted)
      BY DEF NeverSilentlyDropped
    <2> DEFINE e == emitted[m]
               D == DOMAIN results
               F == Verdict(FALSE)
               T == Verdict(TRUE)
               K == Kept(FindingsOf(emitted))
               X == ExcludeReports(FindingsOf(emitted))
               n == Cardinality(K)
               w == Where(emitted, K)
               In(S) == {i \in S : Entries[i] \in {e}}
               rf == report.findings
               rs == report.suppressions
               all == Entries
    <2>1. /\ emitted \in Seq(Emissions) /\ DOMAIN emitted = 1..Len(emitted) /\ Len(emitted) \in Nat
          /\ e.f \in Emittable /\ ~Excluded(e.f)
      <3>1. emitted \in Seq(Emissions)
        BY DEF PipelineInv, FindingsInv
      <3> QED BY <3>1, EmissionFacts
    <2>2. /\ Drawn(rf, all, F) /\ Drawn(rs, all, T) /\ F \cup T = D /\ F \cap T = {}
          /\ D = 1..Len(findings)
      BY ReportDraws
    <2>3. /\ Len(findings) = n + Len(X) /\ n \in Nat /\ Len(X) \in Nat
          /\ \A k \in 1..n : Entries[k] = w[k]
          /\ \A k \in 1..Len(X) : Entries[n + k].f = X[k]
      BY EntriesAre
    <2>4. /\ Occurrences(e, rf) = Cardinality({k \in DOMAIN rf : rf[k] \in {e}})
          /\ Occurrences(e, rs) = Cardinality({k \in DOMAIN rs : rs[k] \in {e}})
      BY DEF Occurrences
    <2>5. /\ K \in SUBSET (1..Len(emitted)) /\ IsFiniteSet(K)
          /\ K = {k \in 1..Len(emitted) : ~Excluded(emitted[k].f)}
          /\ DOMAIN w = 1..n
      <3>1. /\ K \in SUBSET (1..Len(emitted)) /\ IsFiniteSet(K)
            /\ K = {k \in 1..Len(emitted) : ~Excluded(emitted[k].f)}
            /\ w \in Seq(Emissions) /\ Len(w) = n
        BY <2>1, FilteredFacts
      <3> QED BY <3>1
    <2>6. \A k \in 1..Len(X) : X[k] \notin Emittable
      <3>1. FindingsOf(emitted) \in Seq(Emittable)
        BY <2>1, EmissionFacts
      <3>2. X \in Seq(Audits)
        BY <3>1, AuditFacts
      <3>3. \A k \in 1..Len(X) : X[k] \in Audits
        BY <3>2
      <3>4. ASSUME NEW f \in Audits PROVE f \notin Emittable
        <4>1. PICK p \in Range(Rules), c \in Nat \ {0} : f = SuppressedPackage(p, c)
          BY DEF Audits
        <4>2. f.drops = c
          BY <4>1 DEF SuppressedPackage
        <4> QED BY <4>2, EmittableAssumption
      <3> QED BY <3>3, <3>4
    <2> HIDE DEF e, D, F, T, K, X, n, w, rf, rs, all
    <2>7. /\ Cardinality({k \in DOMAIN rf : rf[k] \in {e}}) = Cardinality({i \in F : all[i] \in {e}})
          /\ Cardinality({k \in DOMAIN rs : rs[k] \in {e}}) = Cardinality({i \in T : all[i] \in {e}})
          /\ IsFiniteSet(F) /\ IsFiniteSet(T)
      <3> DEFINE P == {e}
      <3> HIDE DEF P
      <3>1. /\ Cardinality(Among(rf, DOMAIN rf, P)) = Cardinality(Among(all, F, P))
            /\ IsFiniteSet(F)
        BY <2>2, DrawnCount
      <3>2. /\ Cardinality(Among(rs, DOMAIN rs, P)) = Cardinality(Among(all, T, P))
            /\ IsFiniteSet(T)
        BY <2>2, DrawnCount
      <3> QED BY <3>1, <3>2 DEF P, Among
    <2>8. Cardinality(In(F)) + Cardinality(In(T)) = Cardinality(In(D))
      <3>1. /\ In(F) \subseteq F /\ In(T) \subseteq T /\ In(F) \cap In(T) = {}
            /\ In(D) = In(F) \cup In(T)
        BY <2>2
      <3>2. IsFiniteSet(In(F)) /\ IsFiniteSet(In(T))
        BY <2>7, <3>1, FS_Subset
      <3> HIDE DEF In
      <3>3. Cardinality(In(F) \cup In(T)) = Cardinality(In(F)) + Cardinality(In(T))
        BY <3>1, <3>2, CountUnion
      <3> QED BY <3>1, <3>3
    <2>9. In(D) = {k \in 1..n : w[k] = e}
      <3>1. ASSUME NEW i \in D, Entries[i] = e
            PROVE  i \in 1..n /\ w[i] = e
        <4>1. CASE i \in 1..n
          BY <2>3, <3>1, <4>1
        <4>2. CASE i \notin 1..n
          <5>1. i - n \in 1..Len(X) /\ i = n + (i - n)
            BY <2>2, <2>3, <4>2
          <5>2. PICK k \in 1..Len(X) : i = n + k
            BY <5>1
          <5>3. Entries[i].f \notin Emittable
            BY <2>3, <2>6, <5>2
          <5> QED BY <2>1, <3>1, <5>3
        <4> QED BY <4>1, <4>2
      <3>2. ASSUME NEW i \in 1..n, w[i] = e
            PROVE  i \in D /\ Entries[i] = e
        BY <2>2, <2>3, <3>2
      <3> QED BY <3>1, <3>2
    <2>10. Occurrences(e, w) = Cardinality({k \in 1..n : w[k] = e})
      BY <2>5 DEF Occurrences
    <2>11. Occurrences(e, w) = Cardinality({i \in K : emitted[i] = e})
      <3>1. K \in SUBSET Int
        BY <2>1, <2>5
      <3>2. Occurrences(e, Where(emitted, K)) = Cardinality({i \in K : emitted[i] = e})
        BY <2>5, <3>1, OccurrencesWhere
      <3> QED BY <3>2 DEF w
    <2>12. {i \in K : emitted[i] = e} = {i \in DOMAIN emitted : emitted[i] = e}
      BY <2>1, <2>5
    <2>13. Occurrences(e, rf) + Occurrences(e, rs) = Occurrences(e, emitted)
      <3>1. Occurrences(e, rf) = Cardinality(In(F)) /\ Occurrences(e, rs) = Cardinality(In(T))
        BY <2>4, <2>7 DEF all
      <3>2. Occurrences(e, emitted) = Cardinality({i \in DOMAIN emitted : emitted[i] = e})
        BY DEF Occurrences
      <3>3. Cardinality(In(D)) = Occurrences(e, emitted)
        BY <2>9, <2>10, <2>11, <2>12, <3>2
      <3> HIDE DEF In
      <3> QED BY <2>8, <3>1, <3>3
    <2> QED BY <2>13 DEF e, rf, rs
  <1> QED BY <1>1, PipelineInvariant, PTL

\* A set in five parts has as many members as they have together.
FiveParts(S, A, B, C, D, E) ==
    /\ S = A \cup B \cup C \cup D \cup E /\ A \cap B = {} /\ (A \cup B) \cap C = {}
    /\ (A \cup B \cup C) \cap D = {} /\ (A \cup B \cup C \cup D) \cap E = {}

\* The sizes of five parts add up to the size of the whole.
LEMMA CountFive ==
    ASSUME NEW S, IsFiniteSet(S), NEW A, NEW B, NEW C, NEW D, NEW E,
           FiveParts(S, A, B, C, D, E)
    PROVE  Cardinality(A) + Cardinality(B) + Cardinality(C) + Cardinality(D) + Cardinality(E)
             = Cardinality(S)
  <1>1. A \in SUBSET S /\ B \in SUBSET S /\ C \in SUBSET S /\ D \in SUBSET S /\ E \in SUBSET S
    BY DEF FiveParts
  <1>2. IsFiniteSet(A) /\ IsFiniteSet(B) /\ IsFiniteSet(C) /\ IsFiniteSet(D) /\ IsFiniteSet(E)
    BY <1>1, FS_Subset
  <1>3. /\ Cardinality(A \cup B) = Cardinality(A) + Cardinality(B) /\ IsFiniteSet(A \cup B)
    BY <1>2, CountUnion DEF FiveParts
  <1>4. /\ Cardinality(A \cup B \cup C) = Cardinality(A \cup B) + Cardinality(C)
        /\ IsFiniteSet(A \cup B \cup C)
    BY <1>2, <1>3, CountUnion DEF FiveParts
  <1>5. /\ Cardinality(A \cup B \cup C \cup D) = Cardinality(A \cup B \cup C) + Cardinality(D)
        /\ IsFiniteSet(A \cup B \cup C \cup D)
    BY <1>2, <1>4, CountUnion DEF FiveParts
  <1>6. Cardinality(A \cup B \cup C \cup D \cup E)
          = Cardinality(A \cup B \cup C \cup D) + Cardinality(E)
    BY <1>2, <1>5, CountUnion DEF FiveParts
  <1> QED BY <1>3, <1>4, <1>5, <1>6 DEF FiveParts

\* The requirements by verdict.
OfStatus(st) == {r \in Reqs : status[r] = st}

\* The counts per status add up to the number of requirements, and a FAIL is counted.
LEMMA StatusesAddUp ==
    ASSUME status \in [Reqs -> Statuses]
    PROVE  /\ Count("PASS") + Count("FAIL") + Count("SUPPRESSED") + Count("NOT_CHECKED")
                = Cardinality(Reqs)
           /\ \A r \in Reqs : status[r] = "FAIL" => Count("FAIL") # 0
  <1> DEFINE A == OfStatus("PASS")
             B == OfStatus("FAIL")
             C == OfStatus("SUPPRESSED")
             D == OfStatus("NOT_CHECKED")
             E == {}
  <1>1. /\ Count("PASS") = Cardinality(A) /\ Count("FAIL") = Cardinality(B)
        /\ Count("SUPPRESSED") = Cardinality(C) /\ Count("NOT_CHECKED") = Cardinality(D)
    BY DEF Count, OfStatus
  <1>2. FiveParts(Reqs, A, B, C, D, E)
    BY DEF OfStatus, Statuses, FiveParts
  <1>3. /\ A \in SUBSET Reqs /\ B \in SUBSET Reqs /\ C \in SUBSET Reqs /\ D \in SUBSET Reqs
        /\ \A r \in Reqs : status[r] = "FAIL" => r \in B
    BY DEF OfStatus
  <1>4. Cardinality(E) = 0
    BY FS_EmptySet
  <1> HIDE DEF A, B, C, D, E
  <1>5. /\ IsFiniteSet(A) /\ IsFiniteSet(B) /\ IsFiniteSet(C) /\ IsFiniteSet(D)
    BY <1>3, ReqsAssumption, FS_Subset
  <1>6. /\ Cardinality(A) \in Nat /\ Cardinality(B) \in Nat /\ Cardinality(C) \in Nat
        /\ Cardinality(D) \in Nat
    BY <1>5, FS_CardinalityType
  <1>7. Cardinality(A) + Cardinality(B) + Cardinality(C) + Cardinality(D) + Cardinality(E)
          = Cardinality(Reqs)
    BY <1>2, ReqsAssumption, CountFive
  <1>8. \A r \in Reqs : status[r] = "FAIL" => Cardinality(B) # 0
    BY <1>3, <1>5, FS_EmptySet
  <1> QED BY <1>1, <1>4, <1>6, <1>7, <1>8

\* docs/ci-cd.md gate: the summary's counts add up to the requirements and to the
\* results, and no failed requirement means no actionable finding.
THEOREM PipelineSummary == Spec => []SummaryHonest
  <1>1. PipelineInv => SummaryHonest
    <2> SUFFICES ASSUME PipelineInv, Done
                 PROVE  /\ report.summary.fail = 0 =>
                             \A k \in DOMAIN report.findings :
                                report.findings[k].f.sev \notin Actionable
                        /\ report.summary.checked + report.summary.notChecked
                             = report.summary.total
                        /\ LET n == report.summary.severity
                           IN  n[1] + n[2] + n[3] + n[4] + n[5] + Len(report.suppressions)
                                 = Len(results)
      BY DEF SummaryHonest
    <2> DEFINE rf == report.findings
               rs == report.suppressions
               all == Entries
               F == Verdict(FALSE)
               T == Verdict(TRUE)
    <2>1. /\ Drawn(rf, all, F) /\ Drawn(rs, all, T) /\ F \cup T = DOMAIN results /\ F \cap T = {}
          /\ DOMAIN results = 1..Len(findings) /\ Len(findings) \in Nat
          /\ report.summary = BuildReportSummary(rf)
          /\ \A k \in DOMAIN results : results[k].f \in Listed
      BY ReportDraws
    <2>2. status \in [Reqs -> Statuses]
      BY DEF PipelineInv, TypeOK
    <2>3. ASSUME report.summary.fail = 0, NEW k \in DOMAIN rf
          PROVE  rf[k].f.sev \notin Actionable
      <3> SUFFICES ASSUME rf[k].f.sev \in Actionable PROVE FALSE
        OBVIOUS
      <3>1. PICK i \in DOMAIN results : ~results[i].suppressed /\ rf[k].f = results[i].f
        BY ListedActive
      <3>2. results[i].f \in Listed
        BY <2>1
      <3>3. results[i].f.req \in CoveredReqs
        BY <3>1, <3>2, ListedFacts
      <3>4. status[results[i].f.req] = ClassifyRequirement(results[i].f.req)
        BY <3>3 DEF PipelineInv, StatusInv, Done
      <3>5. status[results[i].f.req] = "FAIL"
        BY <3>1, <3>4 DEF ClassifyRequirement, ActiveOf
      <3>6. Count("FAIL") # 0
        BY <2>2, <3>3, <3>5, CoveredType, StatusesAddUp
      <3> QED BY <2>1, <2>3, <3>6 DEF BuildReportSummary
    <2>4. report.summary.checked + report.summary.notChecked = report.summary.total
      <3>1. Count("PASS") + Count("FAIL") + Count("SUPPRESSED") + Count("NOT_CHECKED")
              = Cardinality(Reqs)
        BY <2>2, StatusesAddUp
      <3>2. /\ report.summary.checked = Count("PASS") + Count("FAIL") + Count("SUPPRESSED")
            /\ report.summary.notChecked = Count("NOT_CHECKED")
            /\ report.summary.total = Cardinality(Reqs)
        BY <2>1 DEF BuildReportSummary
      <3> QED BY <3>1, <3>2
    <2>5. Len(results) = Len(findings)
      <3>1. results = Judged(findings) /\ findings \in Seq(Listed)
        BY FindingsType DEF PipelineInv, ResultsInv, Done
      <3>2. Judged(findings) \in Seq(Range(Judged(findings)))
        <4>1. DOMAIN Judged(findings) = 1..Len(findings)
          BY <2>1, <3>1
        <4>2. Judged(findings) \in [1..Len(findings) -> Range(Judged(findings))]
          BY <4>1 DEF Judged, Range
        <4> QED BY <2>1, <4>2, FunctionIsSequence
      <3>3. DOMAIN results = 1..Len(results) /\ Len(results) \in Nat
        BY <3>1, <3>2
      <3> QED BY <2>1, <3>3
    <2>6. \A k \in DOMAIN rf : rf[k].f.sev \in {"CRITICAL", "HIGH", "MEDIUM", "LOW", "INFO"}
      <3> TAKE k \in DOMAIN rf
      <3>1. PICK i \in DOMAIN results : rf[k].f = results[i].f
        BY ListedActive
      <3> QED BY <2>1, <3>1, ListedFacts, FiveSeverities
    <2> DEFINE C == OfSeverity(rf, "CRITICAL")
               H == OfSeverity(rf, "HIGH")
               M == OfSeverity(rf, "MEDIUM")
               L == OfSeverity(rf, "LOW")
               I == OfSeverity(rf, "INFO")
               n == report.summary.severity
    <2>7. /\ n[1] = Cardinality(C) /\ n[2] = Cardinality(H) /\ n[3] = Cardinality(M)
          /\ n[4] = Cardinality(L) /\ n[5] = Cardinality(I)
      <3>1. n = [i \in DOMAIN Severities |-> Cardinality(OfSeverity(rf, Severities[i]))]
        BY <2>1 DEF BuildReportSummary, OfSeverity
      <3>2. /\ DOMAIN Severities = 1..5 /\ Severities[1] = "CRITICAL" /\ Severities[2] = "HIGH"
            /\ Severities[3] = "MEDIUM" /\ Severities[4] = "LOW" /\ Severities[5] = "INFO"
        BY DEF Severities
      <3> HIDE DEF n
      <3> QED BY <3>1, <3>2
    <2>8. /\ DOMAIN rf = C \cup H \cup M \cup L \cup I
          /\ C \cap H = {} /\ (C \cup H) \cap M = {} /\ (C \cup H \cup M) \cap L = {}
          /\ (C \cup H \cup M \cup L) \cap I = {}
      BY <2>6 DEF OfSeverity
    <2> HIDE DEF rf, rs, all, F, T, C, H, M, L, I, n
    <2>9. /\ DOMAIN rf = 1..Cardinality(F) /\ Cardinality(F) \in Nat /\ IsFiniteSet(F)
          /\ DOMAIN rs = 1..Cardinality(T) /\ Cardinality(T) \in Nat /\ IsFiniteSet(T)
      BY <2>1, DrawnCount
    <2>10. Cardinality(C) + Cardinality(H) + Cardinality(M) + Cardinality(L) + Cardinality(I)
             = Cardinality(F)
      <3> DEFINE R == DOMAIN rf
      <3>1. IsFiniteSet(R) /\ Cardinality(R) = Cardinality(F)
        BY <2>9, FS_Interval
      <3> HIDE DEF R
      <3>2. FiveParts(R, C, H, M, L, I)
        BY <2>8 DEF R, FiveParts
      <3>3. Cardinality(C) + Cardinality(H) + Cardinality(M) + Cardinality(L) + Cardinality(I)
              = Cardinality(R)
        BY <3>1, <3>2, CountFive
      <3> QED BY <3>1, <3>3
    <2>11. Cardinality(F) + Cardinality(T) = Len(findings)
      <3>1. Cardinality(F \cup T) = Cardinality(F) + Cardinality(T)
        BY <2>1, <2>9, CountUnion
      <3> DEFINE m == Len(findings)
      <3>2. m \in Nat
        BY <2>1
      <3> HIDE DEF m
      <3>3. Cardinality(1..m) = m
        BY <3>2, FS_Interval
      <3> QED BY <2>1, <3>1, <3>3 DEF m
    <2>12. Len(rs) = Cardinality(T)
      <3> DEFINE V == Range(all)
      <3>1. \A i \in T : all[i] \in V
        BY <2>1 DEF Range, all, Entries
      <3> HIDE DEF V
      <3>2. rs \in Seq(V)
        BY <2>1, <3>1, DrawnType
      <3>3. DOMAIN rs = 1..Len(rs) /\ Len(rs) \in Nat
        BY <3>2
      <3> QED BY <2>9, <3>3
    <2>13. n[1] + n[2] + n[3] + n[4] + n[5] + Len(rs) = Len(results)
      BY <2>5, <2>7, <2>9, <2>10, <2>11, <2>12
    <2> QED BY <2>3, <2>4, <2>13 DEF rf, rs, n
  <1> QED BY <1>1, PipelineInvariant, PTL

-----------------------------------------------------------------------------
(* The audit entries *)

\* A set in parts M[k]: there are as many pairs of a part and a number up to its
\* size as the set has members.
PartsOf(M, c, D, E) ==
    /\ \A k \in D : M[k] \in SUBSET E /\ IsFiniteSet(M[k]) /\ Cardinality(M[k]) = c[k]
    /\ \A k, m \in D : k # m => M[k] \cap M[m] = {}
    /\ \A x \in E : \E k \in D : x \in M[k]

Numbered(c, D) == UNION {{k} \X (1..c[k]) : k \in D}

\* A finite set has as many elements as the parts it falls into, counted one by one.
LEMMA CountParts ==
    ASSUME NEW E, IsFiniteSet(E), NEW D, NEW c, NEW M, PartsOf(M, c, D, E)
    PROVE  Cardinality(Numbered(c, D)) = Cardinality(E)
  <1> DEFINE P == Numbered(c, D)
             b == [k \in D |-> CHOOSE f : f \in Bijection(1..c[k], M[k])]
             g == [x \in P |-> b[x[1]][x[2]]]
  <1>1. \A k \in D : M[k] \in SUBSET E /\ IsFiniteSet(M[k]) /\ Cardinality(M[k]) = c[k]
    BY DEF PartsOf
  <1>2. ASSUME NEW k \in D
        PROVE  b[k] \in Bijection(1..c[k], M[k])
    <2>1. ExistsBijection(1..c[k], M[k])
      BY <1>1, FS_CardinalityType
    <2> QED BY <2>1 DEF ExistsBijection
  <1> HIDE DEF b
  <1>3. ASSUME NEW k \in D
        PROVE  /\ \A j \in 1..c[k] : b[k][j] \in M[k]
               /\ \A i, j \in 1..c[k] : b[k][i] = b[k][j] => i = j
               /\ \A x \in M[k] : \E j \in 1..c[k] : b[k][j] = x
    BY <1>2 DEF Bijection, Injection, Surjection, IsInjective
  <1>4. /\ \A x \in P : \E k \in D : \E j \in 1..c[k] : x = <<k, j>>
        /\ \A k \in D : \A j \in 1..c[k] : <<k, j>> \in P
    BY DEF Numbered
  <1> HIDE DEF P
  <1>5. g \in [P -> E]
    <2>1. ASSUME NEW x \in P PROVE b[x[1]][x[2]] \in E
      <3>1. PICK k \in D : \E j \in 1..c[k] : x = <<k, j>>
        BY <1>4
      <3>2. PICK j \in 1..c[k] : x = <<k, j>>
        BY <3>1
      <3>3. b[k][j] \in M[k] /\ x[1] = k /\ x[2] = j
        BY <1>3, <3>2
      <3> QED BY <1>1, <3>3
    <2> QED BY <2>1
  <1>6. \A x, y \in P : g[x] = g[y] => x = y
    <2> SUFFICES ASSUME NEW x \in P, NEW y \in P, g[x] = g[y] PROVE x = y
      OBVIOUS
    <2>1. PICK k \in D : \E i \in 1..c[k] : x = <<k, i>>
      BY <1>4
    <2>2. PICK i \in 1..c[k] : x = <<k, i>>
      BY <2>1
    <2>3. PICK m \in D : \E j \in 1..c[m] : y = <<m, j>>
      BY <1>4
    <2>4. PICK j \in 1..c[m] : y = <<m, j>>
      BY <2>3
    <2>5. b[k][i] = b[m][j]
      BY <2>2, <2>4
    <2>6. k = m
      <3>1. b[k][i] \in M[k] /\ b[m][j] \in M[m]
        BY <1>3
      <3> QED BY <2>5, <3>1 DEF PartsOf
    <2>7. i = j
      BY <1>3, <2>5, <2>6
    <2> QED BY <2>2, <2>4, <2>6, <2>7
  <1>7. \A e \in E : \E x \in P : g[x] = e
    <2> TAKE e \in E
    <2>1. PICK k \in D : e \in M[k]
      BY DEF PartsOf
    <2>2. PICK j \in 1..c[k] : b[k][j] = e
      BY <1>3, <2>1
    <2>3. <<k, j>> \in P /\ g[<<k, j>>] = e
      BY <1>4, <2>2
    <2> QED BY <2>3
  <1> HIDE DEF g
  <1>8. g \in Bijection(P, E)
    BY <1>5, <1>6, <1>7, Fun_IsBij
  <1>9. ExistsBijection(P, E)
    BY <1>8 DEF ExistsBijection
  <1>10. ExistsBijection(E, P)
    BY <1>9, Fun_ExistsBijSymmetric
  <1> QED BY <1>10, FS_Bijection DEF P

\* The first rule that matches an excluded finding is one of the rules.
LEMMA FirstRuleMatches ==
    ASSUME NEW f, Excluded(f)
    PROVE  FirstRule(f) \in DOMAIN Rules
  <1> DEFINE S == {i \in DOMAIN Rules : Rules[i] \in f.pkgs}
  <1>1. DOMAIN Rules = 1..Len(Rules) /\ Len(Rules) \in Nat
    BY SequencesAssumption
  <1>2. S \in SUBSET (1..Len(Rules)) /\ S # {}
    BY <1>1 DEF Excluded
  <1>3. \E i \in S : \A j \in S : i <= j
    <2> HIDE DEF S
    <2>1. IsFiniteSet(1..Len(Rules))
      BY <1>1, FS_Interval
    <2>2. S \in SUBSET Int
      BY <1>2
    <2>3. IsFiniteSet(S)
      BY <1>2, <2>1, FS_Subset
    <2> QED BY <1>2, <2>2, <2>3, LeastMember
  <1>4. \E i \in DOMAIN Rules :
          Rules[i] \in f.pkgs /\ \A j \in DOMAIN Rules : j < i => Rules[j] \notin f.pkgs
    <2>1. PICK i \in S : \A j \in S : i <= j
      BY <1>3
    <2>2. \A j \in DOMAIN Rules : j < i => Rules[j] \notin f.pkgs
      BY <1>1, <2>1
    <2> QED BY <2>1, <2>2
  <1> QED BY <1>4 DEF FirstRule

\* The findings that are booked under a pattern.
BookedUnder(fs, p) == {k \in DOMAIN fs : Excluded(fs[k]) /\ Rules[FirstRule(fs[k])] = p}

\* The audit entries divide the excluded findings among them.
LEMMA AuditsDivide ==
    ASSUME NEW V, NEW fs \in Seq(V), NoRepeatedRule
    PROVE  LET hit == Where(Rules, Hit(fs))
               X == ExcludeReports(fs)
               M == [q \in DOMAIN X |-> BookedUnder(fs, hit[q])]
           IN  PartsOf(M, [q \in DOMAIN X |-> X[q].drops], DOMAIN X,
                       {k \in DOMAIN fs : Excluded(fs[k])})
  <1> DEFINE H == Hit(fs)
             hit == Where(Rules, H)
             X == ExcludeReports(fs)
             D == DOMAIN X
             M == [q \in D |-> BookedUnder(fs, hit[q])]
             c == [q \in D |-> X[q].drops]
             E == {k \in DOMAIN fs : Excluded(fs[k])}
  <1>1. /\ H \in SUBSET Int /\ IsFiniteSet(H) /\ D = 1..Cardinality(H)
        /\ \A q \in D : X[q].drops = MatchCount(fs, hit[q])
    BY AuditFacts
  <1>2. /\ DOMAIN fs = 1..Len(fs) /\ Len(fs) \in Nat /\ H \subseteq DOMAIN Rules
    BY DEF Hit
  <1>3. ASSUME NEW p
        PROVE  /\ BookedUnder(fs, p) \in SUBSET E /\ IsFiniteSet(BookedUnder(fs, p))
               /\ Cardinality(BookedUnder(fs, p)) = MatchCount(fs, p)
    <2> DEFINE B == BookedUnder(fs, p)
    <2>1. B \in SUBSET E /\ B \in SUBSET (1..Len(fs)) /\ Cardinality(B) = MatchCount(fs, p)
      BY <1>2 DEF BookedUnder, MatchCount
    <2> HIDE DEF B
    <2>2. IsFiniteSet(1..Len(fs))
      BY <1>2, FS_Interval
    <2>3. IsFiniteSet(B)
      BY <2>1, <2>2, FS_Subset
    <2> QED BY <2>1, <2>3 DEF B
  <1>4. PICK at : Lists(at, Cardinality(H), H) /\ hit = Through(Rules, at, Cardinality(H))
    <2> HIDE DEF H
    <2> QED BY <1>1, WhereEnumerates
  <1>5. /\ \A q \in D : hit[q] = Rules[at[q]] /\ at[q] \in H
        /\ \A q, m \in D : at[q] = at[m] => q = m
        /\ \A i \in H : \E q \in D : at[q] = i
    <2> HIDE DEF H
    <2>1. at \in Bijection(1..Cardinality(H), H)
      BY <1>1, <1>4, ListsBijection
    <2>2. /\ \A q \in D : at[q] \in H
          /\ \A q, m \in D : at[q] = at[m] => q = m
          /\ \A i \in H : \E q \in D : at[q] = i
      BY <1>1, <2>1 DEF Bijection, Injection, Surjection, IsInjective
    <2>3. \A q \in D : hit[q] = Rules[at[q]]
      BY <1>1, <1>4 DEF Through
    <2> QED BY <2>2, <2>3
  <1> HIDE DEF D, X, hit, H
  <1>6. \A q \in D : M[q] \in SUBSET E /\ IsFiniteSet(M[q]) /\ Cardinality(M[q]) = c[q]
    BY <1>1, <1>3
  <1>7. \A q, m \in D : q # m => M[q] \cap M[m] = {}
    <2> SUFFICES ASSUME NEW q \in D, NEW m \in D, NEW k \in M[q] \cap M[m] PROVE q = m
      OBVIOUS
    <2>1. Rules[at[q]] = Rules[at[m]]
      BY <1>5 DEF BookedUnder
    <2>2. at[q] = at[m]
      BY <1>2, <1>5, <2>1 DEF NoRepeatedRule
    <2> QED BY <1>5, <2>2
  <1>8. \A k \in E : \E q \in D : k \in M[q]
    <2> TAKE k \in E
    <2> DEFINE i == FirstRule(fs[k])
               B == BookedUnder(fs, Rules[i])
    <2>1. i \in DOMAIN Rules /\ k \in B
      BY FirstRuleMatches DEF BookedUnder
    <2>2. Cardinality(B) = MatchCount(fs, Rules[i]) /\ IsFiniteSet(B)
      BY <1>3
    <2>3. MatchCount(fs, Rules[i]) \in Nat
      BY MatchCountType
    <2>4. MatchCount(fs, Rules[i]) > 0
      <3> HIDE DEF B
      <3>1. Cardinality(B) # 0
        BY <2>1, <2>2, FS_EmptySet
      <3> QED BY <2>2, <2>3, <3>1
    <2>5. i \in H
      BY <2>1, <2>4 DEF H, Hit
    <2> HIDE DEF i
    <2>6. PICK q \in D : at[q] = i
      BY <1>5, <2>5
    <2>7. M[q] = B
      BY <1>5, <2>6
    <2> QED BY <2>1, <2>7
  <1>9. PartsOf(M, c, D, E)
    BY <1>6, <1>7, <1>8 DEF PartsOf
  <1> QED BY <1>9 DEF D, X, hit, H

\* suppression.go: the counts on the audit entries, wherever the report lists
\* them, add up to the findings that exclude-package dropped, unless the ignore
\* file repeats a pattern.
THEOREM PipelineExclusions == Spec => []ExclusionsAccounted
  <1>1. PipelineInv => ExclusionsAccounted
    <2> SUFFICES ASSUME PipelineInv, Done, NoRepeatedRule
                 PROVE  Cardinality(Dropped(report.findings \o report.suppressions))
                          = Cardinality({k \in DOMAIN emitted : Excluded(emitted[k].f)})
      BY DEF ExclusionsAccounted
    <2> DEFINE fs == FindingsOf(emitted)
               K == Kept(fs)
               n == Cardinality(K)
               X == ExcludeReports(fs)
               x == Len(X)
               w == Where(emitted, K)
               D == DOMAIN results
               E == {k \in DOMAIN fs : Excluded(fs[k])}
               all == Entries
               rf == report.findings
               rs == report.suppressions
               r == rf \o rs
               P == [q \in DOMAIN X |-> BookedUnder(fs, Where(Rules, Hit(fs))[q])]
               d == [q \in DOMAIN X |-> X[q].drops]
    <2>1. /\ emitted \in Seq(Emissions) /\ fs \in Seq(Emittable)
          /\ DOMAIN fs = 1..Len(emitted) /\ DOMAIN emitted = 1..Len(emitted) /\ Len(emitted) \in Nat
          /\ \A k \in 1..Len(emitted) : fs[k] = emitted[k].f
      <3>1. emitted \in Seq(Emissions)
        BY DEF PipelineInv, FindingsInv
      <3> QED BY <3>1, EmissionFacts
    <2>2. E = {k \in DOMAIN emitted : Excluded(emitted[k].f)} /\ IsFiniteSet(E)
      <3>1. E = {k \in DOMAIN emitted : Excluded(emitted[k].f)} /\ E \in SUBSET (1..Len(emitted))
        BY <2>1
      <3> HIDE DEF E
      <3>2. IsFiniteSet(1..Len(emitted))
        BY <2>1, FS_Interval
      <3> QED BY <3>1, <3>2, FS_Subset
    <2>3. PartsOf(P, d, DOMAIN X, E)
      BY <2>1, AuditsDivide
    <2>4. DOMAIN X = 1..x /\ x \in Nat
      <3>1. X \in Seq(Audits)
        BY <2>1, AuditFacts
      <3> QED BY <3>1
    <2>5. /\ Len(findings) = n + x /\ n \in Nat
          /\ \A k \in 1..n : all[k] = w[k]
          /\ \A k \in 1..x : all[n + k].f = X[k]
      BY EntriesAre
    <2>6. \A k \in 1..n : w[k].f.drops = 0
      <3>1. w \in Seq(Emissions) /\ Len(w) = n
        BY <2>1, FilteredFacts
      <3>2. \A k \in 1..n : w[k] \in Emissions
        BY <3>1
      <3> QED BY <3>2, EmittableAssumption DEF Emissions
    <2>7. D = 1..(n + x) /\ Drawn(r, all, D)
      <3> DEFINE F == Verdict(FALSE)
                 T == Verdict(TRUE)
                 V == Range(all)
      <3>1. /\ Drawn(rf, all, F) /\ Drawn(rs, all, T) /\ F \cup T = D /\ F \cap T = {}
            /\ D = 1..Len(findings)
        BY ReportDraws
      <3>2. \A i \in F \cup T : all[i] \in V
        BY <3>1 DEF Range, Entries
      <3> HIDE DEF F, T, V, all, rf, rs, D
      <3>3. Drawn(rf \o rs, all, F \cup T)
        BY <3>1, <3>2, DrawnConcat
      <3> QED BY <2>5, <3>1, <3>3
    <2> HIDE DEF r, all, D, w, n, x, X, E, P, K, fs
    <2>8. PICK N, e : Draws(e, N, D) /\ r = Through(all, e, N)
      BY <2>7 DEF Drawn
    <2>9. /\ DOMAIN r = 1..N
          /\ \A k \in 1..N : r[k] = all[e[k]] /\ e[k] \in D
          /\ \A i, j \in 1..N : e[i] = e[j] => i = j
          /\ \A i \in D : \E k \in 1..N : e[k] = i
      BY <2>8 DEF Draws, Through
    <2> DEFINE M == [k \in 1..N |-> IF e[k] \in 1..n THEN {} ELSE P[e[k] - n]]
               c == [k \in 1..N |-> r[k].f.drops]
    <2>10. ASSUME NEW k \in 1..N, e[k] \notin 1..n
           PROVE  /\ e[k] - n \in DOMAIN X /\ e[k] \in Int /\ M[k] = P[e[k] - n]
                  /\ c[k] = d[e[k] - n]
      <3>1. e[k] \in 1..(n + x)
        BY <2>7, <2>9
      <3>2. e[k] - n \in 1..x /\ e[k] = n + (e[k] - n) /\ e[k] \in Int
        <4> DEFINE y == e[k]
        <4>1. y \in 1..(n + x) /\ y \notin 1..n /\ n \in Nat /\ x \in Nat
          BY <2>4, <2>5, <2>10, <3>1
        <4> HIDE DEF y
        <4>2. y - n \in 1..x /\ y = n + (y - n) /\ y \in Int
          BY <4>1
        <4> QED BY <4>2 DEF y
      <3>3. PICK q \in 1..x : e[k] = n + q /\ q = e[k] - n
        BY <3>2
      <3>4. r[k].f = X[q]
        BY <2>5, <2>9, <3>3
      <3> QED BY <2>4, <2>10, <3>2, <3>3, <3>4
    <2>11. \A k \in 1..N : M[k] \in SUBSET E /\ IsFiniteSet(M[k]) /\ Cardinality(M[k]) = c[k]
      <3> TAKE k \in 1..N
      <3>1. CASE e[k] \in 1..n
        <4>1. M[k] = {} /\ c[k] = 0
          BY <2>5, <2>6, <2>9, <3>1
        <4> QED BY <4>1, FS_EmptySet
      <3>2. CASE e[k] \notin 1..n
        <4> DEFINE q == e[k] - n
        <4>1. q \in DOMAIN X /\ M[k] = P[q] /\ c[k] = d[q]
          BY <2>10, <3>2
        <4> HIDE DEF q, M, c, d
        <4> QED BY <2>3, <4>1 DEF PartsOf
      <3> QED BY <3>1, <3>2
    <2>12. \A k, m \in 1..N : k # m => M[k] \cap M[m] = {}
      <3> SUFFICES ASSUME NEW k \in 1..N, NEW m \in 1..N, k # m
                   PROVE  M[k] \cap M[m] = {}
        OBVIOUS
      <3>1. CASE e[k] \in 1..n \/ e[m] \in 1..n
        BY <3>1
      <3>2. CASE e[k] \notin 1..n /\ e[m] \notin 1..n
        <4>1. /\ e[k] - n \in DOMAIN X /\ M[k] = P[e[k] - n] /\ e[k] \in Int
              /\ e[m] - n \in DOMAIN X /\ M[m] = P[e[m] - n] /\ e[m] \in Int
          BY <2>10, <3>2
        <4>2. e[k] - n # e[m] - n
          BY <2>5, <2>9, <4>1
        <4> QED BY <2>3, <4>1, <4>2 DEF PartsOf
      <3> QED BY <3>1, <3>2
    <2>13. \A i \in E : \E k \in 1..N : i \in M[k]
      <3> TAKE i \in E
      <3>1. PICK q \in DOMAIN X : i \in P[q]
        BY <2>3 DEF PartsOf
      <3>2. n + q \in D /\ n + q \notin 1..n /\ (n + q) - n = q
        BY <2>4, <2>5, <2>7
      <3>3. PICK k \in 1..N : e[k] = n + q
        BY <2>9, <3>2
      <3>4. M[k] = P[q]
        BY <3>2, <3>3
      <3> QED BY <3>1, <3>4
    <2> HIDE DEF M
    <2>14. PartsOf(M, c, 1..N, E)
      BY <2>11, <2>12, <2>13 DEF PartsOf
    <2>15. Dropped(r) = Numbered(c, 1..N)
      BY <2>9 DEF Dropped, Numbered
    <2> HIDE DEF c
    <2>16. Cardinality(Numbered(c, 1..N)) = Cardinality(E)
      BY <2>2, <2>14, CountParts
    <2> QED BY <2>2, <2>15, <2>16 DEF r
  <1> QED BY <1>1, PipelineInvariant, PTL
=============================================================================
