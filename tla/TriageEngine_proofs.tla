------------------------ MODULE TriageEngine_proofs ------------------------
(***************************************************************************)
(* TriageEngine keeps its types, accounts for every finding of an answer   *)
(* and gives a call that runs alone the evidence of its own project, for   *)
(* every set of clients, projects, files and requests.  The inductive      *)
(* invariant is TriageInv.                                                 *)
(***************************************************************************)
EXTENDS TriageEngine, InOrder_proofs

USE DEF Resting, Labels

-----------------------------------------------------------------------------
(* The findings left behind *)

\* The first n findings without the markers, one by one.
LEMMA WantedStep ==
    ASSUME NEW asked \in Seq(Reported), NEW n \in Nat, n < Len(asked)
    PROVE  /\ asked[n + 1].kind = "ok" => Wanted(asked, n + 1) = Wanted(asked, n)
           /\ asked[n + 1].kind # "ok" =>
                Wanted(asked, n + 1) = Append(Wanted(asked, n), asked[n + 1])
  <1> DEFINE S(m) == {i \in 1..m : asked[i].kind # "ok"}
  <1>1. ASSUME asked[n + 1].kind = "ok" PROVE Wanted(asked, n + 1) = Wanted(asked, n)
    <2>1. S(n + 1) = S(n)
      BY <1>1
    <2> QED BY <2>1 DEF Wanted
  <1>2. ASSUME asked[n + 1].kind # "ok"
        PROVE  Wanted(asked, n + 1) = Append(Wanted(asked, n), asked[n + 1])
    <2>1. S(n + 1) = S(n) \cup {n + 1}
      BY <1>2
    <2>2. /\ S(n) \in SUBSET Int
          /\ \A i \in S(n) : asked[i] \in Reported /\ i < n + 1
      OBVIOUS
    <2>3. IsFiniteSet(S(n)) /\ n + 1 \in Int
      <3>1. S(n) \in SUBSET (1..n) /\ 1 \in Int /\ n \in Int /\ n + 1 \in Int
        OBVIOUS
      <3>2. IsFiniteSet(1..n)
        BY <3>1, FS_Interval
      <3> HIDE DEF S
      <3> QED BY <3>1, <3>2, FS_Subset
    <2> HIDE DEF S
    <2>4. Where(asked, S(n) \cup {n + 1}) = Append(Where(asked, S(n)), asked[n + 1])
      BY <2>2, <2>3, WhereAppend
    <2>5. Where(asked, S(n + 1)) = Append(Where(asked, S(n)), asked[n + 1])
      BY <2>1, <2>4
    <2> QED BY <2>5 DEF Wanted, S
  <1> QED BY <1>1, <1>2

\* The findings that are to be enriched are findings.
LEMMA WantedType ==
    ASSUME NEW asked \in Seq(Reported), NEW n \in Nat, n <= Len(asked)
    PROVE  Wanted(asked, n) \in Seq(Reported)
  <1> DEFINE S == {i \in 1..n : asked[i].kind # "ok"}
  <1>1. S \in SUBSET Int /\ \A i \in S : asked[i] \in Reported
    OBVIOUS
  <1>2. IsFiniteSet(S)
    <2>1. S \subseteq 1..n
      OBVIOUS
    <2>2. IsFiniteSet(1..n)
      BY FS_Interval
    <2> HIDE DEF S
    <2> QED BY <2>1, <2>2, FS_Subset
  <1> HIDE DEF S
  <1>3. Where(asked, S) \in Seq(Reported)
    BY <1>1, <1>2, WhereType
  <1> QED BY <1>3 DEF Wanted, S

\* Appending elements of one kind to sequences of the same kinds keeps the kinds equal.
LEMMA KindsAppend ==
    ASSUME NEW V, NEW W, NEW s \in Seq(V), NEW t \in Seq(W), KindsOf(s) = KindsOf(t),
           NEW x \in V, NEW y \in W, x.kind = y.kind
    PROVE  KindsOf(Append(s, x)) = KindsOf(Append(t, y))
  <1>1. DOMAIN s = DOMAIN t /\ \A i \in DOMAIN s : s[i].kind = t[i].kind
    BY DEF KindsOf
  <1>2. Len(s) = Len(t)
    <2>1. DOMAIN s = 1..Len(s) /\ DOMAIN t = 1..Len(t) /\ Len(s) \in Nat /\ Len(t) \in Nat
      OBVIOUS
    <2>2. \A m, n \in Nat : 1..m = 1..n => m = n
      <3> SUFFICES ASSUME NEW m \in Nat, NEW n \in Nat, 1..m = 1..n, m < n PROVE FALSE
        OBVIOUS
      <3>1. n \in 1..n /\ n \notin 1..m
        OBVIOUS
      <3> QED BY <3>1
    <2> QED BY <1>1, <2>1, <2>2
  <1> QED BY <1>1, <1>2 DEF KindsOf

\* Leaving the head of what is to be done behind moves the place by one.
LEMMA BehindStep ==
    ASSUME NEW V, NEW s \in Seq(V), NEW t \in Seq(V), t # <<>>, Len(s) - Len(t) \in Nat,
           \A i \in 1..Len(t) : t[i] = s[Len(s) - Len(t) + i]
    PROVE  LET n == Len(s) - Len(t)
           IN  /\ n < Len(s) /\ Len(s) - Len(Tail(t)) = n + 1
               /\ \A i \in 1..Len(Tail(t)) : Tail(t)[i] = s[n + 1 + i]
               /\ Head(t) = s[n + 1]
  <1>1. Len(s) \in Nat /\ Len(t) \in Nat /\ Len(t) >= 1
    OBVIOUS
  <1>2. /\ Len(Tail(t)) = Len(t) - 1 /\ Head(t) = t[1]
        /\ \A i \in 1..Len(Tail(t)) : Tail(t)[i] = t[i + 1]
    BY <1>1
  <1> QED BY <1>1, <1>2

\* A call that has left another finding behind: a marker without a trace, any
\* other with an entry of its kind.
LEMMA ProgressNext ==
    ASSUME NEW k \in Calls, Progress(k), k.todo # <<>>,
           NEW j \in Calls, j.asked = k.asked, j.todo = Tail(k.todo), j.pc = "next",
           \/ Head(k.todo).kind = "ok" /\ j.out = k.out
           \/ /\ Head(k.todo).kind # "ok"
              /\ \E ev \in SUBSET AllFiles :
                   j.out = Append(k.out, [kind |-> Head(k.todo).kind, evidence |-> ev])
    PROVE  Progress(j)
  <1> DEFINE n == Len(k.asked) - Len(k.todo)
  <1>1. /\ k.asked \in Seq(Reported) /\ k.todo \in Seq(Reported)
        /\ k.out \in Seq(Entries)
    BY DEF Calls
  <1>2. /\ n \in Nat
        /\ \A i \in 1..Len(k.todo) : k.todo[i] = k.asked[n + i]
    BY DEF Progress
  <1>3. /\ n < Len(k.asked) /\ Len(j.asked) - Len(j.todo) = n + 1
        /\ \A i \in 1..Len(j.todo) : j.todo[i] = j.asked[n + 1 + i]
        /\ Head(k.todo) = k.asked[n + 1]
    <2> DEFINE s == k.asked
               t == k.todo
    <2>1. /\ s \in Seq(Reported) /\ t \in Seq(Reported) /\ t # <<>> /\ Len(s) - Len(t) \in Nat
          /\ \A i \in 1..Len(t) : t[i] = s[Len(s) - Len(t) + i]
          /\ j.asked = s /\ j.todo = Tail(t) /\ n = Len(s) - Len(t)
      BY <1>1, <1>2
    <2> HIDE DEF s, t, n
    <2>2. /\ n < Len(s) /\ Len(s) - Len(Tail(t)) = n + 1
          /\ \A i \in 1..Len(Tail(t)) : Tail(t)[i] = s[n + 1 + i]
          /\ Head(t) = s[n + 1]
      BY <2>1, BehindStep
    <2> QED BY <2>1, <2>2 DEF s, t
  <1>5. KindsOf(j.out) = KindsOf(Wanted(j.asked, n + 1))
    <2>1. KindsOf(k.out) = KindsOf(Wanted(k.asked, n))
      BY DEF Progress
    <2>4. n + 1 \in Nat /\ n + 1 <= Len(k.asked)
      BY <1>1, <1>2, <1>3
    <2> HIDE DEF n
    <2>2. CASE Head(k.todo).kind = "ok" /\ j.out = k.out
      BY <1>1, <1>2, <1>3, <2>1, <2>2, WantedStep
    <2>3. ASSUME Head(k.todo).kind # "ok", NEW ev \in SUBSET AllFiles,
                 j.out = Append(k.out, [kind |-> Head(k.todo).kind, evidence |-> ev])
          PROVE  KindsOf(j.out) = KindsOf(Wanted(j.asked, n + 1))
      <3> DEFINE e == [kind |-> Head(k.todo).kind, evidence |-> ev]
                 w == Wanted(k.asked, n)
      <3>1. Wanted(j.asked, n + 1) = Append(w, k.asked[n + 1])
        BY <1>1, <1>2, <1>3, <2>3, WantedStep
      <3>2. k.asked[n + 1] \in Reported
        BY <1>1, <1>2, <2>4
      <3>3. e \in Entries /\ e.kind = k.asked[n + 1].kind
        BY <1>3, <3>2 DEF Reported, Entries
      <3>4. w \in Seq(Reported)
        <4>1. n <= Len(k.asked)
          BY <1>1, <1>2, <2>4
        <4> QED BY <1>1, <1>2, <4>1, WantedType
      <3>6. KindsOf(k.out) = KindsOf(w)
        BY <2>1
      <3>5. KindsOf(Append(k.out, e)) = KindsOf(Append(w, k.asked[n + 1]))
        <4> HIDE DEF e, w
        <4> DEFINE a == k.asked[n + 1]
                   o == k.out
        <4>1. /\ o \in Seq(Entries) /\ w \in Seq(Reported) /\ KindsOf(o) = KindsOf(w)
              /\ e \in Entries /\ a \in Reported /\ e.kind = a.kind
          BY <1>1, <3>2, <3>3, <3>4, <3>6
        <4> HIDE DEF a, o
        <4>2. KindsOf(Append(o, e)) = KindsOf(Append(w, a))
          BY <4>1, KindsAppend
        <4> QED BY <4>2 DEF a, o
      <3> QED BY <2>3, <3>1, <3>5
    <2> QED BY <2>2, <2>3
  <1> DEFINE m == Len(j.asked) - Len(j.todo)
  <1>6. /\ m \in Nat
        /\ \A i \in 1..Len(j.todo) : j.todo[i] = j.asked[m + i]
        /\ KindsOf(j.out) = KindsOf(Wanted(j.asked, m))
    <2>1. n \in Nat /\ m = n + 1
      BY <1>2, <1>3, Zenon
    <2> HIDE DEF m, n
    <2>2. n + 1 \in Nat
      BY <2>1
    <2> QED BY <1>3, <1>5, <2>1, <2>2
  <1> QED BY <1>6 DEF Progress

\* A step within a finding.
LEMMA ProgressStays ==
    ASSUME NEW k \in Calls, Progress(k),
           NEW j \in Calls, j.asked = k.asked, j.todo = k.todo, j.out = k.out,
           j.pc = "answered" => k.todo = <<>>,
           j.pc \in {"ensure", "walk", "mark", "collect"} =>
             k.todo # <<>> /\ Head(k.todo).kind # "ok"
    PROVE  Progress(j)
  <1> DEFINE m == Len(k.asked) - Len(k.todo)
             n == Len(j.asked) - Len(j.todo)
  <1>1. /\ m \in Nat
        /\ \A i \in 1..Len(k.todo) : k.todo[i] = k.asked[m + i]
        /\ KindsOf(k.out) = KindsOf(Wanted(k.asked, m))
    BY DEF Progress
  <1>2. m = n
    OBVIOUS
  <1> HIDE DEF m
  <1>3. /\ n \in Nat
        /\ \A i \in 1..Len(j.todo) : j.todo[i] = j.asked[n + i]
        /\ KindsOf(j.out) = KindsOf(Wanted(j.asked, n))
    <2> HIDE DEF n
    <2> QED BY <1>1, <1>2
  <1>4. /\ j.pc = "answered" => j.todo = <<>>
        /\ j.pc \in {"ensure", "walk", "mark", "collect"} =>
             j.todo # <<>> /\ Head(j.todo).kind # "ok"
    OBVIOUS
  <1> QED BY <1>3, <1>4, Zenon DEF Progress

\* A call that has only begun.
LEMMA ProgressStarts ==
    ASSUME NEW j \in Calls, j.todo = j.asked, j.out = <<>>, j.pc \in {"idle", "next"}
    PROVE  Progress(j)
  <1>1. j.asked \in Seq(Reported)
    BY DEF Calls
  <1>2. Len(j.asked) - Len(j.todo) = 0
    BY <1>1
  <1>3. Wanted(j.asked, 0) = <<>>
    <2>1. {i \in 1..0 : j.asked[i].kind # "ok"} = {}
      OBVIOUS
    <2> QED BY <2>1, WhereNone DEF Wanted
  <1> QED BY <1>1, <1>2, <1>3 DEF Progress

-----------------------------------------------------------------------------
(* Steps of a call under way *)

SameFor(c) ==
    \A i, j \in DOMAIN call[c].out :
        call[c].out[i].kind \in Middleware /\ call[c].out[j].kind \in Middleware
            => call[c].out[i].evidence = call[c].out[j].evidence

Maps == [Clients \cup {NoClient} -> [AllFiles -> {"none", "ast", "lines"}]]

\* If a call is under way, no other one is that counts as alone; so that a step
\* need only keep what is said of the call that takes it.
LEMMA StepKeeps ==
    ASSUME TriageInv, NEW c \in Clients, ~Resting(c), NEW k \in Calls,
           call' = [call EXCEPT ![c] = k], UNCHANGED <<parses, edits, ptr, shared>>,
           maps' \in Maps, evidence' \in SUBSET AllFiles, scanned' \in BOOLEAN,
           Progress(k), k.pc = "walk" => k.map # NoClient,
           c \notin shared /\ Resting(c)' =>
             /\ k.out = call[c].out /\ k.edited = call[c].edited
             /\ k.project = call[c].project,
           c \notin shared /\ ~Resting(c)' => OwnEngine(c)',
           c \notin shared /\ k.pc = "walk" => OwnWalk(c)'
    PROVE  TriageInv'
  <1>1. call \in [Clients -> Calls] /\ call' \in [Clients -> Calls]
    BY DEF TriageInv, PointerInv
  <1>2. call'[c] = k /\ \A d \in Clients \ {c} : call'[d] = call[d]
    BY <1>1
  <1>3. ptr \in Clients /\ ptr # NoClient
    BY ClientAssumption DEF TriageInv, TypeOK, PointerInv
  <1>4. \A d \in Clients \ shared : d # c => Resting(d) /\ Resting(d)'
    BY <1>2 DEF TriageInv, AloneInv, OwnEngine
  <1>5. PointerInv'
    BY <1>1, <1>2, <1>3 DEF TriageInv, PointerInv
  <1>6. TypeOK'
    <2>1. \A d \in Clients : Working(d)' => Uses(d)' # NoClient
      BY <1>2, <1>3, <1>5 DEF PointerInv, Working, Uses
    <2> QED BY <2>1 DEF TriageInv, TypeOK, Maps
  <1>7. AloneInv'
    BY <1>2, <1>4 DEF AloneInv
  <1>8. \A d \in Clients \ shared : OwnEvidence(d)' /\ SameFor(d)'
    <2> SUFFICES ASSUME NEW d \in Clients \ shared PROVE OwnEvidence(d)' /\ SameFor(d)'
      OBVIOUS
    <2>1. OwnEvidence(d) /\ SameFor(d)
      BY DEF TriageInv, FreshWhenAlone, SameEvidence, SameFor, Middleware
    <2>2. CASE d # c
      BY <1>2, <2>1, <2>2 DEF OwnEvidence, SameFor
    <2>3. CASE d = c /\ Resting(c)'
      BY <1>2, <2>1, <2>3 DEF OwnEvidence, SameFor
    <2>4. CASE d = c /\ ~Resting(c)'
      <3>1. OwnEngine(c)'
        BY <2>4
      <3>2. OwnEvidence(c)'
        BY <3>1 DEF OwnEngine, OwnEvidence, Current, Middleware
      <3>3. SameFor(c)'
        BY <3>1 DEF OwnEngine, SameFor, Middleware
      <3> QED BY <2>4, <3>2, <3>3
    <2> QED BY <2>2, <2>3, <2>4
  <1>9. FreshWhenAlone' /\ SameEvidence'
    BY <1>8 DEF FreshWhenAlone, SameEvidence, SameFor, Middleware
  <1>10. \A d \in Clients : Progress(call'[d])
    BY <1>2 DEF TriageInv
  <1> QED BY <1>5, <1>6, <1>7, <1>9, <1>10 DEF TriageInv

\* What the invariant says of one call.
LEMMA CallFacts ==
    ASSUME TriageInv, NEW c \in Clients
    PROVE  /\ call \in [Clients -> Calls] /\ call[c] \in Calls /\ Progress(call[c])
           /\ maps \in Maps /\ evidence \in SUBSET AllFiles /\ scanned \in BOOLEAN
           /\ parses \in [AllFiles -> BOOLEAN] /\ ptr \in Clients \cup {NoClient}
           /\ ~Resting(c) => ptr \in Clients
           /\ call[c].pc = "walk" => call[c].map \in Clients
           /\ c \notin shared /\ ~Resting(c) => OwnEngine(c)
           /\ c \notin shared /\ call[c].pc = "walk" => OwnWalk(c)
  <1>1. call \in [Clients -> Calls] /\ call[c] \in Calls
    BY DEF TriageInv, PointerInv
  <1>2. call[c].map \in Clients \cup {NoClient}
    BY <1>1 DEF Calls
  <1> QED BY <1>1, <1>2, ClientAssumption DEF TriageInv, TypeOK, PointerInv, AloneInv, Maps

\* The map holds a syntax tree more only for a file that parses.
LEMMA ParseKeeps ==
    ASSUME NEW m \in Clients \cup {NoClient}, NEW f \in AllFiles, maps \in Maps, Parse(m, f)
    PROVE  /\ maps' \in Maps
           /\ \A n \in Clients \cup {NoClient}, g \in AllFiles :
                maps'[n][g] = "ast" => maps[n][g] = "ast" \/ parses[g]
  <1>1. AfterParse(m, f) \in {"none", "ast", "lines"}
    BY DEF AfterParse, GetParsedGoFile, Maps
  <1>2. AfterParse(m, f) = "ast" => maps[m][f] = "ast" \/ parses[f]
    BY DEF AfterParse, GetParsedGoFile
  <1> QED BY <1>1, <1>2 DEF Parse, Maps

\* A step that leaves the engine's evidence and flag as they are.
LEMMA EngineStays ==
    ASSUME NEW c \in Clients, OwnEngine(c), NEW k \in Calls, call \in [Clients -> Calls],
           call' = [call EXCEPT ![c] = k],
           k.project = call[c].project, k.edited = call[c].edited,
           UNCHANGED <<parses, ptr, evidence, scanned>>,
           \A g \in AllFiles : maps'[c][g] = "ast" => maps[c][g] = "ast" \/ parses[g],
           call[c].pc # "mark", k.pc # "mark", k.pc = "walk" => ~scanned,
           k.pc = "collect" /\ Head(k.todo).kind \in Middleware => scanned,
           \A i \in DOMAIN k.out :
             k.out[i].kind \in Middleware => scanned /\ k.out[i].evidence = evidence
    PROVE  OwnEngine(c)'
  <1>1. call'[c] = k /\ \A d \in Clients \ {c} : call'[d] = call[d]
    OBVIOUS
  <1>2. Current(c)' = Current(c)
    BY <1>1 DEF Current
  <1>3. Finding(c)' = Head(k.todo)
    BY <1>1 DEF Finding
  <1> QED BY <1>1, <1>2, <1>3 DEF OwnEngine

\* Moving the program counter changes nothing else.
LEMMA GotoFields ==
    ASSUME NEW k \in Calls, NEW p \in Labels
    PROVE  /\ Goto(k, p) \in Calls /\ Goto(k, p).pc = p
           /\ Goto(k, p).project = k.project /\ Goto(k, p).asked = k.asked
           /\ Goto(k, p).todo = k.todo /\ Goto(k, p).map = k.map
           /\ Goto(k, p).walk = k.walk /\ Goto(k, p).found = k.found
           /\ Goto(k, p).out = k.out /\ Goto(k, p).edited = k.edited
  BY DEF Goto, Calls

\* A step of a call that changes its pc, and nothing of the engine but the map.
LEMMA GotoKeeps ==
    ASSUME TriageInv, NEW c \in Clients, ~Resting(c), call[c].pc # "mark",
           NEW p \in Labels \ {"walk", "mark"},
           call' = [call EXCEPT ![c] = Goto(@, p)],
           maps' \in Maps, UNCHANGED <<parses, edits, ptr, evidence, scanned, shared>>,
           \A g \in AllFiles : maps'[c][g] = "ast" => maps[c][g] = "ast" \/ parses[g],
           p = "answered" => call[c].todo = <<>>,
           p \in {"ensure", "collect"} => call[c].todo # <<>> /\ Finding(c).kind # "ok",
           p = "collect" /\ Finding(c).kind \in Middleware => scanned
    PROVE  TriageInv'
  <1> DEFINE k == Goto(call[c], p)
  <1>1. /\ call \in [Clients -> Calls] /\ call[c] \in Calls /\ Progress(call[c])
        /\ evidence \in SUBSET AllFiles /\ scanned \in BOOLEAN
        /\ c \notin shared => OwnEngine(c)
    BY CallFacts
  <1>2. /\ k \in Calls /\ k.pc = p /\ k.project = call[c].project /\ k.asked = call[c].asked
        /\ k.todo = call[c].todo /\ k.out = call[c].out /\ k.edited = call[c].edited
    BY <1>1, GotoFields
  <1>3. call' = [call EXCEPT ![c] = k] /\ call'[c] = k
    BY <1>1
  <1> HIDE DEF k
  <1>4. Progress(k)
    BY <1>1, <1>2, ProgressStays DEF Finding
  <1>5. ASSUME c \notin shared PROVE OwnEngine(c)'
    <2>1. \A i \in DOMAIN k.out :
            k.out[i].kind \in Middleware => scanned /\ k.out[i].evidence = evidence
      BY <1>1, <1>2, <1>5 DEF OwnEngine
    <2> QED BY <1>1, <1>2, <1>3, <1>5, <2>1, EngineStays DEF Finding
  <1> QED BY <1>1, <1>2, <1>3, <1>4, <1>5, StepKeeps

\* A finding is done, with the evidence of the engine if the rule asks for it.
LEMMA EnrichKeeps ==
    ASSUME TriageInv, NEW c \in Clients, call[c].pc \in {"next", "collect"},
           call[c].todo # <<>>, Finding(c).kind # "ok",
           NEW ev \in SUBSET AllFiles, Enrich(c, ev),
           maps' \in Maps, UNCHANGED <<parses, edits, ptr, evidence, scanned, shared>>,
           \A g \in AllFiles : maps'[c][g] = "ast" => maps[c][g] = "ast" \/ parses[g],
           c \notin shared /\ Finding(c).kind \in Middleware => scanned /\ ev = evidence
    PROVE  TriageInv'
  <1> DEFINE e == [kind |-> Finding(c).kind, evidence |-> ev]
             k == [call[c] EXCEPT !.pc = "next", !.todo = Tail(call[c].todo),
                                  !.out = Append(call[c].out, e)]
  <1>1. /\ call \in [Clients -> Calls] /\ call[c] \in Calls /\ Progress(call[c])
        /\ evidence \in SUBSET AllFiles /\ scanned \in BOOLEAN
        /\ c \notin shared => OwnEngine(c)
    BY CallFacts
  <1>2. call' = [call EXCEPT ![c] = k] /\ call'[c] = k
    BY <1>1 DEF Enrich, Enriched
  <1>3. call[c].todo \in Seq(Reported) /\ call[c].out \in Seq(Entries)
    BY <1>1 DEF Calls
  <1>4. Tail(call[c].todo) \in Seq(Reported) /\ e \in Entries
    <2>1. Finding(c) \in Reported
      BY <1>3 DEF Finding
    <2> QED BY <1>3, <2>1 DEF Reported, Entries
  <1> HIDE DEF e
  <1>5. Append(call[c].out, e) \in Seq(Entries)
    BY <1>3, <1>4
  <1>6. /\ k \in Calls /\ k.pc = "next" /\ k.project = call[c].project
        /\ k.asked = call[c].asked /\ k.todo = Tail(call[c].todo)
        /\ k.edited = call[c].edited /\ k.out = Append(call[c].out, e)
    BY <1>1, <1>4, <1>5 DEF Calls
  <1> HIDE DEF k
  <1>7. Progress(k)
    <2>1. k.out = Append(call[c].out, [kind |-> Head(call[c].todo).kind, evidence |-> ev])
      BY <1>6 DEF e, Finding
    <2>2. Head(call[c].todo).kind # "ok"
      BY DEF Finding
    <2> QED BY <1>1, <1>6, <2>1, <2>2, ProgressNext
  <1>8. ASSUME c \notin shared PROVE OwnEngine(c)'
    <2>1. ASSUME NEW i \in DOMAIN k.out, k.out[i].kind \in Middleware
          PROVE  scanned /\ k.out[i].evidence = evidence
      <3>1. CASE i \in DOMAIN call[c].out
        <4>1. k.out[i] = call[c].out[i]
          BY <1>3, <1>4, <1>6, <3>1
        <4> QED BY <1>1, <1>8, <2>1, <3>1, <4>1 DEF OwnEngine
      <3>2. CASE i \notin DOMAIN call[c].out
        <4>1. k.out[i] = e
          BY <1>3, <1>4, <1>6, <3>2
        <4> QED BY <1>8, <2>1, <4>1 DEF e
      <3> QED BY <3>1, <3>2
    <2> QED BY <1>1, <1>2, <1>6, <1>8, <2>1, EngineStays
  <1> QED BY <1>1, <1>2, <1>6, <1>7, <1>8, StepKeeps

-----------------------------------------------------------------------------
(* One lemma per action *)

\* A call that ends keeps the invariant.
LEMMA FinishInv ==
    ASSUME TriageInv, NEW c \in Clients, Finish(c)
    PROVE  TriageInv'
  <1>1. maps \in Maps
    BY CallFacts
  <1> QED BY <1>1, GotoKeeps DEF Finish

\* A call whose context ends keeps the invariant.
LEMMA CancelledInv ==
    ASSUME TriageInv, NEW c \in Clients, Cancelled(c)
    PROVE  TriageInv'
  <1>1. maps \in Maps
    BY CallFacts
  <1> QED BY <1>1, GotoKeeps DEF Cancelled

\* Leaving out a marker keeps the invariant: it is not to be enriched.
LEMMA SkipVerifiedOKInv ==
    ASSUME TriageInv, NEW c \in Clients, SkipVerifiedOK(c)
    PROVE  TriageInv'
  <1> DEFINE k == [call[c] EXCEPT !.todo = Tail(call[c].todo)]
  <1>1. /\ call \in [Clients -> Calls] /\ call[c] \in Calls /\ Progress(call[c])
        /\ maps \in Maps /\ evidence \in SUBSET AllFiles /\ scanned \in BOOLEAN
        /\ c \notin shared => OwnEngine(c)
    BY CallFacts DEF SkipVerifiedOK
  <1>2. call' = [call EXCEPT ![c] = k] /\ call'[c] = k
    BY <1>1 DEF SkipVerifiedOK
  <1>3. call[c].todo \in Seq(Reported) /\ call[c].todo # <<>>
    BY <1>1 DEF Calls, SkipVerifiedOK
  <1>4. Tail(call[c].todo) \in Seq(Reported)
    BY <1>3
  <1>5. /\ k \in Calls /\ k.pc = "next" /\ k.project = call[c].project
        /\ k.asked = call[c].asked /\ k.todo = Tail(call[c].todo)
        /\ k.edited = call[c].edited /\ k.out = call[c].out
    BY <1>1, <1>4 DEF Calls, SkipVerifiedOK
  <1> HIDE DEF k
  <1>6. Progress(k)
    BY <1>1, <1>3, <1>5, ProgressNext DEF SkipVerifiedOK, Finding
  <1>7. ASSUME c \notin shared PROVE OwnEngine(c)'
    <2>1. \A i \in DOMAIN k.out :
            k.out[i].kind \in Middleware => scanned /\ k.out[i].evidence = evidence
      BY <1>1, <1>5, <1>7 DEF OwnEngine
    <2> QED BY <1>1, <1>2, <1>5, <1>7, <2>1, EngineStays DEF SkipVerifiedOK
  <1> QED BY <1>1, <1>2, <1>5, <1>6, <1>7, StepKeeps DEF SkipVerifiedOK

\* The finding under way is one of the request, in a known file.
LEMMA FindingFile ==
    ASSUME NEW c, call[c] \in Calls, call[c].todo # <<>>
    PROVE  Finding(c) \in Reported /\ Finding(c).file \in AllFiles /\ Finding(c).kind \in Kinds
  <1>1. call[c].todo \in Seq(Reported)
    BY DEF Calls
  <1>2. Finding(c) \in Reported
    BY <1>1 DEF Finding
  <1> QED BY <1>2 DEF Reported

\* Reading or caching the file of a finding keeps the invariant.
LEMMA CollectContextInv ==
    ASSUME TriageInv, NEW c \in Clients, CollectContext(c)
    PROVE  TriageInv'
  <1>1. /\ call[c].pc = "next" /\ call[c].todo # <<>> /\ Finding(c).kind # "ok"
        /\ Parse(ptr, Finding(c).file)
        /\ UNCHANGED <<parses, edits, ptr, evidence, scanned, shared>>
    BY DEF CollectContext
  <1>2. Finding(c).file \in AllFiles /\ ptr \in Clients \cup {NoClient} /\ maps \in Maps
    BY <1>1, CallFacts, FindingFile
  <1>3. /\ maps' \in Maps
        /\ \A g \in AllFiles : maps'[c][g] = "ast" => maps[c][g] = "ast" \/ parses[g]
    BY <1>1, <1>2, ParseKeeps
  <1>4. CASE /\ Finding(c).kind \in {"audit", "csp", "mfa"}
             /\ call' = [call EXCEPT ![c] = Goto(@, "ensure")]
    BY <1>1, <1>3, <1>4, GotoKeeps
  <1>5. CASE /\ Finding(c).kind = "key"
             /\ call' = [call EXCEPT ![c] = Goto(@, "collect")]
    <2>1. Finding(c).kind \notin Middleware
      BY <1>5 DEF Middleware
    <2> QED BY <1>1, <1>3, <1>5, <2>1, GotoKeeps
  <1>6. CASE Finding(c).kind = "other" /\ Enrich(c, {})
    <2>1. Finding(c).kind \notin Middleware
      BY <1>6 DEF Middleware
    <2> QED BY <1>1, <1>3, <1>6, <2>1, EnrichKeeps
  <1> QED BY <1>4, <1>5, <1>6 DEF CollectContext

\* The files of a project are known ones, each somewhere in the walk.
LEMMA FilesOfProject ==
    ASSUME NEW p \in Projects
    PROVE  /\ Files[p] \in Seq(AllFiles)
           /\ \A i \in DOMAIN Files[p] : Files[p][i] \in Range(Files[p])
           /\ \A f \in Range(Files[p]) : f \in AllFiles /\ \E i \in DOMAIN Files[p] : Files[p][i] = f
  <1>1. Files[p] \in Seq(Range(Files[p]))
    BY FilesAssumption
  <1>2. Range(Files[p]) \in SUBSET AllFiles
    BY DEF AllFiles
  <1>3. /\ \A i \in DOMAIN Files[p] : Files[p][i] \in Range(Files[p])
        /\ \A f \in Range(Files[p]) : \E i \in DOMAIN Files[p] : Files[p][i] = f
    BY DEF Range
  <1>4. Files[p] \in Seq(AllFiles)
    BY <1>1, <1>2
  <1> QED BY <1>2, <1>3, <1>4

\* Deciding whether to discover keeps the invariant: the walk starts with every file.
LEMMA EnsureDiscoveredInv ==
    ASSUME TriageInv, NEW c \in Clients, EnsureDiscovered(c)
    PROVE  TriageInv'
  <1>1. /\ call[c].pc = "ensure"
        /\ UNCHANGED <<parses, edits, maps, ptr, evidence, scanned, shared>>
    BY DEF EnsureDiscovered
  <1>2. /\ call \in [Clients -> Calls] /\ call[c] \in Calls /\ Progress(call[c])
        /\ maps \in Maps /\ evidence \in SUBSET AllFiles /\ scanned \in BOOLEAN
        /\ ptr \in Clients
        /\ c \notin shared => OwnEngine(c)
    BY <1>1, CallFacts
  <1>3. call[c].todo # <<>> /\ Finding(c).kind # "ok"
    BY <1>1, <1>2 DEF Progress, Finding
  <1>4. CASE scanned
    <2>1. call' = [call EXCEPT ![c] = Goto(@, "collect")]
      BY <1>4 DEF EnsureDiscovered
    <2> QED BY <1>1, <1>2, <1>3, <1>4, <2>1, GotoKeeps
  <1>5. CASE ~scanned
    <2> DEFINE p == call[c].project
               k == Call("walk", p, call[c].asked, call[c].todo, ptr, Files[p], {},
                         call[c].out, call[c].edited)
    <2>1. call' = [call EXCEPT ![c] = k] /\ call'[c] = k
      BY <1>2, <1>5 DEF EnsureDiscovered
    <2>2. p \in Projects
      BY <1>2 DEF Calls
    <2>3. /\ Files[p] \in Seq(AllFiles)
          /\ \A i \in DOMAIN Files[p] : Files[p][i] \in Range(Files[p])
          /\ \A f \in Range(Files[p]) : \E i \in DOMAIN Files[p] : Files[p][i] = f
      BY <2>2, FilesOfProject
    <2>4. k \in Calls
      BY <1>2, <2>2, <2>3 DEF Calls, Call
    <2>5. /\ k.pc = "walk" /\ k.project = p /\ k.asked = call[c].asked /\ k.todo = call[c].todo
          /\ k.map = ptr /\ k.walk = Files[p] /\ k.found = {} /\ k.out = call[c].out
          /\ k.edited = call[c].edited
      BY DEF Call
    <2> HIDE DEF k
    <2>6. Progress(k)
      BY <1>2, <1>3, <2>4, <2>5, ProgressStays DEF Finding
    <2>7. ASSUME c \notin shared PROVE OwnEngine(c)' /\ OwnWalk(c)'
      <3>1. \A i \in DOMAIN k.out :
              k.out[i].kind \in Middleware => scanned /\ k.out[i].evidence = evidence
        BY <1>2, <2>5, <2>7 DEF OwnEngine
      <3>2. OwnEngine(c)'
        BY <1>1, <1>2, <1>5, <2>1, <2>4, <2>5, <2>7, <3>1, EngineStays
      <3>3. Current(c)' \in SUBSET Range(Files[p]) /\ ptr = c
        BY <1>2, <2>1, <2>5, <2>7 DEF Current, OwnEngine
      <3>4. OwnWalk(c)'
        BY <2>1, <2>3, <2>5, <3>3 DEF OwnWalk
      <3> QED BY <3>2, <3>4
    <2>8. ptr # NoClient /\ ~Resting(c) /\ ~Resting(c)'
      BY <1>1, <1>2, <2>1, <2>5, ClientAssumption
    <2> QED BY <1>1, <1>2, <2>1, <2>4, <2>5, <2>6, <2>7, <2>8, StepKeeps
  <1> QED BY <1>4, <1>5

\* A file that the walk reads is found exactly if it parses, which keeps the invariant.
LEMMA DiscoverInv ==
    ASSUME TriageInv, NEW c \in Clients, Discover(c)
    PROVE  TriageInv'
  <1> DEFINE old == call[c]
             f == Head(old.walk)
             got == GetParsedGoFile(old.map, f)
             more == IF got = "ast" THEN old.found \cup ({f} \cap Routing) ELSE old.found
             k == Call(IF got = "lines" THEN "panic" ELSE "walk", old.project, old.asked,
                       old.todo, old.map, Tail(old.walk), more, old.out, old.edited)
  <1>1. /\ old.pc = "walk" /\ old.walk # <<>> /\ Parse(old.map, f)
        /\ UNCHANGED <<parses, edits, ptr, evidence, scanned, shared>>
    BY DEF Discover
  <1>2. /\ call \in [Clients -> Calls] /\ old \in Calls /\ Progress(old)
        /\ maps \in Maps /\ evidence \in SUBSET AllFiles /\ scanned \in BOOLEAN
        /\ old.map \in Clients /\ parses \in [AllFiles -> BOOLEAN]
        /\ c \notin shared => OwnEngine(c) /\ OwnWalk(c)
    BY <1>1, CallFacts
  <1>3. call' = [call EXCEPT ![c] = k] /\ call'[c] = k
    BY <1>2 DEF Discover
  <1>4. /\ old.walk \in Seq(AllFiles) /\ f \in AllFiles /\ Tail(old.walk) \in Seq(AllFiles)
        /\ f = old.walk[1] /\ DOMAIN old.walk = 1..Len(old.walk)
        /\ 1 \in DOMAIN old.walk
        /\ \A i \in DOMAIN Tail(old.walk) :
             i + 1 \in DOMAIN old.walk /\ Tail(old.walk)[i] = old.walk[i + 1]
        /\ \A i \in DOMAIN old.walk :
             i # 1 => i - 1 \in DOMAIN Tail(old.walk) /\ old.walk[i] = Tail(old.walk)[i - 1]
    <2>1. old.walk \in Seq(AllFiles)
      BY <1>2 DEF Calls
    <2> DEFINE w == old.walk
    <2> HIDE DEF w
    <2>2. w \in Seq(AllFiles) /\ w # <<>>
      BY <1>1, <2>1 DEF w
    <2>3. /\ Head(w) \in AllFiles /\ Tail(w) \in Seq(AllFiles)
          /\ Head(w) = w[1] /\ DOMAIN w = 1..Len(w) /\ 1 \in DOMAIN w
          /\ \A i \in DOMAIN Tail(w) : i + 1 \in DOMAIN w /\ Tail(w)[i] = w[i + 1]
          /\ \A i \in DOMAIN w : i # 1 => i - 1 \in DOMAIN Tail(w) /\ w[i] = Tail(w)[i - 1]
      BY <2>2
    <2> QED BY <2>1, <2>3 DEF w
  <1>5. more \in SUBSET AllFiles
    BY <1>2, <1>4 DEF Calls
  <1>6. /\ maps' \in Maps
        /\ \A g \in AllFiles : maps'[c][g] = "ast" => maps[c][g] = "ast" \/ parses[g]
    BY <1>1, <1>2, <1>4, ParseKeeps
  <1> HIDE DEF more
  <1>7. k \in Calls
    BY <1>2, <1>4, <1>5 DEF Calls, Call
  <1>8. /\ k.pc = (IF got = "lines" THEN "panic" ELSE "walk")
        /\ k.project = old.project /\ k.asked = old.asked /\ k.todo = old.todo
        /\ k.map = old.map /\ k.walk = Tail(old.walk) /\ k.found = more /\ k.out = old.out
        /\ k.edited = old.edited
    BY DEF Call
  <1> HIDE DEF k
  <1>9. Progress(k)
    <2>1. old.todo # <<>> /\ Head(old.todo).kind # "ok"
      BY <1>1, <1>2 DEF Progress
    <2> QED BY <1>2, <1>7, <1>8, <2>1, ProgressStays
  <1>10. ASSUME c \notin shared PROVE OwnEngine(c)'
    <2>1. \A i \in DOMAIN k.out :
            k.out[i].kind \in Middleware => scanned /\ k.out[i].evidence = evidence
      BY <1>2, <1>8, <1>10 DEF OwnEngine
    <2>2. ~scanned
      BY <1>1, <1>2, <1>10 DEF OwnEngine
    <2> QED BY <1>1, <1>2, <1>3, <1>6, <1>7, <1>8, <1>10, <2>1, <2>2, EngineStays
  <1>11. ASSUME c \notin shared, k.pc = "walk" PROVE OwnWalk(c)'
    <2>1. Current(c)' = Current(c)
      BY <1>1, <1>3, <1>8 DEF Current
    <2>2. OwnWalk(c) /\ got # "lines" /\ old.map = c
      BY <1>2, <1>8, <1>11 DEF OwnWalk
    <2>3. \A i \in DOMAIN k.walk : k.walk[i] \in Range(Files[k.project])
      BY <1>4, <1>8, <2>2 DEF OwnWalk
    <2>4. f \in old.edited \/ (got = "ast" <=> parses[f])
      <3>1. f \notin old.edited => (maps[c][f] = "ast" => parses[f])
        BY <1>2, <1>4, <1>11 DEF OwnEngine
      <3>2. maps[c][f] \in {"none", "ast", "lines"}
        BY <1>2, <1>4 DEF Maps
      <3> QED BY <2>2, <3>1, <3>2 DEF GetParsedGoFile
    <2>5. f \in Range(Files[old.project])
      BY <1>4, <2>2 DEF OwnWalk
    <2>6. more \ old.edited \subseteq Current(c)
      BY <2>2, <2>4, <2>5 DEF OwnWalk, Current, more
    <2>7. ASSUME NEW g \in Current(c)
          PROVE  g \in more \/ \E i \in DOMAIN k.walk : k.walk[i] = g
      <3>1. g \in old.found \/ \E i \in DOMAIN old.walk : old.walk[i] = g
        BY <2>2 DEF OwnWalk
      <3>2. CASE g \in old.found
        BY <3>2 DEF more
      <3>3. ASSUME NEW i \in DOMAIN old.walk, old.walk[i] = g, i # 1
            PROVE  \E j \in DOMAIN k.walk : k.walk[j] = g
        BY <1>4, <1>8, <3>3
      <3>4. CASE old.walk[1] = g
        BY <1>4, <2>4, <3>4 DEF Current, more
      <3> QED BY <3>1, <3>2, <3>3, <3>4
    <2>8. call'[c].map = c /\ call'[c].project = k.project /\ call'[c].walk = k.walk
          /\ call'[c].found = more /\ call'[c].edited = old.edited
      BY <1>3, <1>8, <2>2
    <2>9. \A i \in DOMAIN k.walk : k.walk[i] \in Range(Files[k.project])
      BY <2>3
    <2>10. (\A i \in DOMAIN call[c].walk : call[c].walk[i] \in Range(Files[call[c].project]))'
      BY <2>8, <2>9
    <2>11. (call[c].found \ call[c].edited \subseteq Current(c))'
      BY <2>1, <2>6, <2>8
    <2>12. (\A g \in Current(c) :
              g \in call[c].found \/ \E i \in DOMAIN call[c].walk : call[c].walk[i] = g)'
      BY <2>1, <2>7, <2>8
    <2> QED BY <2>8, <2>10, <2>11, <2>12 DEF OwnWalk
  <1>12. /\ ~Resting(c) /\ ~Resting(c)' /\ k.map # NoClient
    BY <1>1, <1>2, <1>3, <1>8, ClientAssumption
  <1> QED BY <1>1, <1>2, <1>3, <1>6, <1>7, <1>9, <1>10, <1>11, <1>12, StepKeeps

\* Publishing what was found keeps the invariant: a walk alone has found what is there.
LEMMA PublishInv ==
    ASSUME TriageInv, NEW c \in Clients, Publish(c)
    PROVE  TriageInv'
  <1> DEFINE k == Goto(call[c], "mark")
  <1>1. /\ call[c].pc = "walk" /\ call[c].walk = <<>>
        /\ evidence' = evidence \cup call[c].found
        /\ UNCHANGED <<parses, edits, maps, ptr, scanned, shared>>
    BY DEF Publish
  <1>2. /\ call \in [Clients -> Calls] /\ call[c] \in Calls /\ Progress(call[c])
        /\ maps \in Maps /\ evidence \in SUBSET AllFiles /\ scanned \in BOOLEAN
        /\ c \notin shared => OwnEngine(c) /\ OwnWalk(c)
    BY <1>1, CallFacts
  <1>3. call' = [call EXCEPT ![c] = k] /\ call'[c] = k
    BY <1>2 DEF Publish
  <1>4. /\ k \in Calls /\ k.pc = "mark" /\ k.project = call[c].project /\ k.asked = call[c].asked
        /\ k.todo = call[c].todo /\ k.out = call[c].out /\ k.edited = call[c].edited
    BY <1>2, GotoFields
  <1> HIDE DEF k
  <1>5. Progress(k)
    <2>1. call[c].todo # <<>> /\ Head(call[c].todo).kind # "ok"
      BY <1>1, <1>2 DEF Progress
    <2> QED BY <1>2, <1>4, <2>1, ProgressStays
  <1>6. evidence' \in SUBSET AllFiles
    BY <1>1, <1>2 DEF Calls
  <1>7. ASSUME c \notin shared PROVE OwnEngine(c)'
    <2>1. /\ ~scanned /\ evidence = {}
          /\ \A d \in Clients \ {c} : Resting(d)
          /\ ptr = c
          /\ \A f \in AllFiles \ call[c].edited : maps[c][f] = "ast" => parses[f]
          /\ \A i \in DOMAIN call[c].out : call[c].out[i].kind \notin Middleware
      BY <1>1, <1>2, <1>7 DEF OwnEngine
    <2>2. Current(c)' = Current(c)
      BY <1>1, <1>3, <1>4 DEF Current
    <2>3. call[c].found \ call[c].edited = Current(c)
      <3>1. DOMAIN call[c].walk = {}
        BY <1>1
      <3> QED BY <1>2, <1>7, <3>1 DEF OwnWalk, Current
    <2>4. evidence' \ call[c].edited = Current(c)
      BY <1>1, <2>1, <2>3
    <2>5. \A d \in Clients \ {c} : Resting(d)'
      BY <1>2, <1>3, <2>1
    <2> QED BY <1>1, <1>3, <1>4, <2>1, <2>2, <2>4, <2>5 DEF OwnEngine
  <1> QED BY <1>1, <1>2, <1>3, <1>4, <1>5, <1>6, <1>7, StepKeeps

\* The flag is set after the evidence, which keeps the invariant.
LEMMA MarkScannedInv ==
    ASSUME TriageInv, NEW c \in Clients, MarkScanned(c)
    PROVE  TriageInv'
  <1> DEFINE k == Goto(call[c], "collect")
  <1>1. /\ call[c].pc = "mark" /\ scanned' = TRUE
        /\ UNCHANGED <<parses, edits, maps, ptr, evidence, shared>>
    BY DEF MarkScanned
  <1>2. /\ call \in [Clients -> Calls] /\ call[c] \in Calls /\ Progress(call[c])
        /\ maps \in Maps /\ evidence \in SUBSET AllFiles
        /\ c \notin shared => OwnEngine(c)
    BY <1>1, CallFacts
  <1>3. call' = [call EXCEPT ![c] = k] /\ call'[c] = k
    BY <1>2 DEF MarkScanned
  <1>4. /\ k \in Calls /\ k.pc = "collect" /\ k.project = call[c].project
        /\ k.asked = call[c].asked /\ k.todo = call[c].todo /\ k.out = call[c].out
        /\ k.edited = call[c].edited
    BY <1>2, GotoFields
  <1> HIDE DEF k
  <1>5. Progress(k)
    <2>1. call[c].todo # <<>> /\ Head(call[c].todo).kind # "ok"
      BY <1>1, <1>2 DEF Progress
    <2> QED BY <1>2, <1>4, <2>1, ProgressStays
  <1>7. ASSUME c \notin shared PROVE OwnEngine(c)'
    <2>1. /\ ~scanned /\ evidence \ call[c].edited = Current(c)
          /\ \A d \in Clients \ {c} : Resting(d)
          /\ ptr = c
          /\ \A f \in AllFiles \ call[c].edited : maps[c][f] = "ast" => parses[f]
          /\ \A i \in DOMAIN call[c].out : call[c].out[i].kind \notin Middleware
      BY <1>1, <1>2, <1>7 DEF OwnEngine
    <2>2. Current(c)' = Current(c)
      BY <1>1, <1>3, <1>4 DEF Current
    <2>5. \A d \in Clients \ {c} : Resting(d)'
      BY <1>2, <1>3, <2>1
    <2> QED BY <1>1, <1>3, <1>4, <2>1, <2>2, <2>5 DEF OwnEngine
  <1> QED BY <1>1, <1>2, <1>3, <1>4, <1>5, <1>7, StepKeeps

\* A call that collects is at a finding, and the middleware was discovered if the
\* rule is one that needs it.
LEMMA AtCollect ==
    ASSUME TriageInv, NEW c \in Clients, call[c].pc = "collect"
    PROVE  /\ call[c].todo # <<>> /\ Finding(c).kind # "ok" /\ Finding(c).file \in AllFiles
           /\ c \notin shared /\ Finding(c).kind \in Middleware => scanned
           /\ maps \in Maps /\ evidence \in SUBSET AllFiles /\ ptr \in Clients
           /\ call[c].project \in Projects
  <1>1. /\ call[c] \in Calls /\ Progress(call[c])
        /\ maps \in Maps /\ evidence \in SUBSET AllFiles /\ ptr \in Clients
        /\ c \notin shared => OwnEngine(c)
    BY CallFacts
  <1>2. call[c].todo # <<>> /\ Finding(c).kind # "ok"
    BY <1>1 DEF Progress, Finding
  <1>3. Finding(c).file \in AllFiles
    BY <1>1, <1>2, FindingFile
  <1>4. call[c].project \in Projects
    BY <1>1 DEF Calls
  <1> QED BY <1>1, <1>2, <1>3, <1>4 DEF OwnEngine

\* Enriching an audit finding with the evidence keeps the invariant.
LEMMA CollectAuditInv ==
    ASSUME TriageInv, NEW c \in Clients, CollectAudit(c)
    PROVE  TriageInv'
  BY AtCollect, EnrichKeeps DEF CollectAudit

\* Enriching an MFA finding with the evidence keeps the invariant.
LEMMA CollectMFAInv ==
    ASSUME TriageInv, NEW c \in Clients, CollectMFA(c)
    PROVE  TriageInv'
  <1>1. /\ call[c].pc = "collect" /\ SearchKeywords(ptr, call[c].project) /\ Enrich(c, evidence)
        /\ UNCHANGED <<parses, edits, ptr, evidence, scanned, shared>>
    BY DEF CollectMFA
  <1>2. maps \in Maps /\ ptr \in Clients
    BY <1>1, AtCollect
  <1>3. /\ maps' \in Maps
        /\ \A g \in AllFiles : maps'[c][g] = "ast" => maps[c][g] = "ast"
    <2> DEFINE m == [f \in AllFiles |->
                       IF f \in Searched(call[c].project) /\ maps[ptr][f] = "none"
                       THEN "lines" ELSE maps[ptr][f]]
    <2>1. maps' = [maps EXCEPT ![ptr] = m]
      BY <1>1 DEF SearchKeywords
    <2>2. m \in [AllFiles -> {"none", "ast", "lines"}]
      BY <1>2 DEF Maps
    <2>3. \A g \in AllFiles : m[g] = "ast" => maps[ptr][g] = "ast"
      OBVIOUS
    <2> HIDE DEF m
    <2> QED BY <1>2, <2>1, <2>2, <2>3 DEF Maps
  <1> QED BY <1>1, <1>3, AtCollect, EnrichKeeps

\* Enriching a finding with its function, or failing to, keeps the invariant.
LEMMA CollectEnclosingInv ==
    ASSUME TriageInv, NEW c \in Clients, CollectEnclosing(c)
    PROVE  TriageInv'
  <1>1. /\ call[c].pc = "collect" /\ Finding(c).kind \in {"csp", "key"}
        /\ Parse(ptr, Finding(c).file)
        /\ UNCHANGED <<parses, edits, ptr, evidence, scanned, shared>>
    BY DEF CollectEnclosing
  <1>2. /\ maps' \in Maps
        /\ \A g \in AllFiles : maps'[c][g] = "ast" => maps[c][g] = "ast" \/ parses[g]
    BY <1>1, AtCollect, ParseKeeps
  <1>3. CASE call' = [call EXCEPT ![c] = Goto(@, "panic")]
    BY <1>1, <1>2, <1>3, GotoKeeps
  <1>4. ASSUME NEW ev, ev = (IF Finding(c).kind = "csp" THEN evidence ELSE {}), Enrich(c, ev)
        PROVE  TriageInv'
    <2>1. ev \in SUBSET AllFiles
      BY <1>1, <1>4, AtCollect
    <2>2. Finding(c).kind \in Middleware => ev = evidence
      BY <1>1, <1>4 DEF Middleware
    <2> QED BY <1>1, <1>2, <1>4, <2>1, <2>2, AtCollect, EnrichKeeps
  <1> QED BY <1>3, <1>4 DEF CollectEnclosing

\* A client at rest has a call that is not under way.
LEMMA IdleCall == Idle \in Calls /\ Idle.pc = "idle" /\ Idle.out = <<>> /\ Progress(Idle)
  <1>1. (CHOOSE p \in Projects : TRUE) \in Projects
    BY FilesAssumption
  <1>2. Idle \in Calls /\ Idle.pc = "idle" /\ Idle.out = <<>> /\ Idle.todo = Idle.asked
    BY <1>1 DEF Idle, Call, Calls
  <1> QED BY <1>2, ProgressStarts

\* Nothing is under way, and no answer is there.
LEMMA AllIdle ==
    ASSUME parses \in [AllFiles -> BOOLEAN], edits \in 0..MaxEdits,
           maps = [c \in Clients \cup {NoClient} |-> NoFiles], ptr = NoClient,
           evidence = {}, scanned = FALSE, call = [c \in Clients |-> Idle], shared = {}
    PROVE  TriageInv
  <1>1. maps \in Maps
    BY DEF NoFiles, Maps
  <1>2. \A c \in Clients : call[c] = Idle
    OBVIOUS
  <1>3. TypeOK
    BY <1>1, <1>2, IdleCall DEF TypeOK, Maps, Working
  <1>4. PointerInv /\ AloneInv
    BY <1>2, IdleCall DEF PointerInv, AloneInv
  <1>5. FreshWhenAlone /\ SameEvidence
    BY <1>2, IdleCall DEF FreshWhenAlone, SameEvidence, OwnEvidence
  <1> QED BY <1>2, <1>3, <1>4, <1>5, IdleCall DEF TriageInv

\* A new process starts with empty caches, in the invariant.
LEMMA RestartInv ==
    ASSUME TriageInv, Restart
    PROVE  TriageInv'
  <1>1. /\ parses' \in [AllFiles -> BOOLEAN] /\ edits' \in 0..MaxEdits
        /\ maps' = [c \in Clients \cup {NoClient} |-> NoFiles] /\ ptr' = NoClient
        /\ evidence' = {} /\ scanned' = FALSE /\ call' = [c \in Clients |-> Idle]
        /\ shared' = {}
    BY DEF Restart, TriageInv, TypeOK
  <1>2. maps' \in Maps
    BY <1>1 DEF NoFiles, Maps
  <1>3. \A c \in Clients : call'[c] = Idle
    BY <1>1
  <1>4. TypeOK'
    BY <1>1, <1>2, <1>3, IdleCall DEF TypeOK, Maps, Working
  <1>5. PointerInv' /\ AloneInv'
    BY <1>1, <1>3, IdleCall DEF PointerInv, AloneInv
  <1>6. FreshWhenAlone' /\ SameEvidence'
    BY <1>3, IdleCall DEF FreshWhenAlone, SameEvidence, OwnEvidence
  <1> QED BY <1>3, <1>4, <1>5, <1>6, IdleCall DEF TriageInv

\* A new call counts as alone only if every other one rests.
LEMMA BeginInv ==
    ASSUME TriageInv, NEW c \in Clients, NEW q \in Requests, Begin(c, q)
    PROVE  TriageInv'
  <1> DEFINE k == Started(q)
             busy == {d \in Clients \ {c} : ~Resting(d)}
  <1>1. /\ maps' = [maps EXCEPT ![c] = NoFiles] /\ ptr' = c /\ evidence' = {} /\ scanned' = FALSE
        /\ call' = [call EXCEPT ![c] = k] /\ UNCHANGED <<parses, edits>>
        /\ shared' = (IF busy = {} THEN shared \ {c} ELSE shared \cup busy \cup {c})
    BY DEF Begin, Overlapped
  <1>2. /\ call \in [Clients -> Calls] /\ maps \in Maps
        /\ parses \in [AllFiles -> BOOLEAN] /\ edits \in 0..MaxEdits
        /\ shared \in SUBSET Clients
    BY CallFacts DEF TriageInv, TypeOK
  <1>3. /\ k \in Calls /\ k.pc = "next" /\ k.out = <<>> /\ k.todo = k.asked
    BY RequestAssumption DEF Started, Call, Calls
  <1> HIDE DEF k
  <1>4. /\ call'[c] = k /\ \A d \in Clients \ {c} : call'[d] = call[d]
        /\ call' \in [Clients -> Calls]
    BY <1>1, <1>2, <1>3
  <1>5. maps' \in Maps /\ maps'[c] = NoFiles
    BY <1>1, <1>2 DEF NoFiles, Maps
  <1>6. \A d \in Clients \ shared' : d # c => d \notin shared /\ Resting(d) /\ Resting(d)'
    BY <1>1, <1>4
  <1>7. PointerInv'
    BY <1>1, <1>3, <1>4, ClientAssumption DEF TriageInv, PointerInv
  <1>8. TypeOK'
    <2>1. \A d \in Clients : Working(d)' => Uses(d)' # NoClient
      BY <1>1, <1>7, ClientAssumption DEF PointerInv, Working, Uses
    <2> QED BY <1>1, <1>2, <1>5, <2>1 DEF TypeOK, Maps
  <1>9. AloneInv'
    <2>1. ASSUME c \notin shared' PROVE OwnEngine(c)'
      <3>1. \A d \in Clients \ {c} : Resting(d)'
        BY <1>1, <1>4, <2>1
      <3>2. \A f \in AllFiles : maps'[c][f] # "ast"
        BY <1>5 DEF NoFiles
      <3> QED BY <1>1, <1>3, <1>4, <3>1, <3>2 DEF OwnEngine
    <2> QED BY <1>3, <1>4, <1>6, <2>1 DEF AloneInv
  <1>10. FreshWhenAlone' /\ SameEvidence'
    <2>1. \A d \in Clients \ shared' : OwnEvidence(d)'
      BY <1>1, <1>3, <1>4, <1>6 DEF TriageInv, FreshWhenAlone, OwnEvidence
    <2>2. \A d \in Clients \ shared' : SameFor(d)'
      BY <1>3, <1>4, <1>6 DEF TriageInv, SameEvidence, SameFor, Middleware
    <2> QED BY <2>1, <2>2 DEF FreshWhenAlone, SameEvidence, SameFor, Middleware
  <1>11. \A d \in Clients : Progress(call'[d])
    BY <1>3, <1>4, ProgressStarts DEF TriageInv
  <1> QED BY <1>7, <1>8, <1>9, <1>10, <1>11 DEF TriageInv

\* An edit keeps the invariant: what is said of a file holds until it is edited.
LEMMA EditInv ==
    ASSUME TriageInv, NEW f \in AllFiles, Edit(f)
    PROVE  TriageInv'
  <1> DEFINE k(c) == [call[c] EXCEPT !.edited = call[c].edited \cup {f}]
  <1>1. /\ edits < MaxEdits /\ edits' = edits + 1
        /\ parses' = [parses EXCEPT ![f] = ~parses[f]]
        /\ call' = [c \in Clients |-> k(c)]
        /\ UNCHANGED <<maps, ptr, evidence, scanned, shared>>
    BY DEF Edit
  <1>2. /\ call \in [Clients -> Calls] /\ maps \in Maps
        /\ parses \in [AllFiles -> BOOLEAN] /\ edits \in 0..MaxEdits
        /\ shared \in SUBSET Clients /\ evidence \in SUBSET AllFiles /\ scanned \in BOOLEAN
        /\ ptr \in Clients \cup {NoClient}
    BY DEF TriageInv, TypeOK, PointerInv, Maps
  <1>3. ASSUME NEW c \in Clients
        PROVE  /\ k(c) \in Calls /\ k(c).pc = call[c].pc /\ k(c).project = call[c].project
               /\ k(c).asked = call[c].asked /\ k(c).todo = call[c].todo
               /\ k(c).map = call[c].map /\ k(c).walk = call[c].walk
               /\ k(c).found = call[c].found /\ k(c).out = call[c].out
               /\ k(c).edited = call[c].edited \cup {f}
    BY <1>2 DEF Calls
  <1> HIDE DEF k
  <1>4. /\ call' \in [Clients -> Calls] /\ \A c \in Clients : call'[c] = k(c)
        /\ \A c \in Clients : Resting(c)' = Resting(c)
    BY <1>1, <1>3
  <1>5. parses' \in [AllFiles -> BOOLEAN] /\ \A g \in AllFiles \ {f} : parses'[g] = parses[g]
    BY <1>1, <1>2
  <1>6. PointerInv'
    BY <1>1, <1>3, <1>4 DEF TriageInv, PointerInv
  <1>7. TypeOK'
    <2>1. \A d \in Clients : Working(d)' => Uses(d)' # NoClient
      BY <1>6 DEF PointerInv, Working, Uses
    <2>2. edits' \in 0..MaxEdits
      BY <1>1, <1>2, EditsAssumption
    <2> QED BY <1>1, <1>2, <1>5, <2>1, <2>2 DEF TypeOK, Maps
  <1>8. \A c \in Clients : Current(c)' = Current(c) \ {f}
    <2> SUFFICES ASSUME NEW c \in Clients PROVE Current(c)' = Current(c) \ {f}
      OBVIOUS
    <2>1. call[c].project \in Projects
      BY <1>2 DEF Calls
    <2>2. Range(Files[call[c].project]) \in SUBSET AllFiles
      BY <2>1 DEF AllFiles
    <2> QED BY <1>3, <1>4, <1>5, <2>2 DEF Current
  <1>9. ASSUME NEW c \in Clients, OwnEngine(c) PROVE OwnEngine(c)'
    BY <1>1, <1>3, <1>4, <1>5, <1>8, <1>9 DEF OwnEngine, Finding
  <1>10. ASSUME NEW c \in Clients, OwnWalk(c) PROVE OwnWalk(c)'
    BY <1>3, <1>4, <1>8, <1>10 DEF OwnWalk
  <1>11. AloneInv'
    BY <1>1, <1>3, <1>4, <1>9, <1>10 DEF TriageInv, AloneInv
  <1>12. FreshWhenAlone'
    <2> SUFFICES ASSUME NEW c \in Clients \ shared PROVE OwnEvidence(c)'
      BY <1>1 DEF FreshWhenAlone
    <2>1. OwnEvidence(c)
      BY DEF TriageInv, FreshWhenAlone
    <2>2. \A i \in DOMAIN call[c].out :
            call[c].out[i].kind \in {"audit", "csp", "mfa"} =>
                call[c].out[i].evidence \ call[c].edited = Current(c)
      BY <2>1 DEF OwnEvidence, Current
    <2>3. \A i \in DOMAIN call'[c].out :
            call'[c].out[i].kind \in {"audit", "csp", "mfa"} =>
                call'[c].out[i].evidence \ call'[c].edited = Current(c)'
      BY <1>3, <1>4, <1>8, <2>2
    <2> QED BY <2>3 DEF OwnEvidence, Current
  <1>13. SameEvidence'
    BY <1>1, <1>3, <1>4 DEF TriageInv, SameEvidence
  <1>14. \A c \in Clients : Progress(call'[c])
    <2> SUFFICES ASSUME NEW c \in Clients PROVE Progress(k(c))
      BY <1>4
    <2>1. call[c] \in Calls /\ Progress(call[c])
      BY <1>2 DEF TriageInv
    <2>2. /\ call[c].pc = "answered" => call[c].todo = <<>>
          /\ call[c].pc \in {"ensure", "walk", "mark", "collect"} =>
               call[c].todo # <<>> /\ Head(call[c].todo).kind # "ok"
      BY <2>1 DEF Progress
    <2> QED BY <1>3, <2>1, <2>2, ProgressStays
  <1> QED BY <1>6, <1>7, <1>11, <1>12, <1>13, <1>14 DEF TriageInv

-----------------------------------------------------------------------------
(* The theorems *)

\* The initial states satisfy the invariant.
LEMMA InitInv == Init => TriageInv
  <1> SUFFICES ASSUME Init PROVE TriageInv
    OBVIOUS
  <1>1. parses \in [AllFiles -> BOOLEAN] /\ edits \in 0..MaxEdits
    BY EditsAssumption DEF Init
  <1> QED BY <1>1, AllIdle DEF Init

\* The invariant of the engine's fields and of the calls under way, alone or not.
THEOREM TriageInvariant == Spec => []TriageInv
  <1>1. TriageInv /\ [Next]_vars => TriageInv'
    <2> SUFFICES ASSUME TriageInv, [Next]_vars PROVE TriageInv'
      OBVIOUS
    <2>1. ASSUME NEW f \in AllFiles, Edit(f) PROVE TriageInv'
      BY <2>1, EditInv
    <2>2. ASSUME NEW c \in Clients, Panic(c) PROVE TriageInv'
      BY <2>2, RestartInv DEF Panic
    <2>3. ASSUME NEW c \in Clients, NEW d \in Clients, MapFault(c, d) PROVE TriageInv'
      BY <2>3, RestartInv DEF MapFault
    <2>4. ASSUME NEW c \in Clients, NEW q \in Requests, Begin(c, q) PROVE TriageInv'
      BY <2>4, BeginInv
    <2>5. ASSUME NEW c \in Clients,
                 \/ Finish(c) \/ Cancelled(c) \/ SkipVerifiedOK(c) \/ CollectContext(c)
                 \/ EnsureDiscovered(c) \/ Discover(c) \/ Publish(c) \/ MarkScanned(c)
                 \/ CollectAudit(c) \/ CollectMFA(c) \/ CollectEnclosing(c)
          PROVE  TriageInv'
      BY <2>5, FinishInv, CancelledInv, SkipVerifiedOKInv, CollectContextInv,
         EnsureDiscoveredInv, DiscoverInv, PublishInv, MarkScannedInv, CollectAuditInv,
         CollectMFAInv, CollectEnclosingInv
    <2>6. CASE UNCHANGED vars
      BY <2>6 DEF vars, TriageInv, TypeOK, PointerInv, AloneInv, FreshWhenAlone, SameEvidence,
                  OwnEngine, OwnWalk, OwnEvidence, Current, Finding, Working, Uses
    <2> QED BY <2>1, <2>2, <2>3, <2>4, <2>5, <2>6 DEF Next
  <1> QED BY InitInv, <1>1, PTL DEF Spec

\* triage.go Triage: the engine's fields hold what their types say, and no call
\* reaches into the cache before one was made.
THEOREM TriageTypes == Spec => []TypeOK
  <1>1. TriageInv => TypeOK
    BY DEF TriageInv
  <1> QED BY <1>1, TriageInvariant, PTL

\* triage.go "Fresh cache per triage call": a call that no other one overlaps gives
\* its findings the evidence of its own project as its files are, whatever calls
\* came before it and whatever is edited meanwhile.
THEOREM TriageFresh == Spec => []FreshWhenAlone
  <1>1. TriageInv => FreshWhenAlone
    BY DEF TriageInv
  <1> QED BY <1>1, TriageInvariant, PTL

\* collectors.go ensureMiddlewareDiscovered: the findings of such a call are judged
\* by the same evidence.
THEOREM TriageSame == Spec => []SameEvidence
  <1>1. TriageInv => SameEvidence
    BY DEF TriageInv
  <1> QED BY <1>1, TriageInvariant, PTL

\* triage.go Triage: every finding but the verified-OK markers is answered once, in
\* order, however calls overlap, files change and the process is restarted.
THEOREM TriageAccounts == Spec => []Accounted
  <1>1. TriageInv => Accounted
    <2> SUFFICES ASSUME TriageInv, NEW c \in Clients, call[c].pc = "answered"
                 PROVE  KindsOf(call[c].out) = KindsOf(Wanted(call[c].asked, Len(call[c].asked)))
      BY DEF Accounted
    <2>1. call[c].asked \in Seq(Reported) /\ Progress(call[c])
      BY CallFacts DEF Calls
    <2>2. Len(call[c].asked) - Len(call[c].todo) = Len(call[c].asked)
      <3>1. call[c].todo = <<>> /\ Len(call[c].asked) \in Nat
        BY <2>1 DEF Progress
      <3>2. Len(<<>>) = 0
        OBVIOUS
      <3> QED BY <3>1, <3>2
    <2> QED BY <2>1, <2>2 DEF Progress
  <1> QED BY <1>1, TriageInvariant, PTL
=============================================================================
