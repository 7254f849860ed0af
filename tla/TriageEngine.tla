---------------------------- MODULE TriageEngine ----------------------------
(***************************************************************************)
(* scanner/triagescanner: the enrichment behind triage_findings. One       *)
(* TriageEngine serves every call of the server; Triage empties its caches *)
(* (parsed files, middleware evidence) and fills them while it collects    *)
(* context for one finding after the other. Nothing locks them.            *)
(*                                                                         *)
(* A file either parses or does not, and users edit files while a session  *)
(* is paginated. Evidence is abstracted to the files it was found in. Of   *)
(* the data races of overlapping calls the model keeps the interleavings   *)
(* of the steps below and the fault with which Go stops a process whose    *)
(* map is written concurrently; torn slice headers are left out.           *)
(***************************************************************************)
EXTENDS InOrder, Functions

CONSTANTS
    Clients,      \* callers of triage_findings
    Projects,     \* project roots
    Files,        \* per project: its Go files in the order of the walk
    Routing,      \* files that register middleware or routes
    KeywordFiles, \* files that contain an MFA keyword
    Broken,       \* files that do not parse at the start
    Requests,     \* what is triaged: a project and its findings, in order
    MaxEdits,     \* bound: edits of source files
    NoClient      \* no call has created the map that the engine holds

Kinds == {"ok", "audit", "csp", "mfa", "key", "other"}
AllFiles == UNION {Range(Files[p]) : p \in Projects}
Reported == [kind : Kinds, file : AllFiles]

ASSUME FilesAssumption ==
    Projects # {} /\ \A p \in Projects : Files[p] \in Seq(Range(Files[p]))
ASSUME RequestAssumption ==
    \A q \in Requests :
        /\ q.project \in Projects
        /\ q.findings \in Seq(Reported)
        /\ \A i \in DOMAIN q.findings : q.findings[i].file \in Range(Files[q.project])
ASSUME ClientAssumption == NoClient \notin Clients
ASSUME EditsAssumption == MaxEdits \in Nat

VARIABLES
    parses,   \* per file: whether it parses at present
    edits,    \* edits so far
    maps,     \* the fileCache that each client's last call has made
    ptr,      \* e.cache: whose map it is
    evidence, \* e.middlewareCache and e.routeCache
    scanned,  \* e.projectScanned
    call,     \* per client: its call, or the answer of the last one
    shared    \* history: clients whose last call overlapped another one

vars == <<parses, edits, maps, ptr, evidence, scanned, call, shared>>

\* A call: its project, the findings asked for and those to come, the map that
\* discoverMiddleware was given, the files it has yet to visit and the evidence it has found, the
\* enriched findings so far, and the files edited since the call began.
Call(pc, project, asked, todo, map, walk, found, out, edited) ==
    [pc |-> pc, project |-> project, asked |-> asked, todo |-> todo, map |-> map, walk |-> walk,
     found |-> found, out |-> out, edited |-> edited]

Goto(k, pc) == [k EXCEPT !.pc = pc]

Idle == Call("idle", CHOOSE p \in Projects : TRUE, <<>>, <<>>, NoClient, <<>>, {}, <<>>, {})

\* A call that has just begun on the findings of a request.
Started(q) == Call("next", q.project, q.findings, q.findings, NoClient, <<>>, {}, <<>>, {})

Resting(c) == call[c].pc \in {"idle", "answered", "cancelled"}
Finding(c) == Head(call[c].todo)

NoFiles == [f \in AllFiles |-> "none"]

-----------------------------------------------------------------------------
(* fileCache *)

\* What getParsedGoFile returns: a hit is returned as it is, also if it was
\* stored without a syntax tree.
GetParsedGoFile(m, f) ==
    IF maps[m][f] # "none" THEN maps[m][f]
    ELSE IF parses[f] THEN "ast" ELSE "error"

\* Mutant of AfterParse: a failure is stored too.
AfterParseAnyway(m, f) == GetParsedGoFile(m, f)

\* What it leaves in the map.
AfterParse(m, f) == IF GetParsedGoFile(m, f) = "error" THEN "none" ELSE GetParsedGoFile(m, f)

Parse(m, f) == maps' = [maps EXCEPT ![m][f] = AfterParse(m, f)]

\* projectHasMFAKeywords: getFileLines on one file after the other up to the
\* first keyword; a file that is not there yet is stored without syntax tree.
Searched(p) ==
    {Files[p][i] : i \in {k \in DOMAIN Files[p] :
                            \A j \in 1..(k - 1) : Files[p][j] \notin KeywordFiles}}

SearchKeywords(m, p) ==
    maps' = [maps EXCEPT ![m] =
               [f \in AllFiles |-> IF f \in Searched(p) /\ @[f] = "none"
                                   THEN "lines" ELSE @[f]]]

-----------------------------------------------------------------------------
(* Triage *)

\* The clients whose calls overlap another, now that c begins one.
Overlapped(c) ==
    LET busy == {d \in Clients \ {c} : ~Resting(d)}
    IN  IF busy = {} THEN shared \ {c} ELSE shared \cup busy \cup {c}

\* Mutant of Begin: the parsed files outlive the call.
BeginKeepsFiles(c, q) ==
    /\ Resting(c)
    /\ ptr' = c
    /\ evidence' = {}
    /\ scanned' = FALSE
    /\ call' = [call EXCEPT ![c] = Started(q)]
    /\ shared' = Overlapped(c)
    /\ UNCHANGED <<parses, edits, maps>>

\* "Fresh cache per triage call": the engine's fields are replaced.
Begin(c, q) ==
    /\ Resting(c)
    /\ maps' = [maps EXCEPT ![c] = NoFiles]
    /\ ptr' = c
    /\ evidence' = {}
    /\ scanned' = FALSE
    /\ call' = [call EXCEPT ![c] = Started(q)]
    /\ shared' = Overlapped(c)
    /\ UNCHANGED <<parses, edits>>

\* The loop is through.
Finish(c) ==
    /\ call[c].pc = "next"
    /\ call[c].todo = <<>>
    /\ call' = [call EXCEPT ![c] = Goto(@, "answered")]
    /\ UNCHANGED <<parses, edits, maps, ptr, evidence, scanned, shared>>

\* ctx.Done at the head of the loop: no result.
Cancelled(c) ==
    /\ call[c].pc = "next"
    /\ call[c].todo # <<>>
    /\ call' = [call EXCEPT ![c] = Goto(@, "cancelled")]
    /\ UNCHANGED <<parses, edits, maps, ptr, evidence, scanned, shared>>

\* Mutant of SkipVerifiedOK: break instead of continue.
SkipStops(c) ==
    /\ call[c].pc = "next"
    /\ call[c].todo # <<>>
    /\ Finding(c).kind = "ok"
    /\ call' = [call EXCEPT ![c].todo = <<>>]
    /\ UNCHANGED <<parses, edits, maps, ptr, evidence, scanned, shared>>

\* isVerifiedOKRule: left out of the result.
SkipVerifiedOK(c) ==
    /\ call[c].pc = "next"
    /\ call[c].todo # <<>>
    /\ Finding(c).kind = "ok"
    /\ call' = [call EXCEPT ![c].todo = Tail(@)]
    /\ UNCHANGED <<parses, edits, maps, ptr, evidence, scanned, shared>>

Enriched(c, ev) == [kind |-> Finding(c).kind, evidence |-> ev]

\* The finding is done: on to the next one.
Enrich(c, ev) ==
    call' = [call EXCEPT ![c].pc = "next", ![c].todo = Tail(@),
                         ![c].out = Append(@, Enriched(c, ev))]

\* collectContext: imports and declarations of the file (a missing syntax tree
\* gives none), then the collector of the rule, if there is one.
CollectContext(c) ==
    /\ call[c].pc = "next"
    /\ call[c].todo # <<>>
    /\ Finding(c).kind # "ok"
    /\ Parse(ptr, Finding(c).file)
    /\ \/ /\ Finding(c).kind \in {"audit", "csp", "mfa"}
          /\ call' = [call EXCEPT ![c] = Goto(@, "ensure")]
       \/ /\ Finding(c).kind = "key"
          /\ call' = [call EXCEPT ![c] = Goto(@, "collect")]
       \/ /\ Finding(c).kind = "other"
          /\ Enrich(c, {})
    /\ UNCHANGED <<parses, edits, ptr, evidence, scanned, shared>>

\* Mutant of EnsureDiscovered: the flag is not looked at.
EnsureAlways(c) ==
    /\ call[c].pc = "ensure"
    /\ call' = [call EXCEPT ![c] =
                  Call("walk", @.project, @.asked, @.todo, ptr, Files[@.project], {},
                       @.out, @.edited)]
    /\ UNCHANGED <<parses, edits, maps, ptr, evidence, scanned, shared>>

\* ensureMiddlewareDiscovered: once per Triage, as the flag tells.
EnsureDiscovered(c) ==
    /\ call[c].pc = "ensure"
    /\ call' = [call EXCEPT ![c] =
                  IF scanned THEN Goto(@, "collect")
                  ELSE Call("walk", @.project, @.asked, @.todo, ptr, Files[@.project],
                            {}, @.out, @.edited)]
    /\ UNCHANGED <<parses, edits, maps, ptr, evidence, scanned, shared>>

\* discoverMiddleware visits a file, in the map it was given.
Discover(c) ==
    LET f == Head(call[c].walk)
        got == GetParsedGoFile(call[c].map, f)
    IN  /\ call[c].pc = "walk"
        /\ call[c].walk # <<>>
        /\ Parse(call[c].map, f)
        /\ call' = [call EXCEPT ![c] =
             Call(IF got = "lines" THEN "panic" ELSE "walk", @.project, @.asked, @.todo,
                  @.map, Tail(@.walk),
                  IF got = "ast" THEN @.found \cup ({f} \cap Routing) ELSE @.found,
                  @.out, @.edited)]
        /\ UNCHANGED <<parses, edits, ptr, evidence, scanned, shared>>

\* What was found is appended to the engine's slices ...
Publish(c) ==
    /\ call[c].pc = "walk"
    /\ call[c].walk = <<>>
    /\ evidence' = evidence \cup call[c].found
    /\ call' = [call EXCEPT ![c] = Goto(@, "mark")]
    /\ UNCHANGED <<parses, edits, maps, ptr, scanned, shared>>

\* ... and then the flag is set.
MarkScanned(c) ==
    /\ call[c].pc = "mark"
    /\ scanned' = TRUE
    /\ call' = [call EXCEPT ![c] = Goto(@, "collect")]
    /\ UNCHANGED <<parses, edits, maps, ptr, evidence, shared>>

CollectAudit(c) ==
    /\ call[c].pc = "collect"
    /\ Finding(c).kind = "audit"
    /\ Enrich(c, evidence)
    /\ UNCHANGED <<parses, edits, maps, ptr, evidence, scanned, shared>>

CollectMFA(c) ==
    /\ call[c].pc = "collect"
    /\ Finding(c).kind = "mfa"
    /\ SearchKeywords(ptr, call[c].project)
    /\ Enrich(c, evidence)
    /\ UNCHANGED <<parses, edits, ptr, evidence, scanned, shared>>

\* collectCSPContext and collectSecretsContext look for the declaration around
\* the finding in the syntax tree; if there is none in a hit, that is a nil
\* dereference.
CollectEnclosing(c) ==
    /\ call[c].pc = "collect"
    /\ Finding(c).kind \in {"csp", "key"}
    /\ Parse(ptr, Finding(c).file)
    /\ \/ /\ GetParsedGoFile(ptr, Finding(c).file) = "lines"
          /\ call' = [call EXCEPT ![c] = Goto(@, "panic")]
       \/ /\ GetParsedGoFile(ptr, Finding(c).file) # "lines"
          /\ Enrich(c, IF Finding(c).kind = "csp" THEN evidence ELSE {})
    /\ UNCHANGED <<parses, edits, ptr, evidence, scanned, shared>>

-----------------------------------------------------------------------------
(* Environment *)

\* The user saves a file that does not parse, or one that does again.
Edit(f) ==
    /\ edits < MaxEdits
    /\ edits' = edits + 1
    /\ parses' = [parses EXCEPT ![f] = ~@]
    /\ call' = [c \in Clients |-> [call[c] EXCEPT !.edited = @ \cup {f}]]
    /\ UNCHANGED <<maps, ptr, evidence, scanned, shared>>

\* The map a call works on at this step.
Uses(c) == IF call[c].pc = "walk" THEN call[c].map ELSE ptr

Working(c) == call[c].pc \in {"next", "walk", "collect"} /\ call[c].todo # <<>>

\* The process dies and is started again.
Restart ==
    /\ maps' = [c \in Clients \cup {NoClient} |-> NoFiles]
    /\ ptr' = NoClient
    /\ evidence' = {}
    /\ scanned' = FALSE
    /\ call' = [c \in Clients |-> Idle]
    /\ shared' = {}
    /\ UNCHANGED <<parses, edits>>

Panic(c) == call[c].pc = "panic" /\ Restart

\* Go finds the map of one call accessed by another while it is written.
MapFault(c, d) == c # d /\ Working(c) /\ Working(d) /\ Uses(c) = Uses(d) /\ Restart

Init ==
    /\ parses = [f \in AllFiles |-> f \notin Broken]
    /\ edits = 0
    /\ maps = [c \in Clients \cup {NoClient} |-> NoFiles]
    /\ ptr = NoClient
    /\ evidence = {}
    /\ scanned = FALSE
    /\ call = [c \in Clients |-> Idle]
    /\ shared = {}

Next ==
    \/ \E f \in AllFiles : Edit(f)
    \/ \E c \in Clients :
         \/ Panic(c)
         \/ \E d \in Clients : MapFault(c, d)
         \/ \E q \in Requests : Begin(c, q)
         \/ Finish(c) \/ Cancelled(c) \/ SkipVerifiedOK(c) \/ CollectContext(c)
         \/ EnsureDiscovered(c) \/ Discover(c) \/ Publish(c) \/ MarkScanned(c)
         \/ CollectAudit(c) \/ CollectMFA(c) \/ CollectEnclosing(c)

Spec == Init /\ [][Next]_vars

-----------------------------------------------------------------------------
(* Properties *)

\* Types.
TypeOK ==
    /\ parses \in [AllFiles -> BOOLEAN]
    /\ edits \in 0..MaxEdits
    /\ maps \in [Clients \cup {NoClient} -> [AllFiles -> {"none", "ast", "lines"}]]
    /\ ptr \in Clients \cup {NoClient}
    /\ evidence \subseteq AllFiles
    /\ scanned \in BOOLEAN
    /\ shared \subseteq Clients
    /\ \A c \in Clients : Working(c) => Uses(c) # NoClient

\* The evidence of a call's findings is that of its own project as it is: every
\* routing file that was not edited while the call ran is in it exactly if it
\* parses, and nothing else is.
OwnEvidence(c) ==
    \A i \in DOMAIN call[c].out :
        call[c].out[i].kind \in {"audit", "csp", "mfa"} =>
            call[c].out[i].evidence \ call[c].edited =
                {f \in Range(Files[call[c].project]) \cap Routing : parses[f]}
                    \ call[c].edited

\* triage.go "Fresh cache per triage call", for calls that ran alone: nothing of
\* an earlier call, its project's evidence, its parsed files or its flag, shows.
FreshWhenAlone == \A c \in Clients \ shared : OwnEvidence(c)

\* collectors.go "runs middleware discovery once per project": the findings of
\* an answer that was made alone are given the same evidence, although files are
\* edited meanwhile.
SameEvidence ==
    \A c \in Clients \ shared : \A i, j \in DOMAIN call[c].out :
        /\ call[c].out[i].kind \in {"audit", "csp", "mfa"}
        /\ call[c].out[j].kind \in {"audit", "csp", "mfa"}
        => call[c].out[i].evidence = call[c].out[j].evidence

\* triage.go "Fresh cache per triage call", without that condition.
EvidenceCurrent == \A c \in Clients : OwnEvidence(c)

\* The first n findings asked for, without the verified-OK markers.
Wanted(asked, n) == Where(asked, {i \in 1..n : asked[i].kind # "ok"})

KindsOf(s) == [i \in DOMAIN s |-> s[i].kind]

\* triage.go: an answer has one entry for each finding that is not a verified-OK
\* marker, in the order of the findings, however the calls overlap.
Accounted ==
    \A c \in Clients :
        call[c].pc = "answered" =>
            KindsOf(call[c].out) = KindsOf(Wanted(call[c].asked, Len(call[c].asked)))

\* context.go getParsedGoFile "Returns an error if the file cannot be parsed as
\* Go": whoever got no error has a syntax tree to look into.
SyntaxOrError == \A c \in Clients : call[c].pc # "panic"

-----------------------------------------------------------------------------
(* The inductive invariant behind the safety properties *)

Middleware == {"audit", "csp", "mfa"}

Entries == [kind : Kinds, evidence : SUBSET AllFiles]

Labels ==
    {"idle", "next", "ensure", "walk", "mark", "collect", "panic", "answered", "cancelled"}

Calls ==
    [pc : Labels, project : Projects, asked : Seq(Reported), todo : Seq(Reported),
     map : Clients \cup {NoClient}, walk : Seq(AllFiles), found : SUBSET AllFiles,
     out : Seq(Entries), edited : SUBSET AllFiles]

\* Calls that are under way use a map that one of them has made.
PointerInv ==
    /\ call \in [Clients -> Calls]
    /\ \A c \in Clients :
         /\ ~Resting(c) => ptr # NoClient
         /\ call[c].pc = "walk" => call[c].map # NoClient

\* A call has enriched the findings that it has left behind, and is at one that
\* is to be enriched.
Progress(k) ==
    LET n == Len(k.asked) - Len(k.todo)
    IN  /\ n \in Nat
        /\ \A i \in 1..Len(k.todo) : k.todo[i] = k.asked[n + i]
        /\ KindsOf(k.out) = KindsOf(Wanted(k.asked, n))
        /\ k.pc = "answered" => k.todo = <<>>
        /\ k.pc \in {"ensure", "walk", "mark", "collect"} =>
             k.todo # <<>> /\ Head(k.todo).kind # "ok"

\* The routing files of the call's project that parse, and were not edited.
Current(c) ==
    {f \in Range(Files[call[c].project]) \cap Routing : parses[f]} \ call[c].edited

\* What a call that is under way alone has worked out: its map shows the files as
\* they are, and the engine holds no evidence but its own.
OwnEngine(c) ==
    /\ \A d \in Clients \ {c} : Resting(d)
    /\ ptr = c
    /\ \A f \in AllFiles \ call[c].edited : maps[c][f] = "ast" => parses[f]
    /\ scanned \/ call[c].pc = "mark" => evidence \ call[c].edited = Current(c)
    /\ ~scanned /\ call[c].pc # "mark" => evidence = {}
    /\ call[c].pc \in {"walk", "mark"} => ~scanned
    /\ call[c].pc = "collect" /\ Finding(c).kind \in Middleware => scanned
    /\ \A i \in DOMAIN call[c].out :
         call[c].out[i].kind \in Middleware => scanned /\ call[c].out[i].evidence = evidence

\* What such a call has found on its walk, and what it may still find.
OwnWalk(c) ==
    /\ call[c].map = c
    /\ \A i \in DOMAIN call[c].walk : call[c].walk[i] \in Range(Files[call[c].project])
    /\ call[c].found \ call[c].edited \subseteq Current(c)
    /\ \A f \in Current(c) :
         f \in call[c].found \/ \E i \in DOMAIN call[c].walk : call[c].walk[i] = f

AloneInv ==
    \A c \in Clients \ shared :
        /\ ~Resting(c) => OwnEngine(c)
        /\ call[c].pc = "walk" => OwnWalk(c)

TriageInv ==
    /\ TypeOK /\ PointerInv /\ AloneInv /\ FreshWhenAlone /\ SameEvidence
    /\ \A c \in Clients : Progress(call[c])
=============================================================================
