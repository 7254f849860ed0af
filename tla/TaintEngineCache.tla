-------------------------- MODULE TaintEngineCache --------------------------
(***************************************************************************)
(* internal/taint/engine.go: the process-wide cache of loaded Go modules.  *)
(* Scanner calls that run concurrently ask GetOrInit for the engine of a   *)
(* project root; the first one loads it under a deadline in a goroutine of *)
(* its own, the others wait for it in sync.Once, and whatever the load     *)
(* gave, an engine or nil, answers every later call on that root.          *)
(*                                                                         *)
(* packages.Load is external: it may succeed, fail or never return. An     *)
(* engine is abstracted to the time its load finished. Code between two    *)
(* waits takes no time: the clock stands still while a caller can move.    *)
(* Reset and Evict have no caller outside the tests and are left out.      *)
(***************************************************************************)
EXTENDS Integers, FiniteSets

CONSTANTS
    Callers,     \* scanner calls in progress
    Roots,       \* absolute project roots
    LoadTimeout, \* the 90 seconds of doLoad
    MaxClock,    \* bound: clock
    NoRoot,      \* a path that filepath.Abs refuses
    NoEngine     \* nil

ASSUME TimeAssumption == LoadTimeout \in Nat /\ MaxClock \in Nat
ASSUME NilAssumption == NoRoot \notin Roots /\ NoEngine \notin Nat

VARIABLES
    clock,  \* seconds
    entry,  \* engineCache: the loadEntry of each root
    worker, \* per root: the goroutine in packages.Load and its result channel
    loads,  \* history: how many such goroutines were started
    call    \* per caller: its GetOrInit

engineVars == <<clock, entry, worker, loads, call>>

\* A loadEntry: "st" is the state of its sync.Once, "deadline" that of loadCtx,
\* "why" how doLoad ended.
Entry(st, deadline, engine, why) ==
    [st |-> st, deadline |-> deadline, engine |-> engine, why |-> why]

\* A call: "since" when it was made, "live" whether its own context still is.
Call(pc, root, since, live, engine) ==
    [pc |-> pc, root |-> root, since |-> since, live |-> live, engine |-> engine]

Absent == Entry("absent", 0, NoEngine, "none")
Created == Entry("new", 0, NoEngine, "none")
Settled(engine, why) == Entry("done", 0, engine, why)

\* The goroutine has the packages, or an error, or has yet to return.
Worker(st, at) == [st |-> st, at |-> at]

Resting(c) == call[c].pc \in {"idle", "answered"}

-----------------------------------------------------------------------------
(* GetOrInit *)

\* filepath.Abs fails: nil, and nothing is cached.
InvalidRoot(c) ==
    /\ Resting(c)
    /\ call' = [call EXCEPT ![c] = Call("answered", NoRoot, clock, TRUE, NoEngine)]
    /\ UNCHANGED <<clock, entry, worker, loads>>

\* Mutant of GetEntry: the new entry does not reach the map.
GetEntryUnstored(c, r) ==
    /\ Resting(c)
    /\ call' = [call EXCEPT ![c] = Call("once", r, clock, TRUE, NoEngine)]
    /\ UNCHANGED <<clock, entry, worker, loads>>

\* Get-or-create under engineMu.
GetEntry(c, r) ==
    /\ Resting(c)
    /\ entry' = [entry EXCEPT ![r] = IF @.st = "absent" THEN Created ELSE @]
    /\ call' = [call EXCEPT ![c] = Call("once", r, clock, TRUE, NoEngine)]
    /\ UNCHANGED <<clock, worker, loads>>

\* Mutants of OnceDo: a second caller loads as well; the load has no deadline.
OnceDoAgain(c) ==
    /\ call[c].pc = "once"
    /\ entry[call[c].root].st \in {"new", "loading"}
    /\ entry' = [entry EXCEPT ![call[c].root] =
                   Entry("loading", clock + LoadTimeout, NoEngine, "none")]
    /\ worker' = [worker EXCEPT ![call[c].root] = Worker("running", 0)]
    /\ loads' = [loads EXCEPT ![call[c].root] = @ + 1]
    /\ call' = [call EXCEPT ![c] = Call("select", @.root, @.since, @.live, NoEngine)]
    /\ UNCHANGED clock

OnceDoNoDeadline(c) ==
    /\ call[c].pc = "once"
    /\ entry[call[c].root].st = "new"
    /\ entry' = [entry EXCEPT ![call[c].root] =
                   Entry("loading", MaxClock + 1, NoEngine, "none")]
    /\ worker' = [worker EXCEPT ![call[c].root] = Worker("running", 0)]
    /\ loads' = [loads EXCEPT ![call[c].root] = @ + 1]
    /\ call' = [call EXCEPT ![c] = Call("select", @.root, @.since, @.live, NoEngine)]
    /\ UNCHANGED clock

\* The first into once.Do runs doLoad: deadline, goroutine, select.
OnceDo(c) ==
    /\ call[c].pc = "once"
    /\ entry[call[c].root].st = "new"
    /\ entry' = [entry EXCEPT ![call[c].root] =
                   Entry("loading", clock + LoadTimeout, NoEngine, "none")]
    /\ worker' = [worker EXCEPT ![call[c].root] = Worker("running", 0)]
    /\ loads' = [loads EXCEPT ![call[c].root] = @ + 1]
    /\ call' = [call EXCEPT ![c] = Call("select", @.root, @.since, @.live, NoEngine)]
    /\ UNCHANGED clock

\* Mutant of OnceReturn: an "initialised" flag that is set before the load.
OnceReturnEarly(c) ==
    /\ call[c].pc = "once"
    /\ entry[call[c].root].st \in {"loading", "done"}
    /\ call' = [call EXCEPT ![c] = Call("answered", @.root, @.since, @.live,
                                        entry[call[c].root].engine)]
    /\ UNCHANGED <<clock, entry, worker, loads>>

\* once.Do returns to the others after the first; their contexts are not asked.
OnceReturn(c) ==
    /\ call[c].pc = "once"
    /\ entry[call[c].root].st = "done"
    /\ call' = [call EXCEPT ![c] = Call("answered", @.root, @.since, @.live,
                                        entry[call[c].root].engine)]
    /\ UNCHANGED <<clock, entry, worker, loads>>

-----------------------------------------------------------------------------
(* doLoad *)

\* packages.Load returns, with packages that containsHardErrors accepts or not;
\* the channel is buffered, so the goroutine ends even if nobody listens.
LoadReturns(r, ok) ==
    /\ worker[r].st = "running"
    /\ worker' = [worker EXCEPT ![r] = Worker(IF ok THEN "loaded" ELSE "failed", clock)]
    /\ UNCHANGED <<clock, entry, loads, call>>

Finish(c, engine, why) ==
    /\ entry' = [entry EXCEPT ![call[c].root] = Settled(engine, why)]
    /\ call' = [call EXCEPT ![c] = Call("answered", @.root, @.since, @.live, engine)]
    /\ UNCHANGED <<clock, worker, loads>>

\* select: a result is there. If the context is done as well, Go may take
\* either branch.
SelectResult(c) ==
    /\ call[c].pc = "select"
    /\ \/ /\ worker[call[c].root].st = "loaded"
          /\ Finish(c, worker[call[c].root].at, "loaded")
       \/ /\ worker[call[c].root].st = "failed"
          /\ Finish(c, NoEngine, "failed")

\* select: loadCtx is done, by its deadline or because the caller went away.
\* The goroutine is left behind.
SelectDone(c) ==
    /\ call[c].pc = "select"
    /\ \/ /\ clock >= entry[call[c].root].deadline
          /\ Finish(c, NoEngine, "timeout")
       \/ /\ ~call[c].live
          /\ Finish(c, NoEngine, "cancelled")

-----------------------------------------------------------------------------
(* Environment *)

\* The client cancels the request or disconnects.
Cancel(c) ==
    /\ ~Resting(c)
    /\ call[c].live
    /\ call' = [call EXCEPT ![c] = Call(@.pc, @.root, @.since, FALSE, @.engine)]
    /\ UNCHANGED <<clock, entry, worker, loads>>

\* The caller can go on: time does not pass before it does.
Ready(c) ==
    \/ call[c].pc = "once" /\ entry[call[c].root].st # "loading"
    \/ /\ call[c].pc = "select"
       /\ \/ worker[call[c].root].st \in {"loaded", "failed"}
          \/ clock >= entry[call[c].root].deadline
          \/ ~call[c].live

EngineTick ==
    /\ clock < MaxClock
    /\ \A c \in Callers : ~Ready(c)
    /\ clock' = clock + 1
    /\ UNCHANGED <<entry, worker, loads, call>>

EngineInit ==
    /\ clock = 0
    /\ entry = [r \in Roots |-> Absent]
    /\ worker = [r \in Roots |-> Worker("off", 0)]
    /\ loads = [r \in Roots |-> 0]
    /\ call = [c \in Callers |-> Call("idle", NoRoot, 0, TRUE, NoEngine)]

Step(c) == OnceDo(c) \/ OnceReturn(c) \/ SelectResult(c) \/ SelectDone(c)

EngineNext ==
    \/ EngineTick
    \/ \E c \in Callers :
         \/ InvalidRoot(c)
         \/ \E r \in Roots : GetEntry(c, r)
         \/ Step(c)
         \/ Cancel(c)
    \/ \E r \in Roots, ok \in BOOLEAN : LoadReturns(r, ok)

EngineSpec == EngineInit /\ [][EngineNext]_engineVars

\* Goroutines run and time passes, however many calls come in (strong fairness:
\* a call that is answered at once holds the clock for a moment); nothing makes
\* packages.Load return, cancels a request or brings a new one.
EngineFairness ==
    SF_engineVars(EngineTick) /\ \A c \in Callers : WF_engineVars(Step(c))

EngineFairSpec == EngineSpec /\ EngineFairness

-----------------------------------------------------------------------------
(* Properties *)

Engines == Nat \cup {NoEngine}

EngineEntries ==
    [st : {"absent", "new", "loading", "done"}, deadline : Nat, engine : Engines,
     why : {"none", "loaded", "failed", "timeout", "cancelled"}]

Workers == [st : {"off", "running", "loaded", "failed"}, at : Nat]

Calls ==
    [pc : {"idle", "once", "select", "answered"}, root : Roots \cup {NoRoot},
     since : Nat, live : BOOLEAN, engine : Engines]

\* Types; a call that is under way has a root, and a root that was asked for has
\* an entry.
EngineTypeOK ==
    /\ clock \in 0..MaxClock
    /\ entry \in [Roots -> EngineEntries]
    /\ worker \in [Roots -> Workers]
    /\ loads \in [Roots -> Nat]
    /\ call \in [Callers -> Calls]
    /\ \A c \in Callers :
         call[c].pc \in {"once", "select"} =>
            call[c].root \in Roots /\ entry[call[c].root].st # "absent"

\* engine.go "prevents this leak from compounding": one goroutine per root is
\* ever started, so at most one is left behind in packages.Load.
OneLoadPerRoot == \A r \in Roots : loads[r] <= 1

\* engine.go "built exactly once via entry.once.Do regardless of caller
\* concurrency": callers of one root never disagree about its engine, also if
\* one of them gave up or joined while the load was running.
SameEngine ==
    \A c, d \in Callers :
        /\ call[c].pc = "answered" /\ call[d].pc = "answered"
        /\ call[c].root = call[d].root /\ call[c].root \in Roots
        => call[c].engine = call[d].engine

\* engine.go "guaranteed bounded scanner latency": no caller, loading or
\* waiting, is held longer than the load timeout even if packages.Load hangs.
WaitBounded ==
    \A c \in Callers :
        call[c].pc \in {"once", "select"} => clock - call[c].since <= LoadTimeout

\* Every call that can still see its deadline within the bound of the clock is
\* answered, whatever packages.Load does and whoever cancels.
CallerReturns ==
    \A c \in Callers :
        call[c].pc = "once" /\ call[c].since + LoadTimeout <= MaxClock
            ~> call[c].pc = "answered"

\* httpinputscanner/scanner.go "could not load this project (missing go binary,
\* typecheck errors, or load timeout)": a caller that has not gone away is given
\* nil for a root only if loading it failed or took too long.
UnavailableIsReal ==
    \A c \in Callers :
        /\ call[c].pc = "answered" /\ call[c].live
        /\ call[c].root \in Roots /\ call[c].engine = NoEngine
        => entry[call[c].root].why \in {"failed", "timeout"}

-----------------------------------------------------------------------------
(* The inductive invariant behind the safety properties *)

\* One caller is inside once.Do exactly while the entry is loading.
LoaderInv ==
    /\ \A c \in Callers : call[c].pc = "select" => entry[call[c].root].st = "loading"
    /\ \A c, d \in Callers :
         call[c].pc = "select" /\ call[d].pc = "select" /\ call[c].root = call[d].root
            => c = d
    /\ \A r \in Roots :
         entry[r].st = "loading" => \E c \in Callers : call[c].pc = "select" /\ call[c].root = r

\* No goroutine was started for an entry whose once has not run.
LoadsInv ==
    \A r \in Roots : loads[r] <= 1 /\ (entry[r].st \in {"absent", "new"} => loads[r] = 0)

\* Whoever was answered has the engine of the entry, which stays.
AnswerInv ==
    \A c \in Callers :
        call[c].pc = "answered" /\ call[c].root \in Roots =>
            /\ entry[call[c].root].st = "done"
            /\ call[c].engine = entry[call[c].root].engine

\* A call under way came just now if its entry is new; a load in progress has
\* a deadline that neither the clock nor the caller's patience has passed.
DeadlineInv ==
    \A c \in Callers :
        call[c].pc \in {"once", "select"} =>
            LET e == entry[call[c].root]
            IN  /\ call[c].since <= clock
                /\ e.st = "new" => call[c].since = clock
                /\ e.st = "loading" =>
                     clock <= e.deadline /\ e.deadline <= call[c].since + LoadTimeout
                /\ e.st = "done" => clock <= call[c].since + LoadTimeout

EngineInv == EngineTypeOK /\ LoaderInv /\ LoadsInv /\ AnswerInv /\ DeadlineInv
=============================================================================
