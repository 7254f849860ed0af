------------------------------ MODULE TaintFlow ------------------------------
(***************************************************************************)
(* FlowsTo of internal/taint: does the data of a struct field reach a      *)
(* function that stores it.  The engine sweeps all files of the module     *)
(* again and again, each time in the same order, and grows one set of      *)
(* tainted objects until a sink receives one or a round adds nothing.      *)
(*                                                                         *)
(* A program is what the type checker and the syntax trees say of it:      *)
(*   files   for each file its nodes in the order ast.Inspect visits them  *)
(*   funcs   its functions and those of its libraries                      *)
(*   fields  the objects of the struct fields that the engine can look up  *)
(*   sinks   the functions of the sink library it imports                  *)
(*   loaded  whether packages.Load gave the engine anything                *)
(* A function has its parameters, iface (it is a method of an interface),  *)
(* and a kind: "plain", or its row in the tables for user input:           *)
(* "accessor", "decoder", "recovery", "through" (argument to result) and   *)
(* "into" (argument to destination).  A node says what the rules read of   *)
(* it: an assignment, a struct literal, a return, a declaration, a call.   *)
(*                                                                         *)
(* An expression is the objects and the calls found below its selectors,   *)
(* addresses, parentheses, literals and arguments, with the objects below  *)
(* an index (only isExprTainted looks there) and below a string            *)
(* concatenation (only isArgTainted looks there) kept apart.               *)
(***************************************************************************)
EXTENDS ScanCall, Integers, Sequences, FiniteSets, SequencesExt

CONSTANT MaxDepth      \* maxDepth: hops of a parameter binding, 5 in the code

ASSUME DepthAssumption == MaxDepth \in Nat

(* What a query knows: flowState, the worklist and the sweep it is in.     *)
NewFlow(src) ==
    [src |-> src, tainted |-> {src}, depth |-> <<>>, visited |-> {}, returns |-> {},
     worklist |-> {src}, file |-> 1, hit |-> FALSE]

DepthOf(s, obj) == IF obj \in DOMAIN s.depth THEN s.depth[obj] ELSE 0

Taint(s, objs, d) ==
    [s EXCEPT !.tainted = @ \cup objs,
              !.depth = [o \in objs \cup DOMAIN @ |-> IF o \in objs THEN d ELSE @[o]]]

------------------------------------------------------------------------------
(* Expressions.                                                            *)

isExprTainted(e, s) ==
    \/ (e.objs \cup e.index) \cap s.tainted # {}
    \/ e.calls \cap s.returns # {}

(* The other reading of an expression, used by the propagators.            *)
isArgTainted(e, s) ==
    \/ (e.objs \cup e.concat) \cap s.tainted # {}
    \/ e.calls \cap s.returns # {}

anyExprTainted(es, s) == \E i \in DOMAIN es : isExprTainted(es[i], s)

------------------------------------------------------------------------------
(* The rules.                                                              *)

(* R1.  Every left side is tainted if any right side is.                   *)
applyRule1(n, s) ==
    IF anyExprTainted(n.args, s) THEN Taint(s, n.to, 0) ELSE s

(* R2.  The field itself is tainted, in every value of the struct.         *)
setElement(kv, t) == IF isExprTainted(kv[2], t) THEN Taint(t, {kv[1]}, 0) ELSE t

applyRule2(n, s) ==
    LET after[i \in 0 .. Len(n.elts)] ==
            IF i = 0 THEN s ELSE setElement(n.elts[i], after[i - 1])
    IN  after[Len(n.elts)]

bindParameter(arg, param, depth, t) ==
    IF isExprTainted(arg, t) THEN Taint(t, {param}, depth) ELSE t

(* The positions that the call and the declaration both have.              *)
bindParameters(args, params, depth, s) ==
    LET last == IF Len(args) < Len(params) THEN Len(args) ELSE Len(params)
        after[i \in 0 .. last] ==
            IF i = 0 THEN s ELSE bindParameter(args[i], params[i], depth, after[i - 1])
    IN  after[last]

(* Mutant of applyRule3: the test of the arguments is forgotten.           *)
bindEveryParameter(p, n, s) ==
    LET fn == p.funcs[n.fn]
    IN  IF n.fn \in s.visited \/ fn.iface THEN s
        ELSE Taint([s EXCEPT !.visited = @ \cup {n.fn}], Range(fn.params), 1)

(* R3.  The callee, unless it is a method of an interface, is marked as    *)
(* visited before its arguments are looked at, and the depth of the        *)
(* binding is one more than that of any object.                            *)
applyRule3(p, n, s) ==
    LET fn == p.funcs[n.fn]
        next == 1 + Max({0} \cup Range(s.depth))
        marked == [s EXCEPT !.visited = @ \cup {n.fn}]
    IN  IF n.fn \in s.visited \/ fn.iface THEN s
        ELSE IF next > MaxDepth THEN marked
        ELSE bindParameters(n.args, fn.params, next, marked)

(* What is pushed for a declaration is popped when ast.Inspect leaves the  *)
(* first child of it, its name: the stack is empty again in the body.      *)
enclosingFunc(stack, n) ==
    LET pushed == Append(stack, n.fn) IN Front(pushed)

(* R4.  A function that returns a tainted value is marked, if the stack    *)
(* knows it.                                                               *)
applyRule4(n, stack, s) ==
    IF stack # <<>> /\ anyExprTainted(n.args, s)
    THEN [s EXCEPT !.returns = @ \cup {Last(stack)}]
    ELSE s

(* R5.                                                                     *)
checkSinkHit(p, n, s) == n.fn \in p.sinks /\ anyExprTainted(n.args, s)

(* The tables for user input share the set of tainted objects.  A call of  *)
(* an accessor marks all results of that accessor.                         *)
seedCallReturn(n, s) == [s EXCEPT !.returns = @ \cup {n.fn}]

(* A decoder taints the fields of the struct it fills.                     *)
seedBodyDecoderFields(n, s) == Taint(s, n.to, 0)

(* A destination, if it is a variable, is tainted without a depth.         *)
taintDestObject(n, s) == [s EXCEPT !.tainted = @ \cup n.to]

(* A tainted argument, or the receiver of a method that reads it out,      *)
(* goes on to the result or to the destination.  gin's Set fills a table   *)
(* that nothing reads, for Get, GetString and MustGet are accessors.       *)
propagateUserInput(p, n, s) ==
    LET kind == p.funcs[n.fn].kind
        argTainted == \E i \in DOMAIN n.args : isArgTainted(n.args[i], s)
    IN  CASE kind = "through" /\ (argTainted \/ isArgTainted(n.recv, s)) -> seedCallReturn(n, s)
          [] kind = "into" /\ argTainted -> taintDestObject(n, s)
          [] OTHER -> s

propagateUserInputCall(p, n, s) ==
    LET kind == p.funcs[n.fn].kind
    IN  CASE kind = "accessor" -> seedCallReturn(n, s)
          [] kind = "decoder" -> seedBodyDecoderFields(n, s)
          [] OTHER -> propagateUserInput(p, n, s)

(* The recovered value of a gin recovery callback.                         *)
RecognizeRecoveryCallback(p, n) ==
    IF p.funcs[n.fn].kind = "recovery" THEN n.to ELSE {}

visitCall(p, n, s) ==
    IF n.fn \notin DOMAIN p.funcs THEN s      \* resolveCallee finds no function
    ELSE applyRule3(p, n, propagateUserInputCall(p, n, Taint(s, RecognizeRecoveryCallback(p, n), 0)))

(* One file, from its first node to its last or to the first hit.          *)
visitNode(p, n, w) ==
    IF w.flow.hit THEN w
    ELSE CASE n.op = "assign" -> [w EXCEPT !.flow = applyRule1(n, @)]
           [] n.op = "lit" -> [w EXCEPT !.flow = applyRule2(n, @)]
           [] n.op = "func" -> [w EXCEPT !.stack = enclosingFunc(@, n)]
           [] n.op = "return" -> [w EXCEPT !.flow = applyRule4(n, w.stack, @)]
           [] n.op = "call" ->
                IF checkSinkHit(p, n, w.flow) THEN [w EXCEPT !.flow.hit = TRUE]
                ELSE [w EXCEPT !.flow = visitCall(p, n, @)]

propagateInFile(p, file, s) ==
    LET after[i \in 0 .. Len(file)] ==
            IF i = 0 THEN [flow |-> s, stack |-> <<>>] ELSE visitNode(p, file[i], after[i - 1])
    IN  after[Len(file)].flow

------------------------------------------------------------------------------
(* The query.                                                              *)

(* lookupField and resolveSinks: without either, the answer is no.         *)
lookupField(p, obj) == p.loaded /\ obj \in p.fields
resolveSinks(p) == IF p.loaded THEN p.sinks ELSE {}
Answerable(p, obj) == lookupField(p, obj) /\ resolveSinks(p) # {}

(* Mutant of Requeue: a file that adds objects has been looked at, go on.  *)
NoRequeue(before, after) == after

(* After a file that added an object, all objects are queued again.        *)
Requeue(before, after) ==
    IF Cardinality(after.tainted) > Cardinality(before.tainted)
    THEN [after EXCEPT !.worklist = @ \cup {o \in after.tainted : DepthOf(after, o) <= MaxDepth}]
    ELSE after

SweepFile(p, s) ==
    LET after == Requeue(s, propagateInFile(p, p.files[s.file], s))
    IN  [after EXCEPT !.file = @ + 1]

(* The object leaves the worklist; the sweep does not depend on which.     *)
TakeObject(s, obj) == [s EXCEPT !.worklist = @ \ {obj}, !.file = 1]

(* FlowsTo, one file a step; work.flow is the query, and the caller goes   *)
(* on at pc "answer".                                                      *)
FlowSteps(s) ==
    \/ /\ scanner = s /\ pc = "query"
       /\ \E obj \in work.flow.worklist :
            Pass(s, "query", "sweep", [work EXCEPT !.flow = TakeObject(@, obj)])
    \/ /\ scanner = s /\ pc = "query"
       /\ work.flow.worklist = {}
       /\ Pass(s, "query", "answer", work)
    \/ /\ scanner = s /\ pc = "sweep"
       /\ work.flow.file <= Len(project.program.files)
       /\ LET after == SweepFile(project.program, work.flow)
          IN  Pass(s, "sweep", IF after.hit THEN "answer" ELSE "sweep", [work EXCEPT !.flow = after])
    \/ /\ scanner = s /\ pc = "sweep"
       /\ work.flow.file > Len(project.program.files)
       /\ Pass(s, "sweep", "query", work)

------------------------------------------------------------------------------
(* What flows where, whatever the order of files and calls: the reference. *)

Nodes(p) == UNION {Range(p.files[i]) : i \in DOMAIN p.files}

(* Objects of an expression, and results of the functions it calls.        *)
(* Objects are pairs of the type and the field, or of "" and the variable; *)
(* a result is none.                                                       *)
ResultOf(f) == <<f>>
Read(e) == e.objs \cup e.index \cup e.concat \cup {ResultOf(f) : f \in e.calls}
ReadAll(es) == UNION {Read(es[i]) : i \in DOMAIN es}

LiteralFlow(n) == UNION {Read(n.elts[i][2]) \X {n.elts[i][1]} : i \in DOMAIN n.elts}

AssignFlow(p) ==
    (UNION {ReadAll(n.args) \X n.to : n \in {m \in Nodes(p) : m.op = "assign"}})
      \cup (UNION {LiteralFlow(n) : n \in {m \in Nodes(p) : m.op = "lit"}})

ReturnFlow(p) ==
    UNION {ReadAll(n.args) \X {ResultOf(n.fn)} : n \in {m \in Nodes(p) : m.op = "return"}}

Calls(p, kinds) ==
    {n \in Nodes(p) : n.op = "call" /\ n.fn \in DOMAIN p.funcs /\ p.funcs[n.fn].kind \in kinds}

ArgumentFlow(n, params) ==
    UNION {Read(n.args[i]) \X {params[i]} : i \in (1 .. Len(n.args)) \cap (1 .. Len(params))}

CallFlow(p) ==
    (UNION {ArgumentFlow(n, p.funcs[n.fn].params) :
              n \in {m \in Nodes(p) : m.op = "call" /\ m.fn \in DOMAIN p.funcs}})
      \cup (UNION {(ReadAll(n.args) \cup Read(n.recv)) \X {ResultOf(n.fn)} : n \in Calls(p, {"through"})})
      \cup (UNION {ReadAll(n.args) \X n.to : n \in Calls(p, {"into"})})

UserInput(p) ==
    {ResultOf(n.fn) : n \in Calls(p, {"accessor"})}
      \cup (UNION {n.to : n \in Calls(p, {"decoder", "recovery"})})

OneHop(edges, r) == r \cup {e[2] : e \in {x \in edges : x[1] \in r}}

(* Everything data of the objects from can get to along the edges.         *)
Reach(edges, from) ==
    LET grow[k \in 0 .. Cardinality(edges)] ==
            IF k = 0 THEN from ELSE OneHop(edges, grow[k - 1])
    IN  grow[Cardinality(edges)]

(* What a program is: sequences of nodes of the five kinds, assignments to *)
(* objects, and finitely many ways for a value to go.                      *)
WellFormed(p) ==
    /\ p.files \in Seq(Seq(Nodes(p)))
    /\ \A n \in Nodes(p) :
          /\ n.op \in {"assign", "lit", "func", "return", "call"}
          /\ n.args \in Seq(Range(n.args)) /\ n.elts \in Seq(Range(n.elts))
    /\ \A f \in DOMAIN p.funcs : p.funcs[f].params \in Seq(Range(p.funcs[f].params))
    /\ \A e \in AssignFlow(p) : Len(e[2]) = 2
    /\ IsFiniteSet(AssignFlow(p)) /\ IsFiniteSet(CallFlow(p)) /\ IsFiniteSet(UserInput(p))

(* The arguments of the sinks.                                             *)
Stored(p) == UNION {ReadAll(n.args) : n \in {m \in Nodes(p) : m.op = "call" /\ m.fn \in p.sinks}}

(* No string concatenation, which rules R1 to R5 do not look into.         *)
NoConcat(p) ==
    \A n \in Nodes(p) : /\ \A i \in DOMAIN n.args : n.args[i].concat = {}
                        /\ \A i \in DOMAIN n.elts : n.elts[i][2].concat = {}

(* The field is stored along assignments and struct literals alone.        *)
StoredDirectly(p, obj) ==
    Answerable(p, obj) /\ NoConcat(p) /\ Reach(AssignFlow(p), {obj}) \cap Stored(p) # {}

(* The field is stored, with returns of functions in between.              *)
StoredByReturn(p, obj) ==
    /\ Answerable(p, obj) /\ NoConcat(p)
    /\ Reach(AssignFlow(p) \cup ReturnFlow(p), {obj}) \cap Stored(p) # {}

Answered(s) == scanner = s /\ pc = "answer"

(* FlowsTo says yes only if a value of the field, or some input of a user, *)
(* can get into an argument of a sink.  The marks of one query are made in *)
(* many sweeps over files in which calls precede and follow what they use; *)
(* a parameter marked at the wrong call is enough for a false yes.         *)
TaintHitJustified ==
    Answered("pan") /\ work.flow.hit =>
        LET p == project.program
        IN  Reach(AssignFlow(p) \cup CallFlow(p), {work.flow.src} \cup UserInput(p)) \cap Stored(p) # {}

(* FlowsTo says yes if the value gets there along assignments and struct   *)
(* literals alone: however the files that write a variable stand to those  *)
(* that read it, the engine stops sweeping only when nothing is left to    *)
(* mark.                                                                   *)
TaintDirectFound ==
    Answered("pan") /\ StoredDirectly(project.program, work.flow.src) => work.flow.hit

(* Rule R4 as FlowsTo documents it (propagate.go:26): a value returned by  *)
(* a function is followed to where its result is used.                     *)
TaintReturnFollowed ==
    Answered("pan") /\ StoredByReturn(project.program, work.flow.src) => work.flow.hit
==============================================================================
