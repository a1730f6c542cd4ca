---------------------------- MODULE ReasoningCycle -----------------------------
(***************************************************************************)
(* The reasoning cycle of an engine: Engine::run takes an event from the   *)
(* queue, Engine::execute_event tests every plan against it, evaluates the *)
(* conditions, and executes the intentions until one is not cut; a body    *)
(* may call a procedure, which runs execute_event inside the outer one     *)
(* (lib/democle: engine.cpp, condition.cpp, plan.cpp, context.cpp,         *)
(* intention.h, context_collector.cpp).                                    *)
(*                                                                         *)
(* Contexts are heap objects that are deleted by hand, with a collector    *)
(* for those that the code loses: heap maps the live ones to their         *)
(* variables.  Bodies are client code: between its start and its end a     *)
(* body runs any statements of its context, in any order.  An exception    *)
(* other than CutPlanException ends the process, that is, the behaviour.   *)
(*                                                                         *)
(* Client threads change the knowledge base and push the event in two      *)
(* steps, as in BeliefBase, and so does a body.  Each get_matching_beliefs *)
(* holds the mutex of the knowledge base, so it is one step here.          *)
(***************************************************************************)
EXTENDS ConditionEval

CONSTANTS
  Plans,         \* sequence of [type, trigger, cond]; cond is <<>> if there is none
  Beliefs,       \* ground beliefs that threads assert and retract
  Reactors,      \* ground reactors that threads post
  Procedures,    \* ground procedures that threads call
  Clients,       \* threads other than the engine's
  EngineThread,  \* the thread that runs Engine::run
  NoEvent,       \* a thread that owes no event
  MaxPosts,      \* bound: operator calls by clients
  MaxStatements, \* bound: statements run by bodies
  MaxDepth,      \* bound: nested calls of execute_event
  MaxContexts    \* bound: contexts at a time

ASSUME ThreadAssumption == EngineThread \notin Clients

ASSUME BoundAssumption ==
  {MaxPosts, MaxStatements, MaxContexts} \subseteq Nat /\ MaxDepth \in Nat \ {0}

\* What operator/ and operator>> build, and what ground formulas are.
ASSUME PlanAssumption ==
  Plans \in Seq([type : {"add", "del", "call"}, trigger : Template, cond : Seq(Template)])

ASSUME FormulaAssumption == Beliefs \cup Reactors \cup Procedures \subseteq Fact

VARIABLES
  kb,           \* beliefs in the knowledge base, oldest first
  event_queue,  \* events pushed and not yet popped
  pending,      \* the event each thread is about to push
  heap,         \* live contexts and their variables
  objects,      \* ContextCollector::_objects
  planCtx,      \* AtomicFormula::ctx of each plan's trigger
  stack,        \* activations of execute_event, innermost last
  posts,        \* operator calls made by clients
  statements    \* statements run by bodies

vars == <<kb, event_queue, pending, heap, objects, planCtx, stack, posts,
          statements>>

Threads == Clients \cup {EngineThread}

Event == [type : {"add"}, bel : Beliefs \cup Reactors]
         \cup [type : {"del"}, bel : Beliefs]
         \cup [type : {"call"}, bel : Procedures]

ContextIds == 1 .. MaxContexts

NoContext == 0

(***************************************************************************)
(* An activation of execute_event, and the evaluation of a condition in    *)
(* it: the locals of the two functions.                                    *)
(***************************************************************************)
\* Fault: the loop over the plans starts at zero.
NewFrameZero(evt) ==
  [evt |-> evt, pc |-> "run", plan |-> 0, c |-> NoContext, elem |-> 1,
   array |-> <<>>, idx |-> 1, next |-> <<>>, intentions |-> <<>>, i |-> 1,
   seen |-> {}, steady |-> {}]

NewFrame(evt) ==
  [evt        |-> evt,
   pc         |-> "test",
   plan       |-> 1,           \* the plan under test
   c          |-> NoContext,   \* its starting context
   elem       |-> 1,           \* the element of its condition
   array      |-> <<>>,        \* context_array
   idx        |-> 1,           \* the context of context_array
   next       |-> <<>>,        \* next_context_array
   intentions |-> <<>>,
   i          |-> 1,           \* the intention being executed
   seen       |-> ToSet(kb),   \* history: beliefs there at some moment of the tests
   steady     |-> ToSet(kb)]   \* history: beliefs there at every moment of them

Init ==
  /\ kb = <<>>
  /\ event_queue = <<>>
  /\ pending = [t \in Threads |-> NoEvent]
  /\ heap = [c \in {} |-> NoBinding]
  /\ objects = {}
  /\ planCtx = [p \in DOMAIN Plans |-> NoContext]
  /\ stack = <<>>
  /\ posts = 0
  /\ statements = 0

Depth == Len(stack)

top == Last(stack)

At(label) == stack # <<>> /\ top.pc = label

SetTop(frame) == stack' = [stack EXCEPT ![Depth] = frame]

\* Every place of an activation that holds a pointer to a context it will
\* dereference or delete.
Places(frame) ==
  (IF frame.c = NoContext THEN {} ELSE {<<"c", 1>>})
  \cup {<<"array", n>> : n \in DOMAIN frame.array}
  \cup {<<"next", n>> : n \in DOMAIN frame.next}
  \cup {<<"intentions", n>> : n \in DOMAIN frame.intentions}

Pointer(frame, place) ==
  CASE place[1] = "c"          -> frame.c
    [] place[1] = "array"      -> frame.array[place[2]]
    [] place[1] = "next"       -> frame.next[place[2]]
    [] place[1] = "intentions" -> frame.intentions[place[2]].ctx

Pointers(frame) == {Pointer(frame, place) : place \in Places(frame)}

(***************************************************************************)
(* new Context and delete.  A new context gets the least address at which  *)
(* no live context is and that no pointer holds, dangling or not.          *)
(***************************************************************************)
Free == ContextIds \ (DOMAIN heap \cup ToSet(planCtx)
                      \cup UNION {Pointers(stack[d]) : d \in DOMAIN stack})

Fresh(n) == [k \in 1 .. n |-> Nth(Free, k)]

CanAllocate(n) == n <= Cardinality(Free)

\* One new context for each of the bindings bs, registered with the collector.
Allocate(bs) ==
  LET ids == Fresh(Len(bs)) IN
    /\ CanAllocate(Len(bs))
    /\ heap' = [c \in DOMAIN heap \cup ToSet(ids) |->
                  IF c \in DOMAIN heap THEN heap[c]
                  ELSE bs[CHOOSE k \in DOMAIN ids : ids[k] = c]]
    /\ objects' = objects \cup ToSet(ids)

\* Fault: the destructor does not tell the collector.
DeleteSilently(cs) ==
  heap' = Restrict(heap, DOMAIN heap \ cs) /\ UNCHANGED objects

Delete(cs) ==
  /\ heap' = Restrict(heap, DOMAIN heap \ cs)
  /\ objects' = objects \ cs

(***************************************************************************)
(* Engine operators, called by clients and, through the context, by        *)
(* bodies.  A call that changes nothing and pushes nothing is no step.     *)
(***************************************************************************)
Owe(t, ty, f) ==
  /\ pending[t] = NoEvent
  /\ pending' = [pending EXCEPT ![t] = [type |-> ty, bel |-> f]]

AssertBelief(t, f) ==
  /\ f \notin ToSet(kb)
  /\ kb' = Append(kb, f)
  /\ Owe(t, "add", f)

RetractBelief(t, f) ==
  /\ \E i \in DOMAIN kb : kb[i] = f /\ kb' = RemoveAt(kb, i)
  /\ Owe(t, "del", f)

PostReactor(t, f) == Owe(t, "add", f) /\ UNCHANGED kb

Change(t) ==
  \/ \E f \in Beliefs : AssertBelief(t, f) \/ RetractBelief(t, f)
  \/ \E f \in Reactors : PostReactor(t, f)

\* The history of an activation whose plans are being tested.
Selecting(frame) == frame.pc \in {"test", "eval"}

Notice(frame, beliefs) ==
  IF Selecting(frame)
  THEN [frame EXCEPT !.seen = @ \cup beliefs, !.steady = @ \cap beliefs]
  ELSE frame

ClientCall(t) ==
  /\ posts < MaxPosts
  /\ posts' = posts + 1
  /\ Change(t) \/ \E f \in Procedures : Owe(t, "call", f) /\ UNCHANGED kb
  /\ stack' = [d \in DOMAIN stack |-> Notice(stack[d], ToSet(kb'))]
  /\ UNCHANGED <<event_queue, heap, objects, planCtx, statements>>

Push(t) ==
  /\ pending[t] # NoEvent
  /\ event_queue' = Append(event_queue, pending[t])
  /\ pending' = [pending EXCEPT ![t] = NoEvent]
  /\ UNCHANGED <<kb, heap, objects, planCtx, stack, posts, statements>>

(***************************************************************************)
(* Engine::run                                                             *)
(***************************************************************************)
PopEvent ==
  /\ stack = <<>>
  /\ event_queue # <<>>
  /\ stack' = <<NewFrame(Head(event_queue))>>
  /\ event_queue' = Tail(event_queue)
  /\ UNCHANGED <<kb, pending, heap, objects, planCtx, posts, statements>>

\* Fault: the collector is not emptied.
KeepObjects ==
  /\ At("empty")
  /\ stack' = <<>>
  /\ UNCHANGED <<kb, event_queue, pending, heap, objects, planCtx, posts,
                 statements>>

\* delete evt and collector->empty(), once execute_event has returned.
EmptyCollector ==
  /\ At("empty")
  /\ Delete(objects)
  /\ stack' = <<>>
  /\ UNCHANGED <<kb, event_queue, pending, planCtx, posts, statements>>

engineVars == <<kb, event_queue, pending, posts, statements>>

(***************************************************************************)
(* execute_event, first loop: the plans                                    *)
(***************************************************************************)
plan == Plans[top.plan]

Triggered ==
  /\ plan.type = top.evt.type
  /\ Matches(plan.trigger, top.evt.bel, NoBinding)

\* unbind, then match_event binds the trigger to the new context; nothing unbinds
\* the formula itself.
Bind(p, c) == planCtx' = [planCtx EXCEPT ![p] = c]

NextPlan(frame) == [frame EXCEPT !.pc = "test", !.plan = @ + 1, !.c = NoContext]

TestPlan ==
  /\ At("test")
  /\ top.plan \in DOMAIN Plans
  /\ Bind(top.plan, Fresh(1)[1])
  /\ UNCHANGED engineVars

\* The new context is deleted at once.
NotTriggered ==
  /\ TestPlan
  /\ ~ Triggered
  /\ CanAllocate(1)
  /\ SetTop(NextPlan(top))
  /\ UNCHANGED <<heap, objects>>

TriggeredPlan ==
  /\ TestPlan
  /\ Triggered
  /\ Allocate(<<Extend(plan.trigger, top.evt.bel, NoBinding)>>)

Unconditional ==
  /\ TriggeredPlan
  /\ plan.cond = <<>>
  /\ SetTop([NextPlan(top) EXCEPT
       !.intentions = Append(@, [plan |-> top.plan, ctx |-> Fresh(1)[1]])])

Conditional ==
  /\ TriggeredPlan
  /\ plan.cond # <<>>
  /\ SetTop([top EXCEPT !.pc = "eval", !.c = Fresh(1)[1], !.elem = 1,
                        !.array = <<>>, !.next = <<>>, !.idx = 1])

(***************************************************************************)
(* Condition::eval.  It returns by going past the last element; when it    *)
(* returns false, context_array is empty.                                  *)
(***************************************************************************)
element == plan.cond[top.elem]

PastLast == Len(plan.cond) + 1

Evaluating == At("eval") /\ top.elem < PastLast

FirstPredicate ==
  /\ Evaluating
  /\ top.elem = 1
  /\ IsPredicate(element)
  /\ SetTop([top EXCEPT
       !.elem = IF Holds(element, heap[top.c]) THEN 2 ELSE PastLast])
  /\ UNCHANGED <<heap, objects, planCtx, engineVars>>

\* found is a bound variable, which TLC evaluates once, and not a LET.
FirstBelief ==
  /\ Evaluating
  /\ top.elem = 1
  /\ ~ IsPredicate(element)
  /\ \E found \in {GetMatching(kb, element, heap[top.c])} :
       /\ Allocate(found)
       /\ SetTop([top EXCEPT !.array = Fresh(Len(found)),
                             !.elem = IF found = <<>> THEN PastLast ELSE 2])
  /\ UNCHANGED <<planCtx, engineVars>>

\* The loop over context_array, at an element after the first.
AtContext == Evaluating /\ top.elem > 1 /\ top.idx \in DOMAIN top.array

context == top.array[top.idx]

\* context_array->erase(ctx_it) does not delete the context.
ContextMatches(contexts) ==
  SetTop([top EXCEPT !.array = RemoveAt(@, top.idx), !.next = @ \o contexts])

\* Fault: the iterator is not advanced.
ContextRetried == SetTop(top)

ContextFails == SetTop([top EXCEPT !.idx = @ + 1])

NextPredicate ==
  /\ AtContext
  /\ IsPredicate(element)
  /\ IF Holds(element, heap[context]) THEN ContextMatches(<<context>>)
                                      ELSE ContextFails
  /\ UNCHANGED <<heap, objects, planCtx, engineVars>>

\* Fault: the element is matched from the starting context, not from context.
NextBeliefFromStart ==
  /\ AtContext
  /\ ~ IsPredicate(element)
  /\ LET found == GetMatching(kb, element, heap[top.c]) IN
       /\ Allocate(found)
       /\ IF found # <<>> THEN ContextMatches(Fresh(Len(found)))
                          ELSE ContextFails
  /\ UNCHANGED <<planCtx, engineVars>>

NextBelief ==
  /\ AtContext
  /\ ~ IsPredicate(element)
  /\ \E found \in {GetMatching(kb, element, heap[context])} :
       /\ Allocate(found)
       /\ IF found # <<>> THEN ContextMatches(Fresh(Len(found)))
                          ELSE ContextFails
  /\ UNCHANGED <<planCtx, engineVars>>

\* After the loop: the contexts that did not match are deleted.
NextElement ==
  /\ Evaluating
  /\ top.elem > 1
  /\ top.idx \notin DOMAIN top.array
  /\ Delete(ToSet(top.array))
  /\ SetTop([top EXCEPT !.array = top.next, !.next = <<>>, !.idx = 1,
                        !.elem = IF top.next = <<>> THEN PastLast ELSE @ + 1])
  /\ UNCHANGED <<planCtx, engineVars>>

Evaluated == At("eval") /\ top.elem = PastLast

ConditionFalse ==
  /\ Evaluated
  /\ top.array = <<>>
  /\ Delete({top.c})
  /\ SetTop(NextPlan(top))
  /\ UNCHANGED <<planCtx, engineVars>>

\* The first context goes to the intention, the others are deleted, and the
\* starting context is left to the collector.
ConditionTrue ==
  /\ Evaluated
  /\ top.array # <<>>
  /\ Delete(ToSet(Tail(top.array)))
  /\ SetTop([NextPlan(top) EXCEPT
       !.array = <<>>,
       !.intentions = Append(@, [plan |-> top.plan, ctx |-> Head(top.array)])])
  /\ UNCHANGED <<planCtx, engineVars>>

(***************************************************************************)
(* execute_event, second loop: the intentions                              *)
(***************************************************************************)
AllTested ==
  /\ At("test")
  /\ top.plan \notin DOMAIN Plans
  /\ SetTop([top EXCEPT !.pc = "run", !.seen = {}, !.steady = {}])
  /\ UNCHANGED <<heap, objects, planCtx, engineVars>>

StartBody ==
  /\ At("run")
  /\ top.i \in DOMAIN top.intentions
  /\ LET intention == top.intentions[top.i] IN
       /\ objects' = objects \cup {intention.ctx}
       /\ Bind(intention.plan, intention.ctx)
  /\ SetTop([top EXCEPT !.pc = "body"])
  /\ UNCHANGED <<heap, engineVars>>

InBody == At("body") /\ pending[EngineThread] = NoEvent

Statement ==
  /\ InBody
  /\ statements < MaxStatements
  /\ statements' = statements + 1

\* Context::operator+ and operator-.
BodyChange ==
  /\ Statement
  /\ Change(EngineThread)
  /\ UNCHANGED <<event_queue, heap, objects, planCtx, stack, posts>>

\* Context::operator<< does not use the queue.
BodyCall ==
  /\ Statement
  /\ Depth < MaxDepth
  /\ \E f \in Procedures :
       stack' = Append(stack, NewFrame([type |-> "call", bel |-> f]))
  /\ UNCHANGED <<kb, event_queue, pending, heap, objects, planCtx, posts>>

\* Fault: the loop tries the same intention again.
BodyCutAgain ==
  /\ InBody
  /\ SetTop([top EXCEPT !.pc = "run"])
  /\ UNCHANGED <<heap, objects, planCtx, engineVars>>

\* The body throws CutPlanException: the next intention is tried.
BodyCut ==
  /\ InBody
  /\ SetTop([top EXCEPT !.pc = "run", !.i = @ + 1])
  /\ UNCHANGED <<heap, objects, planCtx, engineVars>>

BodyReturn ==
  /\ InBody
  /\ SetTop([top EXCEPT !.pc = "clean"])
  /\ UNCHANGED <<heap, objects, planCtx, engineVars>>

AllCut ==
  /\ At("run")
  /\ top.i \notin DOMAIN top.intentions
  /\ SetTop([top EXCEPT !.pc = "clean"])
  /\ UNCHANGED <<heap, objects, planCtx, engineVars>>

\* Fault: every activation empties the collector, not only the outermost.
CleanAll ==
  /\ At("clean")
  /\ Delete(objects)
  /\ IF Depth = 1
     THEN SetTop([top EXCEPT !.pc = "empty", !.intentions = <<>>])
     ELSE stack' = Front(stack)
  /\ UNCHANGED <<planCtx, engineVars>>

\* The last loop deletes the contexts of all intentions; then execute_event
\* returns to the body that called it, or to run.
Clean ==
  /\ At("clean")
  /\ Delete({x.ctx : x \in ToSet(top.intentions)})
  /\ IF Depth = 1
     THEN SetTop([top EXCEPT !.pc = "empty", !.intentions = <<>>])
     ELSE stack' = Front(stack)
  /\ UNCHANGED <<planCtx, engineVars>>

Select ==
  \/ NotTriggered \/ Unconditional \/ Conditional
  \/ FirstPredicate \/ FirstBelief
  \/ NextPredicate \/ NextBelief \/ NextElement
  \/ ConditionFalse \/ ConditionTrue
  \/ AllTested

Execute == StartBody \/ BodyCut \/ BodyReturn \/ AllCut \/ Clean \/ EmptyCollector

EngineStep == PopEvent \/ Select \/ Execute \/ Push(EngineThread)

ClientStep == \E t \in Clients : ClientCall(t) \/ Push(t)

Next == EngineStep \/ BodyChange \/ BodyCall \/ ClientStep

Spec == Init /\ [][Next]_vars

\* The operating system runs the engine's thread, and every body ends: the bound
\* on statements stands for that.
FairSpec == Spec /\ WF_vars(EngineStep)

-------------------------------------------------------------------------------
Frame ==
  [evt : Event, pc : {"test", "eval", "run", "body", "clean", "empty"},
   plan : 1 .. Len(Plans) + 1, c : ContextIds \cup {NoContext},
   elem : Nat, array : Seq(ContextIds), idx : Nat, next : Seq(ContextIds),
   intentions : Seq([plan : DOMAIN Plans, ctx : ContextIds]), i : Nat,
   seen : SUBSET Beliefs, steady : SUBSET Beliefs]

\* The types of the variables.
TypeOK ==
  /\ kb \in Seq(Beliefs)
  /\ event_queue \in Seq(Event)
  /\ pending \in [Threads -> Event \cup {NoEvent}]
  /\ DOMAIN heap \subseteq ContextIds
  /\ \A c \in DOMAIN heap : heap[c] \in Bindings
  /\ objects \subseteq ContextIds
  /\ planCtx \in [DOMAIN Plans -> ContextIds \cup {NoContext}]
  /\ stack \in Seq(Frame) /\ Depth <= MaxDepth
  /\ posts \in 0 .. MaxPosts
  /\ statements \in 0 .. MaxStatements

\* Every context that some activation will still read or delete is live, and one
\* place only will delete it: no context is used after its deletion or deleted
\* twice, whatever the nesting of calls (engine.cpp:215-295, condition.cpp:69-113).
ContextsOwned ==
  LET places == UNION {{<<d, place>> : place \in Places(stack[d])} :
                         d \in DOMAIN stack}
      Target(p)  == Pointer(stack[p[1]], p[2])
  IN  /\ \A p \in places : Target(p) \in DOMAIN heap
      /\ \A p, q \in places : Target(p) = Target(q) => p = q

\* The collector knows exactly the live contexts, so that empty() frees what the
\* code has lost and nothing that is already freed (context.cpp:14-31).
CollectorExact == objects = DOMAIN heap

\* Between two events no context is left: what execute_event and eval lose on
\* the way is freed when the event ends (engine.cpp:207).
NothingLeaks == stack = <<>> => DOMAIN heap = {}

(***************************************************************************)
(* The inductive invariant behind the four.                                *)
(***************************************************************************)
\* What the evaluation of a condition works with.
PlaceInv ==
  \A d \in DOMAIN stack :
    /\ stack[d].elem > 0
    /\ stack[d].pc = "eval" =>
         /\ stack[d].c # NoContext
         /\ stack[d].plan \in DOMAIN Plans
         /\ stack[d].elem <= Len(Plans[stack[d].plan].cond) + 1

IntentionContexts(frame) ==
  [n \in DOMAIN frame.intentions |-> frame.intentions[n].ctx]

\* The pointers of an activation, field by field.
Held(frame) ==
  ({frame.c} \ {NoContext}) \cup ToSet(frame.array) \cup ToSet(frame.next)
    \cup ToSet(IntentionContexts(frame))

\* No two places of an activation hold the same pointer.
HeldOnce(frame) ==
  /\ IsInjective(frame.array)
  /\ IsInjective(frame.next)
  /\ IsInjective(IntentionContexts(frame))
  /\ frame.c \notin ToSet(frame.array) \cup ToSet(frame.next)
                      \cup ToSet(IntentionContexts(frame))
  /\ ToSet(frame.array) \cap ToSet(frame.next) = {}
  /\ ToSet(frame.array) \cap ToSet(IntentionContexts(frame)) = {}
  /\ ToSet(frame.next) \cap ToSet(IntentionContexts(frame)) = {}

OwnInv ==
  /\ \A d \in DOMAIN stack : HeldOnce(stack[d]) /\ Held(stack[d]) \subseteq DOMAIN heap
  /\ \A d, e \in DOMAIN stack : d # e => Held(stack[d]) \cap Held(stack[e]) = {}

CycleInv ==
  /\ TypeOK
  /\ PlaceInv
  /\ OwnInv
  /\ CollectorExact
  /\ NothingLeaks

(***************************************************************************)
(* The activations as the activities of Engine, with the bindings that the *)
(* contexts of the intentions have now.  A context that was deleted has    *)
(* none, and such an intention is none that Engine knows.                  *)
(***************************************************************************)
Chosen(frame) ==
  [m \in DOMAIN frame.intentions |->
     LET x == frame.intentions[m] IN
       [plan |-> x.plan,
        binding |-> IF x.ctx \in DOMAIN heap THEN heap[x.ctx] ELSE "deleted"]]

Activity(frame) ==
  LET phase == CASE frame.pc \in {"test", "eval"}   -> "choose"
                 [] frame.pc \in {"clean", "empty"} -> "done"
                 [] OTHER                           -> frame.pc
  IN  [evt |-> frame.evt, phase |-> phase, seen |-> frame.seen,
       steady |-> frame.steady, i |-> frame.i,
       chosen |-> IF phase \in {"run", "body"} THEN Chosen(frame) ELSE <<>>]

Promise == INSTANCE Engine WITH
             activity <- [d \in DOMAIN stack |-> Activity(stack[d])]

\* The engine does what Engine promises: events in the order of the queue, the
\* bodies of the applicable plans in the order of the plans until one is not cut,
\* each with the bindings it was chosen with, although other activations allocate
\* and delete contexts meanwhile (engine.cpp:192-295, context.cpp:52-60).
ImplementsEngine == Promise!Spec

\* Once the plans are tested, the intentions are, in the order of the plans, sound
\* and complete even if other threads have changed the knowledge base between the
\* tests: each has a solution of its condition in beliefs that were there at some
\* moment, and every plan with a solution in beliefs that were there all the time
\* is among them (engine.cpp:219-264, condition.cpp:37-120).
SelectionCorrect ==
  At("test") /\ top.plan \notin DOMAIN Plans =>
    Promise!Choice(Activity(top), Chosen(top))

(***************************************************************************)
(* The inductive invariant behind the two, for plans whose conditions test *)
(* a term only when it is bound.                                           *)
(***************************************************************************)
\* The predicates of a condition that starts with a belief have their two arguments,
\* and come after the beliefs that bind these.
OrderedPlans ==
  \A p \in DOMAIN Plans :
    LET cond == Plans[p].cond IN
      cond # <<>> /\ ~ IsPredicate(Head(cond)) =>
        /\ WellOrdered(cond, VarsOf(Plans[p].trigger))
        /\ \A i \in DOMAIN cond : IsPredicate(cond[i]) => Len(cond[i].terms) >= 2

\* Every activation but the innermost is in a body.
CallersInv ==
  /\ \A d \in DOMAIN stack : d < Depth => stack[d].pc = "body"
  /\ At("empty") => Depth = 1

\* The intentions for the plans before f.plan: sound and complete as far as they go.
IntentionsInv(f) ==
  /\ f.steady \subseteq ToSet(kb) /\ ToSet(kb) \subseteq f.seen
  /\ \A m \in DOMAIN f.intentions :
       /\ f.intentions[m].plan < f.plan
       /\ \A n \in DOMAIN f.intentions :
            m < n => f.intentions[m].plan < f.intentions[n].plan
       /\ heap[f.intentions[m].ctx] \in
            Candidates(Plans[f.intentions[m].plan], f.evt, f.seen)
  /\ \A p \in 1 .. f.plan - 1 :
       Candidates(Plans[p], f.evt, f.steady) # {} =>
         \E m \in DOMAIN f.intentions : f.intentions[m].plan = p

\* b solves the first n elements of the condition under test, in beliefs that have
\* been there.
SolvesPrefix(f, b, n) ==
  b \in Solutions(f.seen, SubSeq(Plans[f.plan].cond, 1, n), StartOf(Plans[f.plan], f.evt))

Agrees(b, s) == \A v \in DOMAIN b : b[v] = s[v]

\* The solutions that the evaluation must not miss.
Sought(f) == Solutions(f.steady, Plans[f.plan].cond, StartOf(Plans[f.plan], f.evt))

\* Some context still leads to the solution s: one of context_array that the loop has
\* not passed, or one of next_context_array.
Reachable(f, s) ==
  \/ \E k \in DOMAIN f.array : k >= f.idx /\ Agrees(heap[f.array[k]], s)
  \/ \E k \in DOMAIN f.next : Agrees(heap[f.next[k]], s)

\* The rounds of Condition::eval, one for each element.
RoundInv(f) ==
  /\ \A k \in DOMAIN f.array : SolvesPrefix(f, heap[f.array[k]], f.elem - 1)
  /\ \A k \in DOMAIN f.next : SolvesPrefix(f, heap[f.next[k]], f.elem)
  /\ f.elem > 1 => \A s \in Sought(f) : Reachable(f, s)

EvaluationInv(f) ==
  LET cond == Plans[f.plan].cond IN
    /\ Triggers(Plans[f.plan], f.evt) /\ cond # <<>>
    /\ heap[f.c] = StartOf(Plans[f.plan], f.evt)
    /\ f.idx > 0 /\ (f.elem = 1 => f.idx = 1)
    /\ f.elem = 1 \/ IsPredicate(Head(cond)) => f.array = <<>>
    /\ f.elem \in {1, Len(cond) + 1} \/ IsPredicate(Head(cond)) => f.next = <<>>
    /\ ~ IsPredicate(Head(cond)) => RoundInv(f)

SelectionInv ==
  /\ CallersInv
  /\ stack # <<>> /\ Selecting(top) => IntentionsInv(top)
  /\ At("eval") => EvaluationInv(top)

\* show_plans prints the trigger of every plan with the variables of the context
\* it was last bound to (democle_types.cpp:37-51).  The main thread calls it after
\* start (tests/test_timer.cpp:46-47), so at any moment that context, if the
\* trigger has variables, should be live.
ShowPlansReadsLiveContexts ==
  \A p \in DOMAIN Plans :
    VarsOf(Plans[p].trigger) # {} => planCtx[p] \in DOMAIN heap \cup {NoContext}

\* Every event is dealt with in the end: whatever the conditions and the other
\* threads, the engine returns to its queue.
EngineReturns == []<>(stack = <<>>)
===============================================================================
