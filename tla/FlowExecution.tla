--------------------------- MODULE FlowExecution ---------------------------
(***************************************************************************)
(* Running flows (kernel_flow_execution.py): the HTTP server starts a      *)
(* flow with a timeout (api/flow_handlers.py), its steps run one after the *)
(* other, plain handlers on the kernel's pool of threads, and a handler    *)
(* such as kernel:flow.execute_by_id runs another flow while it holds its  *)
(* thread.  A chain is one request with the flows it nests.                *)
(***************************************************************************)
EXTENDS Integers, FiniteSets, Sequences

CONSTANTS
    Flows,         \* flow ids
    Steps,         \* [Flows -> Seq of steps], see Step
    Chains,        \* bound: requests whose flows run at one time
    MaxConcurrent, \* RUMI_MAX_CONCURRENT_FLOWS
    Workers,       \* max_workers of the kernel's _executor
    MaxDepth       \* MAX_FLOW_CHAIN_DEPTH

VARIABLES
    frames,        \* [Chains -> Seq(Frame)], the flows a request is running
    stack,         \* [Chains -> Seq(Flows)], the list at ctx["_flow_call_stack"]
    answered,      \* chains whose request was answered (408) while they run on
    raised         \* history: [Chains -> steps of the outer flow that raised]

flowVars == <<frames, stack, answered, raised>>

\* A step: what it runs, and the steps it depends_on (by index).
\*   handler: a plain function;  async: a coroutine, or a construct of a pack
\*   absent: a handler nobody registered
\*   call: kernel:flow.execute_by_id of flow;  flow: the step type "flow"
\*   function: a function call through the capability executor
AllKinds == {"handler", "async", "absent", "call", "flow", "function"}
Step == [kind: AllKinds, flow: Flows, deps: SUBSET Nat]

\* The limit lets a flow run at all, and each flow has a list of steps.
FlowConstants == MaxDepth \in Nat \ {0} /\ Steps \in [Flows -> Seq(Step)]

\* at: index of the step; done: steps executed without an exception; on: where
\* the frame is: between steps, with a step in the queue of the pool, or with
\* a worker that runs a handler or the frame that follows.
Frame == [flow: Flows, at: Nat, done: SUBSET Nat, on: {"loop", "queue", "worker", "nested"}]

FlowTypeOK ==
    /\ frames \in [Chains -> Seq(Frame)]
    /\ stack \in [Chains -> Seq(Flows)]
    /\ answered \subseteq Chains
    /\ raised \in [Chains -> SUBSET Nat]

FlowInit ==
    /\ frames = [c \in Chains |-> << >>]
    /\ stack = [c \in Chains |-> << >>]
    /\ answered = {}
    /\ raised = [c \in Chains |-> {}]

\* Threads of the pool that run something.
Busy == {b \in UNION {{c} \X DOMAIN frames[c] : c \in Chains} : frames[b[1]][b[2]].on \in {"worker", "nested"}}

Top(c) == Len(frames[c])
Frm(c) == frames[c][Top(c)]
StepOf(f) == Steps[f.flow][f.at]

\* The chain's topmost flow stands before a step.
AtStep(c, kinds) ==
    /\ frames[c] # << >>
    /\ Frm(c).on = "loop"
    /\ Frm(c).at \in DOMAIN Steps[Frm(c).flow]
    /\ StepOf(Frm(c)).kind \in kinds
    /\ ~(Top(c) = 1 /\ c \in answered)

DepsMet(c) == StepOf(Frm(c)).deps \subseteq Frm(c).done

\* Mutant: the chain is one deeper.
RefusedLate(c, f) == Len(stack[c]) > MaxDepth \/ \E i \in DOMAIN stack[c] : stack[c][i] = f

\* _execute_flow_internal starts a flow unless the chain is too deep or in it.
Refused(c, f) == Len(stack[c]) >= MaxDepth \/ \E i \in DOMAIN stack[c] : stack[c][i] = f

NewFrame(f) == [flow |-> f, at |-> 1, done |-> {}, on |-> "loop"]

Enter(c, f) ==
    /\ frames' = [frames EXCEPT ![c] = Append(@, NewFrame(f))]
    /\ stack' = [stack EXCEPT ![c] = Append(@, f)]

\* The step counts as executed, or is left behind.
Advance(fr, executed) == [fr EXCEPT !.at = @ + 1, !.on = "loop", !.done = IF executed THEN @ \cup {fr.at} ELSE @]

Leave(c, executed) ==
    /\ frames' = [frames EXCEPT ![c][Top(c)] = Advance(@, executed)]
    /\ UNCHANGED <<stack, answered>>

\* The step raised: the flow goes on, whatever the error handler says but "abort"
\* ("retry" goes on as well), and the step does not count as executed.
Raise(c) ==
    /\ Leave(c, FALSE)
    /\ raised' = IF Top(c) = 1 THEN [raised EXCEPT ![c] = @ \cup {Frm(c).at}] ELSE raised

\* POST /api/flows/{id}/run: 404 and 429 leave nothing behind; the semaphore
\* counts the requests that wait for an answer.
RunFlow(c, f) ==
    /\ frames[c] = << >>
    /\ Cardinality({d \in Chains : frames[d] # << >>} \ answered) < MaxConcurrent
    /\ Enter(c, f)
    /\ raised' = [raised EXCEPT ![c] = {}]
    /\ UNCHANGED answered

\* A "when" that is false or a before_step hook that says _skip; a dependency
\* that was not executed (fail_soft is on unless the caller put _flow_defaults).
SkipStep(c) ==
    /\ AtStep(c, AllKinds)
    /\ Leave(c, FALSE)
    /\ UNCHANGED raised

\* A handler found neither in _kernel_handlers nor in the interface registry is
\* passed over, and counts as executed.
MissingHandler(c) ==
    /\ AtStep(c, {"absent"})
    /\ DepsMet(c)
    /\ Leave(c, TRUE)
    /\ UNCHANGED raised

\* A function step without a principal or an executor stores an error and counts
\* as executed.
FunctionRefused(c) ==
    /\ AtStep(c, {"function"})
    /\ DepsMet(c)
    /\ Leave(c, TRUE)
    /\ UNCHANGED raised

\* A coroutine or a construct runs on the loop; it may raise.
AsyncStep(c, raises) ==
    /\ AtStep(c, {"async"})
    /\ DepsMet(c)
    /\ IF raises THEN Raise(c) ELSE Leave(c, TRUE) /\ UNCHANGED raised

\* A step of type "flow": refused, it stores an error and counts as executed;
\* otherwise the deep copy of a context that holds the kernel's services, and
\* so their locks, raises TypeError.
SubFlowStep(c) ==
    /\ AtStep(c, {"flow"})
    /\ DepsMet(c)
    /\ IF Refused(c, StepOf(Frm(c)).flow) THEN Leave(c, TRUE) /\ UNCHANGED raised ELSE Raise(c)

\* run_in_executor: the step waits for a thread.
SubmitStep(c) ==
    /\ AtStep(c, {"handler", "call", "function"})
    /\ DepsMet(c)
    /\ frames' = [frames EXCEPT ![c][Top(c)].on = "queue"]
    /\ UNCHANGED <<stack, answered, raised>>

\* A free thread takes it.  A nested flow that is refused returns an error dict.
TakeStep(c) ==
    /\ frames[c] # << >>
    /\ Frm(c).on = "queue"
    /\ Cardinality(Busy) < Workers
    /\ LET g == StepOf(Frm(c)).flow IN
       IF StepOf(Frm(c)).kind = "call" /\ ~Refused(c, g)
       THEN /\ frames' = [frames EXCEPT ![c] = Append([@ EXCEPT ![Top(c)].on = "nested"], NewFrame(g))]
            /\ stack' = [stack EXCEPT ![c] = Append(@, g)]
       ELSE /\ frames' = [frames EXCEPT ![c][Top(c)].on = "worker"]
            /\ UNCHANGED stack
    /\ UNCHANGED <<answered, raised>>

\* Mutant: a flow that was answered goes on when its thread returns.
UnwoundToAnswered(c, i) ==
    IF i = 1 THEN << >> ELSE [SubSeq(frames[c], 1, i - 1) EXCEPT ![i - 1] = Advance(@, TRUE)]

\* What is left of a chain when frame i is over: its answer goes to the frame
\* below, whose handler returns; a flow answered before ends with its thread.
Unwound(c, i) ==
    IF i = 1 \/ (i = 2 /\ c \in answered)
    THEN << >>
    ELSE [SubSeq(frames[c], 1, i - 1) EXCEPT ![i - 1] = Advance(@, TRUE)]

PopStack(c) == stack' = [stack EXCEPT ![c] = SubSeq(@, 1, Len(@) - 1)]

\* The topmost flow returns: after its last step, or because a step, a hook or
\* the error handler said abort.
EndFrame(c) ==
    /\ frames' = [frames EXCEPT ![c] = Unwound(c, Top(c))]
    /\ PopStack(c)
    /\ answered' = IF Unwound(c, Top(c)) = << >> THEN answered \ {c} ELSE answered
    /\ UNCHANGED raised

ReturnFlow(c) ==
    /\ frames[c] # << >>
    /\ Frm(c).on = "loop"
    /\ Frm(c).at \notin DOMAIN Steps[Frm(c).flow]
    /\ EndFrame(c)

\* A before_step hook says _abort, or an async handler asks for one.
AbortFlow(c) ==
    /\ AtStep(c, AllKinds)
    /\ EndFrame(c)

\* The thread is done with a handler: it returned, raised, or the flow stops.
\* If the flow was answered meanwhile nothing is left.
FinishHandler(c) ==
    /\ frames[c] # << >>
    /\ Frm(c).on = "worker"
    /\ IF Top(c) = 1 /\ c \in answered
       THEN /\ frames' = [frames EXCEPT ![c] = << >>]
            /\ answered' = answered \ {c}
            /\ UNCHANGED <<stack, raised>>
       ELSE \/ Leave(c, TRUE) /\ UNCHANGED raised
            \/ Raise(c)
            \/ EndFrame(c)

\* wait_for gives up on the outer flow: its finally pops the shared list, a
\* step in the queue is cancelled, one on a thread goes on.
Timeout(c) ==
    /\ frames[c] # << >>
    /\ c \notin answered
    /\ PopStack(c)
    /\ IF frames[c][1].on \in {"worker", "nested"}
       THEN answered' = answered \cup {c} /\ UNCHANGED frames
       ELSE frames' = [frames EXCEPT ![c] = << >>] /\ UNCHANGED answered
    /\ UNCHANGED raised

FlowNext ==
    \E c \in Chains :
        \/ \E f \in Flows : RunFlow(c, f)
        \/ SkipStep(c)
        \/ MissingHandler(c)
        \/ FunctionRefused(c)
        \/ \E raises \in BOOLEAN : AsyncStep(c, raises)
        \/ SubFlowStep(c)
        \/ SubmitStep(c)
        \/ TakeStep(c)
        \/ ReturnFlow(c)
        \/ AbortFlow(c)
        \/ FinishHandler(c)
        \/ Timeout(c)

FlowSpec == FlowInit /\ [][FlowNext]_flowVars

\* The loop and the threads go on, a handler ends, and the queue of the pool is
\* first in, first out, so that a step is not passed over for ever.
FlowFairness == \A c \in Chains :
    /\ WF_flowVars(SkipStep(c) \/ ReturnFlow(c) \/ FinishHandler(c))
    /\ SF_flowVars(TakeStep(c))

(***************************************************************************)
(* Properties.                                                             *)
(***************************************************************************)
\* A chain never runs a flow inside itself and is never deeper than the limit.
\* Only the frames below one that was answered escape the check, and then the
\* list of the chain has lost the name of its deepest flow.
ChainsAreSimple == \A c \in Chains :
    /\ Len(frames[c]) <= MaxDepth + 1
    /\ c \notin answered =>
          /\ Len(frames[c]) <= MaxDepth
          /\ \A i, j \in DOMAIN frames[c] : frames[c][i].flow = frames[c][j].flow => i = j

\* Every thread of the pool waits for a flow that waits for a thread.
PoolStuck ==
    /\ Cardinality(Busy) >= Workers
    /\ \A c \in Chains : frames[c] # << >> => Frm(c).on = "queue"

\* The request of a chain comes to an end, with all it nested, unless flows wait
\* on each other for the threads of the pool.
FlowsEnd(c) == frames[c] # << >> ~> (frames[c] = << >> \/ PoolStuck)

\* "A step of type flow calls another flow" (docs/pack-development.md:409), and
\* reports an error as its result: it does not fail of itself.
SubFlowsRun == \A c \in Chains : frames[c] # << >> =>
    \A i \in raised[c] : Steps[frames[c][1].flow][i].kind # "flow"

(***************************************************************************)
(* The pipelines of the kernel's own flow, "startup" and others, a         *)
(* specification of its own: steps one after the other on the thread that  *)
(* starts them (run_startup, run_pipeline), with the flow's defaults.      *)
(***************************************************************************)
CONSTANTS
    Pipelines      \* sequences of [kind, deps, onError, optional]

VARIABLES
    pipe,          \* [steps, soft, missing, at, executed, state]
    tried          \* history: [at, result] of the steps tried, in order

pipeVars == <<pipe, tried>>

\* A step of a pipeline, and what its on_error says; any action but "abort" goes on.
PipelineStep == [kind : {"handler", "function", "absent"}, deps : SUBSET Nat,
                 onError : {"none", "abort", "continue"}, optional : BOOLEAN]
PipelineConstants == \A steps \in Pipelines : steps \in Seq(PipelineStep)

PipeTypeOK ==
    /\ pipe \in [steps : Pipelines \cup {<<>>}, soft : BOOLEAN, missing : {"skip", "error"}, at : Nat,
                executed : SUBSET Nat, state : {"ready", "running", "aborted", "ended"}]
    /\ pipe.at \in 1..(Len(pipe.steps) + 1) /\ pipe.executed \subseteq 1..(pipe.at - 1)
    /\ \A i \in DOMAIN tried : tried[i].at \in DOMAIN pipe.steps

PipeInit ==
    /\ pipe = [steps |-> <<>>, soft |-> TRUE, missing |-> "skip", at |-> 1, executed |-> {}, state |-> "ready"]
    /\ tried = <<>>

\* The defaults are those of the flow: fail_soft and on_missing_handler.
RunPipeline(steps, soft, missing) ==
    /\ pipe.state # "running"
    /\ pipe' = [steps |-> steps, soft |-> soft, missing |-> missing, at |-> 1, executed |-> {}, state |-> "running"]
    /\ tried' = <<>>

PipeStep == pipe.steps[pipe.at]
AtPipeStep == pipe.state = "running" /\ pipe.at \in DOMAIN pipe.steps

\* A dependency that was not executed: the step is passed over, or all is over.
PipeDependsOn ==
    /\ AtPipeStep /\ ~(PipeStep.deps \subseteq pipe.executed)
    /\ pipe' = IF pipe.soft THEN [pipe EXCEPT !.at = @ + 1] ELSE [pipe EXCEPT !.state = "aborted"]
    /\ UNCHANGED tried

\* What on_error says of an exception, with fail_soft for its default.
Aborts(s) == s.onError = "abort" \/ (s.onError = "none" /\ ~pipe.soft)

\* The ways a step of each kind may end, and whether it stops the pipeline.  An
\* answer that says failure is an answer.
FunctionEnds(s) == {<<"answered", FALSE>>, <<"raised", Aborts(s)>>, <<"refused", ~pipe.soft>>}
HandlerEnds(s) == {<<"answered", FALSE>>, <<"raised", Aborts(s)>>}
MissingEnds(s) == {<<"missing", pipe.missing = "error" /\ ~s.optional>>}
Ends(s) == CASE s.kind = "function" -> FunctionEnds(s)
             [] s.kind = "handler" -> HandlerEnds(s)
             [] s.kind = "absent" -> MissingEnds(s)

\* A step that does not stop the pipeline counts as executed, also one that raised.
ExecuteFlowStep ==
    /\ AtPipeStep /\ PipeStep.deps \subseteq pipe.executed
    /\ \E e \in Ends(PipeStep) :
          /\ tried' = Append(tried, [at |-> pipe.at, result |-> e[1]])
          /\ pipe' = IF e[2] THEN [pipe EXCEPT !.state = "aborted"]
                     ELSE [pipe EXCEPT !.at = @ + 1, !.executed = @ \cup {pipe.at}]

\* An exception outside the handler's own, such as in resolving its arguments.
InternalError ==
    /\ AtPipeStep /\ PipeStep.kind = "function" /\ PipeStep.deps \subseteq pipe.executed
    /\ tried' = Append(tried, [at |-> pipe.at, result |-> "internal"])
    /\ pipe' = IF pipe.soft THEN [pipe EXCEPT !.at = @ + 1] ELSE [pipe EXCEPT !.state = "ended"]

EndPipeline ==
    /\ pipe.state = "running" /\ pipe.at \notin DOMAIN pipe.steps
    /\ pipe' = [pipe EXCEPT !.state = "ended"]
    /\ UNCHANGED tried

PipeNext ==
    \/ \E steps \in Pipelines, soft \in BOOLEAN, missing \in {"skip", "error"} : RunPipeline(steps, soft, missing)
    \/ PipeDependsOn \/ ExecuteFlowStep \/ InternalError \/ EndPipeline

PipeSpec == PipeInit /\ [][PipeNext]_pipeVars

WasTried(n) == \E i \in DOMAIN tried : tried[i].at = n
MayBeMissing(s) == s.optional \/ pipe.missing = "skip"

\* A step that did not go wrong, or wrong in a way that the step or the flow allows.
Allowed(i) == LET s == pipe.steps[tried[i].at] IN
    \/ tried[i].result = "answered"
    \/ tried[i].result = "raised" /\ s.onError = "continue"
    \/ tried[i].result = "missing" /\ MayBeMissing(s)

\* No step asks for an end, and none has to have a handler that is not there.
NothingAborts == \A n \in DOMAIN pipe.steps : LET s == pipe.steps[n] IN
    s.onError # "abort" /\ (s.kind = "absent" => MayBeMissing(s))

\* Steps are tried in their order, each after all it depends on.  Where the flow
\* does not fail softly none is left out and nothing is tried after a step that
\* went wrong, unless the step itself says so; where it does, and nothing asks
\* for an end, every step is tried whose dependencies were, but for those of a
\* step that broke internally.
PipelinesOrdered ==
    /\ \A i, j \in DOMAIN tried : i < j => tried[i].at < tried[j].at
    /\ \A i \in DOMAIN tried : \A d \in pipe.steps[tried[i].at].deps : WasTried(d) /\ d < tried[i].at
    /\ ~pipe.soft => \A i \in DOMAIN tried : tried[i].at = i /\ (i < Len(tried) => Allowed(i))
    /\ pipe.soft /\ pipe.state \in {"aborted", "ended"} /\ NothingAborts => \A n \in DOMAIN pipe.steps :
         \/ WasTried(n)
         \/ \E d \in pipe.steps[n].deps : \/ ~WasTried(d) \/ d >= n
                                         \/ \E i \in DOMAIN tried : tried[i] = [at |-> d, result |-> "internal"]
=============================================================================
