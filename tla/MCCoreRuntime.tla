--------------------------- MODULE MCCoreRuntime ---------------------------
(***************************************************************************)
(* The launcher's supervisor and the parts of core_runtime that load packs *)
(* and run their flows, for TLC: an instance of each component.  They keep *)
(* their state apart and are not composed here: the run chooses one of     *)
(* them, its focus, and lets that one take its steps from each of its      *)
(* initial states.                                                         *)
(***************************************************************************)
EXTENDS CodeExecution, FlowExecution, CapabilityExecution, KernelSupervisor, FlowLoading, FlowModifiers,
        PackImport, FunctionRegistry, EcosystemRegistry, AddonPatches, TLC

VARIABLE focus                           \* the component that runs

(***************************************************************************)
(* The instances.                                                          *)
(***************************************************************************)
\* A principal and one below it; a permission that has to be granted.
MCPrincipals == {<<"a">>, <<"a", "b">>}
MCFileOf == (<<"a">> :> <<"a">>) @@ (<<"a", "b">> :> <<"a__b">>)
MCConvention == "x" :> "python_docker"

\* A flow that calls one that calls one that calls itself, deeper than the
\* limit; a handler nobody registered.  The kernel's four threads, which are one
\* too few for what may wait: an answered chain gets one deeper than the limit.
FlowStep(k, f, d) == [kind |-> k, flow |-> f, deps |-> d]
KernelStep(k, d, e, o) == [kind |-> k, deps |-> d, onError |-> e, optional |-> o]
MCSteps == ("A" :> <<FlowStep("call", "B", {}), FlowStep("async", "A", {1})>>)
        @@ ("B" :> <<FlowStep("flow", "A", {}), FlowStep("call", "C", {}), FlowStep("function", "A", {2})>>)
        @@ ("C" :> <<FlowStep("absent", "C", {}), FlowStep("call", "C", {1})>>)
MCPipelines == {<<KernelStep(k, {}, e, o), KernelStep("function", d, "none", FALSE),
                  KernelStep("handler", m, l, FALSE)>> :
                  k \in {"handler", "absent"}, e \in {"none", "continue"}, l \in {"none", "abort"}, o \in BOOLEAN, d \in {{1}, {3}}, m \in {{}, {2}}}

\* Flows from each source that share their ids, and modifiers; steps of three
\* phases, one listed twice and one that the flow does not have, that need each other.
FileFrom(k, i, f, p) == [kind |-> k, id |-> i, from |-> f, pack |-> p]
MCFiles == <<FileFrom("flow", "A", "official", "none"), FileFrom("flow", "B", "shared", "none"),
             FileFrom("flow", "A", "pack", "p"), FileFrom("flow", "C", "local_pack", "none"),
             FileFrom("modifier", "*", "pack", "p")>>
MCPhases == <<"init", "main", "init">>
MCParsed == [phase: {"init"}, priority: {1, 2}, needs: {{}, {1}, {2}, {1, 2}}]
       \cup [phase: {"main", "gone"}, priority: {1}, needs: {{}, {2}}]

\* Targets that are there, that are not, and the first and the last step.
MCBaseSteps == <<[id |-> 11, phase |-> 1], [id |-> 12, phase |-> 2]>>
MCOfferedMods == {o \in [action: {"inject_before", "inject_after", "append", "replace", "remove"},
                         target: {0, 11, 12, 98, 99}, phase: {1, 2, 3}, priority: {1}, allowed: BOOLEAN] :
                    /\ o.allowed \/ (o.phase = 1 /\ o.target \in {0, 11})
                    /\ o.phase = 3 => o.target \in {0, 12}
                    /\ o.action = "append" => o.target = 0}
MCRequires == <<{}, {1}>>
MCPipeline == <<1, 2, 3>>

Bundle(p, i) == [pack |-> p, identity |-> i]
MCBundles == {<<Bundle("p", "a"), Bundle("q", "a")>>, <<Bundle("p", "b")>>}

\* Two vocabularies that share a term.
Manifest(n, p, t, a, r) == [name |-> n, pack |-> p, tags |-> t, aliases |-> a, permission |-> r]
MCPackVocab == ("p" :> <<<<1, 2>>, <<3, 4>>>>) @@ ("q" :> <<<<4, 2>>>>)
MCManifests == {Manifest("p:f", "p", {2}, {"x"}, "r"), Manifest("q:f", "q", {1, 4}, {"x", "core.y"}, "r")}

\* Two directories that hold the same pack.
Directory(p, c, r, f) == [pack |-> p, components |-> c, routes |-> r, functions |-> f]
MCDirs == <<Directory("p", {1, 2}, TRUE, {"f"}), Directory("q", {3}, FALSE, {}), Directory("p", {1}, TRUE, {"f", "g"})>>
MCTypeOf == <<"a", "a", "b">>
MCNeeds == (SUBSET {1, 2, 3}) \cup {{4}}

\* A component and two addons: one adds a list and to that list, the other has
\* an operation for each rule, some of them refused.
MCCandidates == <<"x", "y">>
Value(n) == [kind |-> "leaf", of |-> <<n>>]
PatchOp(op, key, place, value) == [op |-> op, key |-> key, at |-> place, value |-> value]
EmptyList == [kind |-> "list", of |-> <<>>]
MCBaseManifest == [k \in {"j", "k", "m", "n"} |-> IF k = "j" THEN Value(1) ELSE [kind |-> "absent", of |-> <<>>]]
MCAddons == <<[id |-> "a", ops |-> <<PatchOp("add", "k", Whole, EmptyList), PatchOp("add", "k", Dash, Value(1))>>],
              [id |-> "b", ops |-> <<PatchOp("remove", "j", Whole, Value(0)), PatchOp("replace", "k", 0, Value(2)),
                                     PatchOp("test", "k", 1, Value(1)), PatchOp("test", "k", 2, Value(1)),
                                     PatchOp("add", "m", Dash, Value(3)), PatchOp("remove", "k", 0, Value(0)),
                                     PatchOp("add", "n", Whole, Value(1))>>]>>

\* The proofs about these components start from what is assumed here.
ASSUME Instances ==
    /\ CapabilityConstants /\ FlowConstants /\ PipelineConstants
    /\ LoadConstants /\ SortConstants /\ ModConstants /\ ComposerConstants
    /\ ImpConstants /\ VocabConstants /\ FunctionConstants /\ RegistryConstants
    /\ OrderConstants /\ AddonConstants

(***************************************************************************)
(* The run.                                                                *)
(***************************************************************************)
runVars == <<flowVars, pipeVars, execVars, capVars, supervisorVars>>
buildVars == <<loadVars, sortVars, modVars, composerVars>>
packVars == <<impVars, vocabVars, functionVars, registryVars, orderVars, addonVars>>

\* Where a component has several initial states, it has one of them only while
\* another one is in focus.
Init ==
    /\ focus \in {"flow", "pipelines", "code", "capability", "kernel", "loading", "sorting", "modifiers",
                  "composer", "import", "functions", "packs", "order", "addons"}
    /\ FlowInit /\ PipeInit /\ CapInit /\ SupervisorInit
    /\ ExecInit /\ (focus # "code" => ~docker /\ ~dockerOnce)
    /\ LoadInit /\ (focus # "loading" => verdict = [p \in LoadPacks |-> "ok"])
    /\ (IF focus = "sorting" THEN TRUE ELSE flow = CHOOSE f \in ParsedFlows : TRUE) /\ SortInit
    /\ (IF focus = "modifiers" THEN TRUE ELSE mods = CHOOSE f \in [Modifiers -> Accepted] : TRUE) /\ ModInit
    /\ ComposerInit /\ ImpInit /\ VocabInit /\ FunctionInit /\ RegistryInit /\ AddonInit
    /\ (IF focus = "order" THEN TRUE ELSE deps = CHOOSE f \in Dependencies : TRUE) /\ OrderInit

InRuns(rest) == UNCHANGED <<focus, buildVars, packVars, rest>>
InBuilds(rest) == UNCHANGED <<focus, runVars, packVars, rest>>
InPacks(rest) == UNCHANGED <<focus, runVars, buildVars, rest>>

Next ==
    \/ focus = "flow" /\ FlowNext /\ InRuns(<<pipeVars, execVars, capVars, supervisorVars>>)
    \/ focus = "pipelines" /\ PipeNext /\ InRuns(<<flowVars, execVars, capVars, supervisorVars>>)
    \/ focus = "code" /\ ExecNext /\ InRuns(<<flowVars, pipeVars, capVars, supervisorVars>>)
    \/ focus = "capability" /\ CapNext /\ InRuns(<<flowVars, pipeVars, execVars, supervisorVars>>)
    \/ focus = "kernel" /\ SupervisorNext /\ InRuns(<<flowVars, pipeVars, execVars, capVars>>)
    \/ focus = "loading" /\ LoadNext /\ InBuilds(<<sortVars, modVars, composerVars>>)
    \/ focus = "sorting" /\ SortNext /\ InBuilds(<<loadVars, modVars, composerVars>>)
    \/ focus = "modifiers" /\ ModNext /\ InBuilds(<<loadVars, sortVars, composerVars>>)
    \/ focus = "composer" /\ ComposerNext /\ InBuilds(<<loadVars, sortVars, modVars>>)
    \/ focus = "import" /\ ImpNext /\ InPacks(<<vocabVars, functionVars, registryVars, orderVars, addonVars>>)
    \/ focus = "functions" /\ FunctionNext /\ InPacks(<<impVars, registryVars, orderVars, addonVars>>)
    \/ focus = "packs" /\ RegistryNext /\ InPacks(<<impVars, vocabVars, functionVars, orderVars, addonVars>>)
    \/ focus = "order" /\ OrderNext /\ InPacks(<<impVars, vocabVars, functionVars, registryVars, addonVars>>)
    \/ focus = "addons" /\ AddonNext /\ InPacks(<<impVars, vocabVars, functionVars, registryVars, orderVars>>)

vars == <<focus, runVars, buildVars, packVars>>

\* The launcher's loop comes round while it is in focus; no flow and no call is
\* under way while theirs are not.
Fairness == FlowFairness /\ ExecFairness /\ WF_supervisorVars(focus = "kernel" /\ Launcher)
Spec == Init /\ [][Next]_vars /\ Fairness

(***************************************************************************)
(* Properties, by the theme they are about; each component's module states *)
(* its own and says what code it is about.                                 *)
(***************************************************************************)
\* The state of each component has the shape its module declares.
CoreTypeOK ==
    /\ CapTypeOK /\ FlowTypeOK /\ PipeTypeOK /\ ExecTypeOK /\ SupervisorTypeOK
    /\ LoadTypeOK /\ SortTypeOK /\ ModTypeOK /\ ComposerTypeOK
    /\ ImpTypeOK /\ VocabTypeOK /\ FunctionTypeOK /\ RegistryTypeOK /\ OrderTypeOK /\ AddonTypeOK

\* Every flow that is started comes to an end, unless flows fill the pool and
\* wait for each other (kernel_flow_execution.py), and a
\* phase or a lib in a container is answered, whatever its code does
\* (secure_executor.py): FlowsEnd and ContainerAnswered.  The chains are
\* interchangeable and so are the calls, it is checked of one of each, and in
\* one formula: where flows run no call is made.
Unfinished == frames["c1"] # << >> \/ InContainer(CHOOSE c \in Calls : TRUE)
CallsEnd == Unfinished ~> (~Unfinished \/ PoolStuck)

\* A flow has the steps that its files and modifiers declare, in their order
\* (flow_loader.py, flow_modifier.py, flow_composer.py), and a pipeline runs its
\* own in theirs (kernel_flow_execution.py).
FlowsBuilt == PipelinesOrdered /\ FlowsAuthorised /\ StepsInOrder /\ ModifiedAsDeclared /\ StepsAccountedFor

\* Importing packs and choosing and patching their components loses no content
\* and no choice (pack_applier.py, active_ecosystem.py, json_patch.py).
PacksKept == ContentsKept /\ ChoicesHold

\* The registries answer from what was registered and is still there: their
\* several indexes agree, dependencies come first (vocab_registry.py,
\* function_registry.py, backend_core/ecosystem/registry.py).
RegistriesSound == VocabSound /\ LookupsSound /\ IndexesFollowPacks /\ DependenciesFirst
=============================================================================
