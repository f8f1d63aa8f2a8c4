--------------------------- MODULE FlowModifiers ----------------------------
(***************************************************************************)
(* FlowModifierApplier.apply_modifiers (flow_modifier.py): modifiers are   *)
(* applied to a copy of a flow's steps in four passes: replace and remove  *)
(* in turn, then the groups before a step, the groups after a step, and    *)
(* the steps appended to a phase.                                          *)
(***************************************************************************)
EXTENDS Integers, Sequences, SequencesExt, Subsequences

CONSTANTS
    BaseSteps,       \* the flow's steps: <<[id, phase]>>, phases 1..PhaseCount
    PhaseCount,
    Modifiers,       \* numbers: the order of modifier ids; its step has the modifier's id
    OfferedMods,     \* records [action, target, phase, priority, allowed]
    FirstStep, LastStep  \* the targets "__first__" and "__last__"

IdsOf(s) == {s[i].id : i \in DOMAIN s}

\* A flow as the loader leaves it: in the order of phases, each id once.  A
\* modifier's step has an id no step of the flow has.
ModConstants ==
    /\ PhaseCount \in Nat \ {0}
    /\ BaseSteps \in Seq([id: IdsOf(BaseSteps), phase: 1..PhaseCount])
    /\ \A i, j \in DOMAIN BaseSteps : i < j =>
          BaseSteps[i].id # BaseSteps[j].id /\ BaseSteps[i].phase <= BaseSteps[j].phase
    /\ Modifiers \subseteq Nat /\ IsFiniteSet(Modifiers) /\ Modifiers \cap IdsOf(BaseSteps) = {}
    /\ \A o \in OfferedMods : o.priority \in Int /\ o.phase \in Int
    /\ {FirstStep, LastStep} \cap (IdsOf(BaseSteps) \cup Modifiers) = {}

VARIABLES
    mods,            \* [Modifiers -> Accepted]: get_modifiers_for_flow
    pass,            \* 1 replace/remove, 2 before, 3 after, 4 append, 5 done
    left,            \* modifiers of this pass not yet applied
    new,             \* new_steps
    applied          \* the modifiers whose result is a success

modVars == <<mods, pass, left, new, applied>>

ModTypeOK ==
    /\ mods \in [Modifiers -> OfferedMods]
    /\ pass \in 1..5 /\ left \subseteq Modifiers /\ applied \subseteq Modifiers
    /\ \A i \in DOMAIN new : new[i].phase \in 1..PhaseCount

\* requires_not_satisfied and phase_not_found; append falls back to the last phase.
Usable(m) == mods[m].allowed /\ (mods[m].phase \in 1..PhaseCount \/ mods[m].action = "append")
PassOf(a) == CASE a \in {"replace", "remove"} -> 1 [] a = "inject_before" -> 2
               [] a = "inject_after" -> 3 [] a = "append" -> 4
Of(n) == {m \in Modifiers : Usable(m) /\ PassOf(mods[m].action) = n}

NoTarget == 0

\* load_modifier_file: one of the five actions, with a target unless it appends.
Accepted == {m \in OfferedMods :
    m.action = "append" \/ (m.action \in {"inject_before", "inject_after", "replace", "remove"} /\ m.target # NoTarget)}

ModInit ==
    /\ mods \in [Modifiers -> Accepted]
    /\ pass = 1 /\ left = Of(1) /\ new = BaseSteps /\ applied = {}

Lower(m, n) == mods[m].priority < mods[n].priority \/ (mods[m].priority = mods[n].priority /\ m < n)
Earlier(m, n) == mods[m].phase < mods[n].phase \/ (mods[m].phase = mods[n].phase /\ Lower(m, n))
FirstOf(S) == CHOOSE m \in S : \A n \in S \ {m} : Earlier(m, n)

\* _find_step_index, 0 when there is no such step.
Index(t) ==
    IF new = <<>> THEN 0
    ELSE IF t = FirstStep THEN 1
    ELSE IF t = LastStep THEN Len(new)
    ELSE IF \E i \in DOMAIN new : new[i].id = t
         THEN CHOOSE i \in DOMAIN new : new[i].id = t /\ \A j \in 1..(i - 1) : new[j].id # t
         ELSE 0

StepFor(m) == [id |-> m, phase |-> IF mods[m].phase \in 1..PhaseCount THEN mods[m].phase ELSE PhaseCount]
Splice(i, s) == SubSeq(new, 1, i) \o s \o SubSeq(new, i + 1, Len(new))

\* One of "other_modifiers", in the order of get_modifiers_for_flow.
ReplaceOrRemove ==
    LET m == FirstOf(left)  i == Index(mods[m].target) IN
    /\ pass = 1 /\ left # {} /\ left' = left \ {m}
    /\ \/ i = 0 /\ UNCHANGED <<new, applied>>
       \/ /\ i > 0 /\ applied' = applied \cup {m}
          /\ new' = IF mods[m].action = "remove" THEN RemoveAt(new, i) ELSE ReplaceAt(new, i, StepFor(m))
    /\ UNCHANGED <<mods, pass>>

\* All modifiers of one target, by priority and id, next to where it is now.
SameTarget(m) == {n \in left : mods[n].target = mods[m].target}
StepsFor(S) ==
    LET ordered == Ordered(S, {e \in S \X S : Lower(e[1], e[2])}) IN
    [k \in DOMAIN ordered |-> StepFor(ordered[k])]

InjectGroup ==
    LET m == FirstOf(left)  i == Index(mods[m].target)  group == SameTarget(m) IN
    /\ pass \in {2, 3} /\ left # {} /\ left' = left \ group
    /\ \/ i = 0 /\ UNCHANGED <<new, applied>>
       \/ /\ i > 0 /\ applied' = applied \cup group
          /\ new' = Splice(IF pass = 2 THEN i - 1 ELSE i, StepsFor(group))
    /\ UNCHANGED <<mods, pass>>

\* The last place before the steps of later phases.
Later(m) == {i \in DOMAIN new : new[i].phase > StepFor(m).phase}
EndOfPhase(m) == IF Later(m) = {} THEN Len(new) ELSE (CHOOSE i \in Later(m) : \A j \in Later(m) : i <= j) - 1

AppendToPhase ==
    LET m == FirstOf(left) IN
    /\ pass = 4 /\ left # {} /\ left' = left \ {m}
    /\ applied' = applied \cup {m}
    /\ new' = Splice(EndOfPhase(m), <<StepFor(m)>>)
    /\ UNCHANGED <<mods, pass>>

NextPass ==
    /\ pass < 5 /\ left = {}
    /\ pass' = pass + 1 /\ left' = IF pass < 4 THEN Of(pass + 1) ELSE {}
    /\ UNCHANGED <<mods, new, applied>>

ModNext == ReplaceOrRemove \/ InjectGroup \/ AppendToPhase \/ NextPass

ModSpec == ModInit /\ [][ModNext]_modVars

WithIds(s, ids) == Selected(s, {i \in DOMAIN s : s[i].id \in ids})
Taken == {m \in applied : mods[m].action \in {"replace", "remove"}}

\* The base steps that are left keep their order, and no more are lost than
\* modifiers replaced or removed; every other applied modifier has its step
\* in the result once, on its side of the step it targets; and if each modifier names the phase of the step it
\* targets, the result is still in the order of phases.
ModifiedAsDeclared == pass = 5 =>
    /\ WithIds(BaseSteps, IdsOf(new)) = WithIds(new, IdsOf(BaseSteps))
    /\ \E lost \in SUBSET IdsOf(BaseSteps) :
         lost = IdsOf(BaseSteps) \ IdsOf(new) /\ \E f \in [lost -> Taken] : \A s, t \in lost : f[s] = f[t] => s = t
    /\ \A m \in applied : mods[m].action \notin {"remove", "replace"} =>
         \E i \in DOMAIN new :
            /\ new[i].id = m /\ \A j \in DOMAIN new : new[j].id = m => i = j
            /\ \A j \in DOMAIN new : new[j].id = mods[m].target =>
                 /\ mods[m].action = "inject_before" => i < j
                 /\ mods[m].action = "inject_after" => i > j
    /\ (\A m \in Modifiers : mods[m].action # "append" =>
            \E i \in DOMAIN BaseSteps : BaseSteps[i].id = mods[m].target /\ BaseSteps[i].phase = mods[m].phase)
         => \A i, j \in DOMAIN new : i < j => new[i].phase <= new[j].phase

-----------------------------------------------------------------------------
(***************************************************************************)
(* FlowComposer (flow_composer.py), which the startup step flow.compose    *)
(* calls: modifiers registered by components, by priority, each a list of  *)
(* modifications made in place on one pipeline of the flow.  A modifier    *)
(* that raises midway is not recorded, but what it did stays.              *)
(***************************************************************************)

CONSTANTS
    Composers,        \* modifiers 1..n in their order of priority
    Requires,         \* [Composers -> the modifiers it requires]
    Pipeline,         \* ids of the pipeline's steps
    Injected,         \* id of the steps modifications bring in
    Targets,          \* what a target can match: sets of ids (an id, a handler, an alias)
    Wraps,            \* what wrap_with_loop can name: sets of ids
    MaxModifications  \* bound: modifications of a behaviour

\* A pipeline has each step once (flow_loader.py refuses a second one of an id).
ComposerConstants ==
    /\ Composers \in Nat /\ MaxModifications \in Nat
    /\ Pipeline \in Seq(ToSet(Pipeline))
    /\ \A i, j \in DOMAIN Pipeline : Pipeline[i] = Pipeline[j] => i = j
    /\ \A i \in DOMAIN Pipeline : Pipeline[i] # Injected

VARIABLES
    composed,         \* the steps, loops opened: sequence of [id, looped], looped inside a loop
    turn,             \* the modifier whose turn it is, 0 when flow.compose is not running
    started,          \* whether its requirements were checked
    recorded,         \* _applied_modifiers: ids
    gone,             \* history: steps a replace, a remove or a new id took away
    modifications

composerVars == <<composed, turn, started, recorded, gone, modifications>>

PlainStep(i) == [id |-> i, looped |-> FALSE]
PipelineIds == ToSet(Pipeline)
Piece == [id: PipelineIds \cup {Injected}, looped: BOOLEAN]

ComposerTypeOK ==
    /\ turn \in 0..Composers /\ started \in BOOLEAN /\ recorded \subseteq 1..Composers
    /\ gone \subseteq PipelineIds /\ modifications \in 0..MaxModifications
    /\ composed \in Seq(Piece)

ComposerInit ==
    /\ composed = [i \in DOMAIN Pipeline |-> PlainStep(Pipeline[i])]
    /\ turn = 0 /\ started = FALSE /\ recorded = {} /\ gone = {} /\ modifications = 0

\* _h_flow_compose: every time from the flow as the last time left it.
Compose ==
    /\ turn = 0 /\ turn' = (IF Composers > 0 THEN 1 ELSE 0) /\ started' = FALSE /\ recorded' = {}
    /\ UNCHANGED <<composed, gone, modifications>>

NextModifier == turn' = (IF turn < Composers THEN turn + 1 ELSE 0) /\ started' = FALSE

\* Capabilities, recorded modifiers and interfaces, looked at when it is its turn.
MeetsRequirements ==
    /\ turn # 0 /\ ~started /\ Requires[turn] \subseteq recorded
    /\ started' = TRUE
    /\ UNCHANGED <<composed, turn, recorded, gone, modifications>>

SkipModifier ==
    /\ turn # 0 /\ ~started /\ NextModifier
    /\ UNCHANGED <<composed, recorded, gone, modifications>>

EndModifier ==
    /\ started /\ recorded' = recorded \cup {turn} /\ NextModifier
    /\ UNCHANGED <<composed, gone, modifications>>

RaiseInModifier ==
    /\ started /\ NextModifier
    /\ UNCHANGED <<composed, recorded, gone, modifications>>

\* The first step that matches; steps inside a loop are not looked at, and a
\* loop itself has no id and no handler to match (a function by the name of its
\* type, "loop", is left out).
Matches(s, T) == s.id \in T /\ ~s.looped
Found(T) == {i \in DOMAIN composed : Matches(composed[i], T) /\ \A j \in 1..(i - 1) : ~Matches(composed[j], T)}

Modify(newSteps, lost) ==
    /\ started /\ modifications < MaxModifications
    /\ modifications' = modifications + 1
    /\ composed' = newSteps /\ gone' = gone \cup (lost \cap PipelineIds)
    /\ UNCHANGED <<turn, started, recorded>>

Inject(T, offset) == \E i \in Found(T) : Modify(InsertAt(composed, i + offset, PlainStep(Injected)), {})
InjectBefore(T) == Inject(T, 0)
InjectAfter(T) == Inject(T, 1)

ReplaceStep(T) == \E i \in Found(T) : Modify(ReplaceAt(composed, i, PlainStep(Injected)), {composed[i].id})
RemoveStep(T) == \E i \in Found(T) : Modify(RemoveAt(composed, i), {composed[i].id})

\* Properties can be any; of structure they change at most the id.
SetProperty(T) == \E i \in Found(T) : Modify([composed EXCEPT ![i].id = Injected], {composed[i].id})

Looped(s) == [i \in DOMAIN s |-> [s[i] EXCEPT !.looped = TRUE]]

\* From the first of the steps named to the last, with all that lies between.
WrapWithLoop(named) ==
    LET hit == UNION {Found({x}) : x \in named}
        first == CHOOSE i \in hit : \A j \in hit : i <= j
        last == CHOOSE i \in hit : \A j \in hit : i >= j IN
    /\ hit # {}
    /\ Modify(SubSeq(composed, 1, first - 1)
                \o Looped(SubSeq(composed, first, last))
                \o SubSeq(composed, last + 1, Len(composed)), {})

ComposerNext ==
    \/ Compose \/ MeetsRequirements \/ SkipModifier \/ EndModifier \/ RaiseInModifier
    \/ \E T \in Targets :
         InjectBefore(T) \/ InjectAfter(T) \/ ReplaceStep(T) \/ RemoveStep(T) \/ SetProperty(T)
    \/ \E named \in Wraps : WrapWithLoop(named)

ComposerSpec == ComposerInit /\ [][ComposerNext]_composerVars

\* Whatever modifiers do, fail at or are applied again to, every step of the flow
\* that none of them took away is there once, inside a loop or not, and the
\* steps that are left run in the order they were written in.
Without(s, ids) == Selected(s, {i \in DOMAIN s : s[i] \notin ids})
StepsAccountedFor == Without([i \in DOMAIN composed |-> composed[i].id], {Injected}) = Without(Pipeline, gone)
=============================================================================
