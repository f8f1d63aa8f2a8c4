---------------------------- MODULE FlowLoading -----------------------------
(***************************************************************************)
(* kernel:flow.load_all (kernel_handlers_runtime.py) with FlowLoader and   *)
(* FlowModifierLoader: flow and modifier files are read in a fixed order,  *)
(* official, shared, pack by pack, local pack, while packs are approved,   *)
(* changed and revoked; what was loaded is put into the interface registry.*)
(***************************************************************************)
EXTENDS Naturals, Sequences, SequencesExt, Subsequences

CONSTANTS
    Files,           \* the order of loading: <<[kind, id, from, pack]>>, modifiers last
    LoadPacks,
    Wildcards,       \* packs with allow_wildcard_modifiers
    Every,           \* target_flow_id "*"
    MaxLoads

VARIABLES
    verdict,         \* [LoadPacks -> "ok", "hash_mismatch" or "not_approved"]
    next,            \* the file to read, 0 when nothing is loading
    asked,           \* [LoadPacks -> "ok", "no" or "unasked"]: this load's approval checks
    loaded,          \* _loaded_flows and _loaded_modifiers: indexes of Files
    registered,      \* the registry: [ids -> [file, mods]], the entry "get" returns
    offered,         \* history: flow files this load could have taken
    loads,           \* history: loads so far
    approvals        \* history: packs that a load's check has found approved

loadVars == <<verdict, next, asked, loaded, registered, offered, loads, approvals>>

FlowIds == {Files[i].id : i \in {j \in DOMAIN Files : Files[j].kind = "flow"}}
Unregistered == [file |-> 0, mods |-> {}]

\* Files are read from one source after the other, official and shared ones first.
LoadConstants ==
    /\ MaxLoads \in Nat /\ Len(Files) \in Nat /\ DOMAIN Files = 1..Len(Files)
    /\ \A i \in DOMAIN Files : /\ Files[i].kind \in {"flow", "modifier"}
                              /\ Files[i].from \in {"official", "shared", "pack", "local_pack"}
    /\ \A i, j \in DOMAIN Files : i < j /\ Files[i].kind = "flow" /\ Files[j].kind = "flow"
           => (Files[j].from \in {"official", "shared"} => Files[i].from \in {"official", Files[j].from})

LoadTypeOK ==
    /\ verdict \in [LoadPacks -> {"ok", "hash_mismatch", "not_approved"}]
    /\ next \in 0..(Len(Files) + 1) /\ loads \in 0..MaxLoads
    /\ asked \in [LoadPacks -> {"ok", "no", "unasked"}]
    /\ loaded \subseteq DOMAIN Files /\ offered \subseteq DOMAIN Files
    /\ registered \in [FlowIds -> [file : 0..Len(Files), mods : SUBSET DOMAIN Files]]
    /\ approvals \subseteq LoadPacks

LoadInit ==
    /\ verdict \in [LoadPacks -> {"ok", "not_approved"}]
    /\ next = 0 /\ loaded = {} /\ offered = {} /\ loads = 0
    /\ asked = [p \in LoadPacks |-> "unasked"]
    /\ registered = [i \in FlowIds |-> Unregistered]
    /\ approvals = {}

LoadAll ==
    /\ next = 0 /\ loads < MaxLoads
    /\ next' = 1 /\ loads' = loads + 1 /\ loaded' = {} /\ offered' = {}
    /\ asked' = [p \in LoadPacks |-> "unasked"]
    /\ UNCHANGED <<verdict, registered, approvals>>

Reading(kind) == next \in DOMAIN Files /\ Files[next].kind = kind

\* Each loader asks once per pack; the modifier loader asks again.
Asks == \E p \in LoadPacks :
    next \in DOMAIN Files /\ Files[next].pack = p /\ asked[p] = "unasked"

CheckPackApproval ==
    LET p == Files[next].pack IN
    /\ Asks
    /\ asked' = [asked EXCEPT ![p] = IF verdict[p] = "ok" THEN "ok" ELSE "no"]
    /\ verdict' = [verdict EXCEPT ![p] = IF @ = "hash_mismatch" THEN "not_approved" ELSE @]
    /\ approvals' = IF verdict[p] = "ok" THEN approvals \cup {p} ELSE approvals
    /\ UNCHANGED <<next, loaded, registered, offered, loads>>

Approved(f) == \A p \in LoadPacks : f.pack = p => asked[p] = "ok"

\* The loader's next file; the modifier loader asks for every pack afresh.
Turn(n) == n + 1 \in DOMAIN Files /\ Files[n].kind = "flow" /\ Files[n + 1].kind = "modifier"
NextFile ==
    /\ next' = next + 1
    /\ asked' = IF Turn(next) THEN [p \in LoadPacks |-> "unasked"] ELSE asked
    /\ UNCHANGED <<verdict, registered, loads, approvals>>

\* Files refused: not approved, unreadable, badly formed, too large.
SkipFile == next \in DOMAIN Files /\ ~Asks /\ NextFile /\ UNCHANGED <<loaded, offered>>

\* What a file may replace: nothing that is official, and only by rank.
Stronger(from) ==
    CASE from = "official" -> {"official", "shared", "pack", "local_pack"}
      [] from = "shared" -> {"official"}
      [] from = "pack" -> {"official", "shared"}
      [] from = "local_pack" -> {"official", "shared", "pack"}
Holders(id) == {i \in loaded : Files[i].kind = "flow" /\ Files[i].id = id}

LoadFlowFile ==
    LET f == Files[next] IN
    /\ Reading("flow") /\ ~Asks /\ Approved(f)
    /\ loaded' = IF \E i \in Holders(f.id) : Files[i].from \in Stronger(f.from)
                 THEN loaded ELSE (loaded \ Holders(f.id)) \cup {next}
    /\ offered' = offered \cup {next}
    /\ NextFile

\* A second modifier of one id is an error; "*" needs the pack's permission.
WildcardAllowed(f) == f.id # Every \/ f.pack \notin LoadPacks \/ f.pack \in Wildcards
LoadModifierFile ==
    LET f == Files[next] IN
    /\ Reading("modifier") /\ ~Asks /\ Approved(f)
    /\ loaded' = IF WildcardAllowed(f) THEN loaded \cup {next} ELSE loaded
    /\ NextFile /\ UNCHANGED offered

\* Flows that were not loaded this time keep the entry of an earlier load.
ModifiersFor(id) == {i \in loaded : Files[i].kind = "modifier" /\ Files[i].id \in {id, Every}}
RegisterFlows ==
    /\ next = Len(Files) + 1 /\ next' = 0
    /\ registered' = [i \in FlowIds |->
           IF Holders(i) = {} THEN registered[i]
           ELSE [file |-> CHOOSE f \in Holders(i) : TRUE, mods |-> ModifiersFor(i)]]
    /\ UNCHANGED <<verdict, asked, loaded, offered, loads, approvals>>

\* What other threads do to a pack meanwhile.
PackChanges(p, v) ==
    /\ verdict[p] # v /\ (v = "hash_mismatch" => verdict[p] = "ok")
    /\ verdict' = [verdict EXCEPT ![p] = v]
    /\ UNCHANGED <<next, asked, loaded, registered, offered, loads, approvals>>

LoadNext ==
    \/ LoadAll \/ CheckPackApproval \/ SkipFile \/ LoadFlowFile \/ LoadModifierFile \/ RegisterFlows
    \/ \E p \in LoadPacks, v \in {"ok", "hash_mismatch", "not_approved"} : PackChanges(p, v)

LoadSpec == LoadInit /\ [][LoadNext]_loadVars

\* A pack whose flow or modifier is in force was found approved and unchanged
\* by the load that registered it or by an earlier one; a pack's flow never
\* hides an official or shared flow that its load could have taken; only packs with
\* the permission modify every flow.
FlowsAuthorised == \A i \in FlowIds :
    LET e == registered[i] IN e.file # 0 =>
        /\ \A f \in {e.file} \cup e.mods : Files[f].pack \in LoadPacks => Files[f].pack \in approvals
        /\ \A f \in e.mods : WildcardAllowed(Files[f])
        /\ next = 0 /\ Files[e.file].from \in {"pack", "local_pack"} =>
               \A f \in offered : Files[f].id = i => Files[f].from \notin {"official", "shared"}

-----------------------------------------------------------------------------
(***************************************************************************)
(* FlowLoader._sort_steps (flow_loader.py): the steps of a flow are put in *)
(* the order of phase, priority and id, then, phase by phase, in an order  *)
(* that respects depends_on (Kahn's algorithm, one round per action).  The *)
(* phases are names, and a name listed twice has its steps emitted twice.  *)
(***************************************************************************)

CONSTANTS
    StepIds,         \* numbers: the alphabetical order of ids
    Phases,          \* the names in the flow's list of phases, a sequence
    Parsed           \* the steps _parse_steps may hand over: records [phase, priority, needs]

\* Ids are strings and a phase has finitely many steps; priorities are numbers.
SortConstants ==
    /\ StepIds \subseteq Nat /\ IsFiniteSet(StepIds)
    /\ Len(Phases) \in Nat /\ DOMAIN Phases = 1..Len(Phases)
    /\ \A p \in Parsed : p.priority \in Nat

VARIABLES
    flow,            \* [StepIds -> [phase, priority, needs]]: the parsed steps
    at,              \* the turn of the loop over phases, an index of Phases
    topo,            \* topo_order of this turn
    steps            \* the result so far, each step with (history) the turn that put it there

sortVars == <<flow, at, topo, steps>>

\* _parse_steps drops a flow with a step whose phase is not one of the flow's.
ParsedFlows == {f \in [StepIds -> Parsed] : \A s \in StepIds : \E n \in DOMAIN Phases : f[s].phase = Phases[n]}

\* The steps of the phase that is listed at n; and what the result is made of.
InPhase(n) == {s \in StepIds : flow[s].phase = Phases[n]}
Placements == {p \in (DOMAIN Phases) \X StepIds : p[2] \in InPhase(p[1])}

SortTypeOK ==
    /\ flow \in [StepIds -> Parsed]
    /\ at \in 1..(Len(Phases) + 1)
    /\ ToSet(topo) \subseteq StepIds /\ ToSet(steps) \subseteq Placements

SortInit ==
    /\ flow \in ParsedFlows
    /\ at = 1 /\ topo = <<>> /\ steps = <<>>

\* The first sort: (priority, id) within a phase.
Group == InPhase(at)
Before(s, t) == flow[s].priority < flow[t].priority
             \/ (flow[s].priority = flow[t].priority /\ s < t)
Sorted(S) == Ordered(S, {e \in S \X S : Before(e[1], e[2])})

\* Mutant: one dependency that is placed is enough.
ReadySoon == {s \in Group \ ToSet(topo) :
                LET needs == flow[s].needs \cap Group IN needs = {} \/ needs \cap ToSet(topo) # {}}

\* Steps of in-degree 0: dependencies within the phase that are placed.
Ready == {s \in Group \ ToSet(topo) : flow[s].needs \cap Group \subseteq ToSet(topo)}

\* One turn of the while loop places all that are ready, in the first order.
TopoRound ==
    /\ at \in DOMAIN Phases /\ Ready # {}
    /\ topo' = topo \o Sorted(Ready)
    /\ UNCHANGED <<flow, at, steps>>

\* A cycle leaves steps unplaced: the whole phase keeps its first order.
EndPhase ==
    /\ at \in DOMAIN Phases /\ Ready = {}
    /\ LET placed == IF Len(topo) = Len(Sorted(Group)) THEN topo ELSE Sorted(Group) IN
       steps' = steps \o [i \in DOMAIN placed |-> <<at, placed[i]>>]
    /\ at' = at + 1 /\ topo' = <<>>
    /\ UNCHANGED flow

SortNext == TopoRound \/ EndPhase

SortSpec == SortInit /\ [][SortNext]_sortVars

\* The dependencies of a phase, and whether they are circular.
Cyclic(S) == \E C \in SUBSET S : C # {} /\ \A s \in C : flow[s].needs \cap C # {}
Independent(S) == \A s \in S : flow[s].needs \cap S = {}
Pos(p) == CHOOSE i \in DOMAIN steps : steps[i] = p

\* When sorting ends the result has every step of a phase once for each time the
\* phase is listed, and so once when the flow lists no phase twice, in the order
\* of the list; a step comes after those it depends on unless its phase has a
\* circular dependency, and steps of a phase without dependencies, or with a
\* circular one, stay in order of priority and id.
StepsInOrder == at > Len(Phases) =>
    /\ Len(steps) = Cardinality(Placements) /\ ToSet(steps) = Placements
    /\ \A p, q \in Placements :
         LET s == p[2]  t == q[2]  S == InPhase(p[1]) IN
         /\ p[1] < q[1] => Pos(p) < Pos(q)
         /\ p[1] = q[1] /\ s \in flow[t].needs /\ s # t /\ ~Cyclic(S) => Pos(p) < Pos(q)
         /\ p[1] = q[1] /\ Before(s, t) /\ (Cyclic(S) \/ Independent(S)) => Pos(p) < Pos(q)
=============================================================================
