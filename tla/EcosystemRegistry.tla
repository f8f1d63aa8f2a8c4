-------------------------- MODULE EcosystemRegistry --------------------------
(***************************************************************************)
(* Registry.load_all_packs (backend_core/ecosystem/registry.py): the pack  *)
(* directories are read in a fixed order; each pack's components, routes   *)
(* and functions go into indexes before its id is compared with those of   *)
(* the packs already loaded.  A reload makes a new registry; the table of  *)
(* functions belongs to the process and stays.                             *)
(***************************************************************************)
EXTENDS Naturals, Sequences, SequencesExt, Subsequences

CONSTANTS
    Dirs,            \* candidates in order: <<[pack, components, routes, functions]>>
    TypeOf           \* [component uuids -> types]

VARIABLES
    readable,        \* the directories that hold a valid pack, a subset of DOMAIN Dirs
    scan,            \* the directory to read next, 0 when no load is under way
    packs,           \* self.packs: [pack ids -> directory, 0 for none]
    componentIndex,  \* _component_index: [uuids -> directory, 0 for none]
    typeIndex,       \* _type_index: [types -> sequence of <<directory, uuid>>]
    packRoutes,      \* _pack_routes: [pack ids -> directory, 0 for none]
    functionDirs,    \* FunctionRegistry: [<<pack, function>> -> directory, 0 for none]
    doubled          \* history: pack ids met a second time by this load

registryVars == <<readable, scan, packs, componentIndex, typeIndex, packRoutes, functionDirs, doubled>>

PackIds == {Dirs[d].pack : d \in DOMAIN Dirs}
Uuids == DOMAIN TypeOf
Types == {TypeOf[u] : u \in Uuids}
FunctionNames == UNION {{<<Dirs[d].pack, f>> : f \in Dirs[d].functions} : d \in DOMAIN Dirs}
DirOrNone == {0} \cup DOMAIN Dirs

\* The directories are a list; each has finitely many components of known types.
RegistryConstants ==
    /\ Dirs \in Seq(ToSet(Dirs))
    /\ \A d \in DOMAIN Dirs : Dirs[d].components \subseteq Uuids /\ IsFiniteSet(Dirs[d].components)

RegistryTypeOK ==
    /\ readable \subseteq DOMAIN Dirs /\ scan \in 0..(Len(Dirs) + 1)
    /\ packs \in [PackIds -> DirOrNone] /\ packRoutes \in [PackIds -> DirOrNone]
    /\ componentIndex \in [Uuids -> DirOrNone]
    /\ \A t \in Types : ToSet(typeIndex[t]) \subseteq (DOMAIN Dirs) \X Uuids
    /\ functionDirs \in [FunctionNames -> DirOrNone] /\ doubled \subseteq PackIds

NewRegistry ==
    /\ packs' = [p \in PackIds |-> 0] /\ packRoutes' = [p \in PackIds |-> 0]
    /\ componentIndex' = [u \in Uuids |-> 0]
    /\ typeIndex' = [t \in Types |-> <<>>]
    /\ doubled' = {}

RegistryInit ==
    /\ readable = DOMAIN Dirs /\ scan = 0
    /\ packs = [p \in PackIds |-> 0] /\ packRoutes = packs
    /\ componentIndex = [u \in Uuids |-> 0]
    /\ typeIndex = [t \in Types |-> <<>>]
    /\ functionDirs = [f \in FunctionNames |-> 0] /\ doubled = {}

\* get_registry and reload_registry.
ReloadRegistry ==
    /\ scan = 0 /\ scan' = 1 /\ NewRegistry
    /\ UNCHANGED <<readable, functionDirs>>

\* No ecosystem.json, too large, not valid.
SkipDir ==
    /\ scan \in (DOMAIN Dirs) \ readable /\ scan' = scan + 1
    /\ UNCHANGED <<readable, packs, componentIndex, typeIndex, packRoutes, functionDirs, doubled>>

\* Components are added, also under a uuid or type that is taken.
LoadComponents(d) ==
    LET added(t) == SetToSeq({<<scan, u>> : u \in {v \in d.components : TypeOf[v] = t}}) IN
    /\ componentIndex' = [u \in Uuids |-> IF u \in d.components THEN scan ELSE componentIndex[u]]
    /\ typeIndex' = [t \in Types |-> typeIndex[t] \o added(t)]

\* A routes.json replaces the routes of the pack id.
LoadRoutes(d) == packRoutes' = IF d.routes THEN [packRoutes EXCEPT ![d.pack] = scan] ELSE packRoutes

\* A function that is registered stays as it is.
LoadFunctions(d) == functionDirs' = [f \in FunctionNames |->
    IF functionDirs[f] = 0 /\ f[1] = d.pack /\ f[2] \in d.functions THEN scan ELSE functionDirs[f]]

LoadPack ==
    LET d == Dirs[scan] IN
    /\ scan \in readable /\ scan' = scan + 1
    /\ LoadComponents(d) /\ LoadRoutes(d) /\ LoadFunctions(d)
    /\ packs' = IF packs[d.pack] = 0 THEN [packs EXCEPT ![d.pack] = scan] ELSE packs
    /\ doubled' = IF packs[d.pack] = 0 THEN doubled ELSE doubled \cup {d.pack}
    /\ UNCHANGED readable

EndLoadPacks ==
    /\ scan = Len(Dirs) + 1 /\ scan' = 0
    /\ UNCHANGED <<readable, packs, componentIndex, typeIndex, packRoutes, functionDirs, doubled>>

\* Packs are installed and removed while the process runs.
DirChanges(d) ==
    /\ readable' = IF d \in readable THEN readable \ {d} ELSE readable \cup {d}
    /\ UNCHANGED <<scan, packs, componentIndex, typeIndex, packRoutes, functionDirs, doubled>>

RegistryNext ==
    \/ ReloadRegistry \/ SkipDir \/ LoadPack \/ EndLoadPacks
    \/ \E d \in DOMAIN Dirs : DirChanges(d)

RegistrySpec == RegistryInit /\ [][RegistryNext]_registryVars

Loaded == {packs[p] : p \in PackIds} \ {0}
\* When no load is under way and no pack id was met twice, what the indexes hold
\* is the components and routes of the loaded packs, each once; the functions
\* that a pack keeps from an earlier load are its own.
IndexesFollowPacks == scan = 0 =>
    /\ \A p \in PackIds \ doubled :
         /\ packs[p] # 0 /\ Dirs[packs[p]].routes => packRoutes[p] = packs[p]
         /\ packRoutes[p] # 0 => packRoutes[p] = packs[p]
    /\ doubled = {} =>
         /\ \A u \in Uuids : componentIndex[u] # 0 <=> \E d \in Loaded : u \in Dirs[d].components
         /\ \A t \in Types :
              /\ \A i, j \in DOMAIN typeIndex[t] : typeIndex[t][i] = typeIndex[t][j] => i = j
              /\ ToSet(typeIndex[t]) = {e \in Loaded \X Uuids : e[2] \in Dirs[e[1]].components /\ TypeOf[e[2]] = t}
    /\ \A f \in FunctionNames :
         /\ functionDirs[f] # 0 => Dirs[functionDirs[f]].pack = f[1]
         /\ packs[f[1]] # 0 /\ f[2] \in Dirs[packs[f[1]]].functions => functionDirs[f] # 0

(***************************************************************************)
(* The order in which packs are loaded, a specification of its own:        *)
(* resolve_load_order of dependency_resolver.py takes the least ready pack *)
(* from a heap, that of Registry the oldest from a queue.  Both put the    *)
(* packs that circular dependencies leave over at the end, in alphabetical *)
(* order (soft_circular).                                                  *)
(***************************************************************************)
CONSTANTS
    OrderPacks,      \* numbers: the alphabetical order of pack ids
    Needs            \* the dependencies a pack may declare, installed or not

OrderConstants == OrderPacks \subseteq Nat /\ IsFiniteSet(OrderPacks)

VARIABLES
    deps,            \* [OrderPacks -> sets of ids]: all sources together
    heaped,          \* result of dependency_resolver so far
    queued,          \* result of registry so far
    queue,           \* its queue
    ordered          \* whether both are complete

orderVars == <<deps, heaped, queued, queue, ordered>>

\* extract_dependencies: what ecosystem.json and the components of a pack name.
Dependencies == [OrderPacks -> Needs]

OrderTypeOK ==
    /\ deps \in Dependencies /\ ordered \in BOOLEAN
    /\ ToSet(heaped) \cup ToSet(queued) \cup ToSet(queue) \subseteq OrderPacks

\* Dependencies that count: installed, and not the pack itself.
Edges(p) == (deps[p] \cap OrderPacks) \ {p}
Ascending(S) == Ordered(S, Increasing(S))
ReadyAfter(done) == {p \in OrderPacks : p \notin done /\ Edges(p) \subseteq done}

OrderInit ==
    /\ deps \in Dependencies
    /\ heaped = <<>> /\ queued = <<>> /\ ordered = FALSE
    /\ queue = Ascending(ReadyAfter({}))

PopHeap ==
    LET ready == ReadyAfter(ToSet(heaped)) IN
    /\ ready # {} /\ heaped' = Append(heaped, CHOOSE p \in ready : \A q \in ready : p <= q)
    /\ UNCHANGED <<deps, queued, queue, ordered>>

\* A pack enters the queue when the last of its dependencies leaves it.
PopQueue ==
    LET done == ToSet(queued) \cup {Head(queue)} IN
    /\ queue # <<>> /\ queued' = Append(queued, Head(queue))
    /\ queue' = Tail(queue) \o Ascending(ReadyAfter(done) \ ToSet(queue))
    /\ UNCHANGED <<deps, heaped, ordered>>

AppendCyclic ==
    /\ ~ordered /\ ReadyAfter(ToSet(heaped)) = {} /\ queue = <<>>
    /\ heaped' = heaped \o Ascending(OrderPacks \ ToSet(heaped))
    /\ queued' = queued \o Ascending(OrderPacks \ ToSet(queued))
    /\ ordered' = TRUE
    /\ UNCHANGED <<deps, queue>>

OrderNext == PopHeap \/ PopQueue \/ AppendCyclic

OrderSpec == OrderInit /\ [][OrderNext]_orderVars

\* Packs that are in a circular dependency or depend on one.
Stuck == UNION {S \in SUBSET OrderPacks : \A p \in S : Edges(p) \cap S # {}}
Position(order, p) == CHOOSE i \in DOMAIN order : order[i] = p

\* Both orders have every pack once; a pack comes after all its dependencies
\* unless a circular one is among them, and those packs come last.
DependenciesFirst == ordered => \A order \in {heaped, queued} :
    /\ Len(order) = Cardinality(OrderPacks) /\ ToSet(order) = OrderPacks
    /\ \A p \in OrderPacks \ Stuck :
         /\ \A q \in Edges(p) : Position(order, q) < Position(order, p)
         /\ \A q \in Stuck : Position(order, p) < Position(order, q)
==============================================================================
