----------------------------- MODULE Containers -----------------------------
(***************************************************************************)
(* DockerCapabilityHandler (docker_capability.py): docker.run, .exec,      *)
(* .stop and .list for packs.  A run enters its container's name before    *)
(* Docker is asked for it, under a limit per principal, and takes the name *)
(* out when it answers; a timeout leaves the container running.            *)
(***************************************************************************)
EXTENDS Naturals, FiniteSets

CONSTANTS
    Principals,
    Runs,            \* requests for docker.run; each stands for its container
    MaxContainers    \* max_containers of the grant

\* What the code and its use give of the constants.
DockerConstants == IsFiniteSet(Runs) /\ MaxContainers \in Nat

VARIABLES
    run,             \* [Runs -> [by, pc]]
    active,          \* _active_containers: the names entered, a subset of Runs
    daemon,          \* [Runs -> "none", "up" or "gone"]: the containers
    stopping,        \* docker.stop under way: names whose owner was checked
    loose            \* history: containers whose run timed out, or whose stop did not work

dockerVars == <<run, active, daemon, stopping, loose>>

DockerTypeOK ==
    /\ run \in [Runs -> [by: Principals, pc: {"new", "entered", "waiting", "answered"}]]
    /\ active \subseteq Runs /\ stopping \subseteq Runs /\ loose \subseteq Runs
    /\ daemon \in [Runs -> {"none", "up", "gone"}]

DockerInit ==
    /\ run \in [Runs -> [by: Principals, pc: {"new"}]]
    /\ active = {} /\ stopping = {} /\ loose = {}
    /\ daemon = [r \in Runs |-> "none"]

CountActive(p) == Cardinality({r \in active : run[r].by = p})
Goes(r, pc) == run' = [run EXCEPT ![r].pc = pc]

RunRejected(r) ==       \* no image or command, an image that is not allowed, the limit
    /\ run[r].pc = "new" /\ Goes(r, "answered")
    /\ UNCHANGED <<active, daemon, stopping, loose>>

\* Mutant: the limit counts what was there before.
EnterRunLate(r) ==
    /\ run[r].pc = "new" /\ CountActive(run[r].by) <= MaxContainers
    /\ active' = active \cup {r} /\ Goes(r, "entered")
    /\ UNCHANGED <<daemon, stopping, loose>>

EnterRun(r) ==
    /\ run[r].pc = "new" /\ CountActive(run[r].by) < MaxContainers
    /\ active' = active \cup {r} /\ Goes(r, "entered")
    /\ UNCHANGED <<daemon, stopping, loose>>

AskDocker(r) ==
    /\ run[r].pc = "entered" /\ Goes(r, "waiting")
    /\ daemon' = [daemon EXCEPT ![r] = "up"]
    /\ UNCHANGED <<active, stopping, loose>>

\* finally: the name is taken out; a command that cannot be built or started.
LeaveRun(r) == Goes(r, "answered") /\ active' = active \ {r} /\ UNCHANGED <<daemon, stopping>>
RunBroken(r) == run[r].pc = "entered" /\ LeaveRun(r) /\ UNCHANGED loose
RunEnds(r) == run[r].pc = "waiting" /\ daemon[r] = "gone" /\ LeaveRun(r) /\ UNCHANGED loose
RunTimesOut(r) ==
    /\ run[r].pc = "waiting" /\ daemon[r] = "up"
    /\ LeaveRun(r) /\ loose' = loose \cup {r}

ContainerEnds(r) ==
    /\ daemon[r] = "up" /\ daemon' = [daemon EXCEPT ![r] = "gone"]
    /\ UNCHANGED <<run, active, stopping, loose>>

\* The names come from docker.list, so that the owner may ask while it still starts.
StopChecked(r, p) ==
    /\ r \in active /\ run[r].by = p /\ r \notin stopping
    /\ stopping' = stopping \cup {r}
    /\ UNCHANGED <<run, active, daemon, loose>>

\* "docker stop" fails for a container that is not there yet, and for reasons of
\* its own; the name is taken out whatever it answered.
StopContainer(r) ==
    /\ r \in stopping /\ stopping' = stopping \ {r}
    /\ active' = active \ {r}
    /\ \/ daemon[r] = "up" /\ daemon' = [daemon EXCEPT ![r] = "gone"] /\ UNCHANGED loose
       \/ daemon[r] # "gone" /\ loose' = loose \cup {r} /\ UNCHANGED daemon
       \/ daemon[r] = "gone" /\ UNCHANGED <<daemon, loose>>
    /\ UNCHANGED run

StopTimesOut(r) ==
    /\ r \in stopping /\ stopping' = stopping \ {r}
    /\ UNCHANGED <<run, active, daemon, loose>>

DockerNext == \E r \in Runs :
    \/ RunRejected(r) \/ EnterRun(r) \/ AskDocker(r) \/ RunBroken(r) \/ RunEnds(r) \/ RunTimesOut(r)
    \/ ContainerEnds(r) \/ StopContainer(r) \/ StopTimesOut(r)
    \/ \E p \in Principals : StopChecked(r, p)

DockerSpec == DockerInit /\ [][DockerNext]_dockerVars

\* A principal's running containers stay within its limit, but for those left
\* behind by a timeout or by a stop that failed or came before they started: the
\* code counts none of them any more, though they run on.
LimitOfContainers == \A p \in Principals :
    Cardinality({r \in Runs : run[r].by = p /\ daemon[r] = "up" /\ r \notin loose}) <= MaxContainers

-----------------------------------------------------------------------------
(***************************************************************************)
(* ContainerOrchestrator (container_orchestrator.py): the long-lived       *)
(* container of each pack.  start_container looks for an entry, then for a *)
(* container by name, starts or creates it, and enters it, in steps that   *)
(* other threads come between.                                             *)
(***************************************************************************)

CONSTANTS
    BoxPacks,
    Similar          \* pairs <<p, q>>: q's container also matches the filter on p's name

VARIABLES
    box,             \* the daemon: [BoxPacks -> "none", "up" or "down"]
    entered,         \* _containers: [BoxPacks -> whose container is entered, {} for none]
    starting,        \* [BoxPacks -> "no", "looking", "create", "start" or "enter"]
    found,           \* [BoxPacks -> the containers "docker ps" listed]
    leaving,         \* packs with a stop_container or remove_container under way
    late,            \* packs whose stop gave up on Docker, which may still carry it out
    raced            \* history: packs whose container went while a start or a late stop was at it

boxVars == <<box, entered, starting, found, leaving, late, raced>>

BoxTypeOK ==
    /\ box \in [BoxPacks -> {"none", "up", "down"}]
    /\ entered \in [BoxPacks -> SUBSET BoxPacks] /\ found \in [BoxPacks -> SUBSET BoxPacks]
    /\ starting \in [BoxPacks -> {"no", "looking", "create", "start", "enter"}]
    /\ leaving \subseteq BoxPacks /\ late \subseteq BoxPacks /\ raced \subseteq BoxPacks

BoxInit ==
    /\ box = [p \in BoxPacks |-> "none"]
    /\ entered = [p \in BoxPacks |-> {}] /\ found = entered
    /\ starting = [p \in BoxPacks |-> "no"]
    /\ leaving = {} /\ late = {} /\ raced = {}

Stops == <<leaving, late, raced>>

StartContainer(p) ==     \* an entry is believed without asking Docker
    /\ starting[p] = "no" /\ entered[p] = {}
    /\ starting' = [starting EXCEPT ![p] = "looking"]
    /\ UNCHANGED <<box, entered, found, Stops>>

LookUp(p) ==
    /\ starting[p] = "looking"
    /\ LET seen == {q \in BoxPacks : box[q] # "none" /\ (q = p \/ <<p, q>> \in Similar)} IN
       /\ found' = [found EXCEPT ![p] = seen]
       /\ starting' = [starting EXCEPT ![p] = IF seen = {} THEN "create" ELSE "start"]
    /\ UNCHANGED <<box, entered, Stops>>

\* "docker start" by the pack's own name; whether it worked is not looked at.
StartFound(p) ==
    /\ starting[p] = "start" /\ starting' = [starting EXCEPT ![p] = "enter"]
    /\ UNCHANGED box \/ (box[p] # "none" /\ box' = [box EXCEPT ![p] = "up"])
    /\ UNCHANGED <<entered, found, Stops>>

\* "docker run" of a name that is not taken.
CreateContainer(p) ==
    /\ starting[p] = "create" /\ starting' = [starting EXCEPT ![p] = "enter"]
    /\ box[p] = "none" /\ box' = [box EXCEPT ![p] = "up"]
    /\ found' = [found EXCEPT ![p] = {p}]
    /\ UNCHANGED <<entered, Stops>>

\* Docker refuses, or does not answer in time and starts the container all the same.
StartGivesUp(p) ==
    /\ starting[p] \in {"looking", "create", "start"} /\ starting' = [starting EXCEPT ![p] = "no"]
    /\ UNCHANGED box \/ (starting[p] # "looking" /\ box' = [box EXCEPT ![p] = "up"])
    /\ UNCHANGED <<entered, found, Stops>>

EnterContainer(p) ==
    /\ starting[p] = "enter" /\ starting' = [starting EXCEPT ![p] = "no"]
    /\ entered' = [entered EXCEPT ![p] = found[p]]
    /\ UNCHANGED <<box, found, Stops>>

StopBox(p) ==
    /\ p \notin leaving /\ leaving' = leaving \cup {p}
    /\ UNCHANGED <<box, entered, starting, found, late, raced>>

\* "docker stop" and "docker rm" work or fail; nobody looks.
DockerStops(p) ==
    /\ p \in leaving /\ box[p] = "up" /\ box' = [box EXCEPT ![p] = "down"]
    /\ UNCHANGED <<entered, starting, found, Stops>>

DockerRemoves(p) ==
    /\ p \in leaving /\ box[p] # "none" /\ box' = [box EXCEPT ![p] = "none"]
    /\ raced' = IF starting[p] = "no" THEN raced ELSE raced \cup {p}
    /\ UNCHANGED <<entered, starting, found, leaving, late>>

\* After a stop that worked or failed, and an rm whose timeout is passed over.
PopEntry(p) ==
    /\ p \in leaving /\ leaving' = leaving \ {p}
    /\ entered' = [entered EXCEPT ![p] = {}]
    /\ raced' = IF starting[p] = "no" THEN raced \ {p} ELSE raced
    /\ late' \in {late, late \cup {p}}
    /\ UNCHANGED <<box, starting, found>>

\* A timeout returns with the entry kept; Docker goes on without the client.
StopGivesUp(p) ==
    /\ p \in leaving /\ leaving' = leaving \ {p}
    /\ late' = late \cup {p} /\ raced' = raced \cup {p}
    /\ UNCHANGED <<box, entered, starting, found>>

LateRemoval(p) ==
    /\ p \in late /\ late' = late \ {p}
    /\ box' = [box EXCEPT ![p] = "none"] /\ raced' = raced \cup {p}
    /\ UNCHANGED <<entered, starting, found, leaving>>

BoxEnds(p) ==
    /\ box[p] = "up" /\ box' = [box EXCEPT ![p] = "down"]
    /\ UNCHANGED <<entered, starting, found, Stops>>

RestartBoxes ==
    /\ entered' = [p \in BoxPacks |-> {}] /\ found' = entered'
    /\ starting' = [p \in BoxPacks |-> "no"] /\ raced' = {}
    /\ leaving' = {} /\ late' = late \cup leaving
    /\ UNCHANGED box

BoxNext ==
    \/ RestartBoxes
    \/ \E p \in BoxPacks : \/ StartContainer(p) \/ LookUp(p) \/ StartFound(p) \/ CreateContainer(p)
                           \/ StartGivesUp(p) \/ EnterContainer(p) \/ StopBox(p) \/ DockerStops(p)
                           \/ DockerRemoves(p) \/ PopEntry(p) \/ StopGivesUp(p) \/ LateRemoval(p) \/ BoxEnds(p)

BoxSpec == BoxInit /\ [][BoxNext]_boxVars

\* What is entered for a pack is its own container and exists, unless a stop is
\* under way, or one overlapped a start or gave up waiting for Docker since the
\* entry was last taken out, or another name matches the filter.
EntriesExist == \A p \in BoxPacks :
    entered[p] # {} /\ p \notin leaving \cup raced /\ (\A q \in BoxPacks : <<p, q>> \notin Similar)
        => entered[p] = {p} /\ box[p] # "none"
=============================================================================
