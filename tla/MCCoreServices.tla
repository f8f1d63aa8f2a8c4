--------------------------- MODULE MCCoreServices ---------------------------
(***************************************************************************)
(* The services of core_runtime for TLC, an instance of each.  They keep   *)
(* their state apart from each other and are not composed here: the run    *)
(* chooses one of them, its focus, and lets that one take its steps from   *)
(* each of its initial states, while the others stay in their first one.   *)
(***************************************************************************)
EXTENDS StoreRegistry, EgressProxy, Containers, PackApi, InterfaceRegistry, UsageLimits, TLC

VARIABLE focus                           \* the component that runs

\* Routes that share a path, that a template covers, that the server answers
\* itself, in another pack's scope, or that do not compile.
MCRoute(p, m, n, e, c, o, s) ==
    [pack |-> p, under |-> p, method |-> m, name |-> n, ending |-> e, covers |-> c, flowOf |-> o, sound |-> s]
MCRouteFiles == {<<MCRoute("p", "GET", "{n}", "n", {"a", "b"}, "p", TRUE), MCRoute("p", "GET", "a", "a", {"a"}, "p", TRUE),
                   MCRoute("q", "POST", "c", "c", {"c"}, "q", s), MCRoute("p", "GET", "a", "a", {"a"}, "p", TRUE),
                   [MCRoute("q", "GET", "a", "a", {"a"}, "q", TRUE) EXCEPT !.under = "p"],
                   MCRoute("q", "DELETE", "c", "c", {"c"}, "q", TRUE), MCRoute("q", "GET", "d", "d", {"d"}, "p", TRUE)>> :
                   s \in BOOLEAN}

\* A pack that may use one of two hosts; a pack whose name is within another's.
MCGrantSets == {{"h1"}}
MCSimilar == {<<"p", "pq">>}

\* The proofs about these components start from what is assumed here.
ASSUME Instances ==
    /\ EgressConstants /\ DockerConstants /\ LimitsOK /\ SetupConstants /\ UsageConstants
    /\ ListConstants /\ RouteConstants /\ InterfaceConstants /\ RateConstants

(***************************************************************************)
(* The run.                                                                *)
(***************************************************************************)
apiVars == <<limiterVars, routeVars, setupVars>>
containerVars == <<dockerVars, boxVars>>
limitVars == <<rateVars, usageVars>>

\* Where a component has several initial states, it has one of them only while
\* another one is in focus.
Init ==
    /\ focus \in {"store", "list", "egress", "docker", "containers", "limiter", "routes", "setup",
                  "interfaces", "rate", "usage"}
    /\ StoreInit /\ ListInit /\ EgressInit /\ BoxInit /\ LimiterInit /\ SetupInit
    /\ InterfaceInit /\ RateInit /\ UsageInit
    /\ DockerInit /\ (focus # "docker" => \A r \in Runs : run[r].by = CHOOSE p \in Principals : TRUE)
    /\ RouteInit /\ (focus # "routes" => routes = CHOOSE f \in {Loaded(g) : g \in RouteFiles} : TRUE)

InStores(rest) == UNCHANGED <<focus, egressVars, containerVars, apiVars, interfaceVars, limitVars, rest>>
InEgress == UNCHANGED <<focus, storeVars, listVars, containerVars, apiVars, interfaceVars, limitVars>>
InContainers(rest) == UNCHANGED <<focus, storeVars, listVars, egressVars, apiVars, interfaceVars, limitVars, rest>>
InApi(rest) == UNCHANGED <<focus, storeVars, listVars, egressVars, containerVars, interfaceVars, limitVars, rest>>
InInterfaces == UNCHANGED <<focus, storeVars, listVars, egressVars, containerVars, apiVars, limitVars>>
InLimits(rest) == UNCHANGED <<focus, storeVars, listVars, egressVars, containerVars, apiVars, interfaceVars, rest>>

Next ==
    \/ focus = "store" /\ StoreNext /\ InStores(listVars)
    \/ focus = "list" /\ ListNext /\ InStores(storeVars)
    \/ focus = "egress" /\ EgressNext /\ InEgress
    \/ focus = "docker" /\ DockerNext /\ InContainers(boxVars)
    \/ focus = "containers" /\ BoxNext /\ InContainers(dockerVars)
    \/ focus = "limiter" /\ LimiterNext /\ InApi(<<routeVars, setupVars>>)
    \/ focus = "routes" /\ RouteNext /\ InApi(<<limiterVars, setupVars>>)
    \/ focus = "setup" /\ SetupNext /\ InApi(<<limiterVars, routeVars>>)
    \/ focus = "interfaces" /\ InterfaceNext /\ InInterfaces
    \/ focus = "rate" /\ RateNext /\ InLimits(usageVars)
    \/ focus = "usage" /\ UsageNext /\ InLimits(rateVars)

vars == <<focus, storeVars, listVars, egressVars, containerVars, apiVars, interfaceVars, limitVars>>
Spec == Init /\ [][Next]_vars

(***************************************************************************)
(* Properties, by the theme they are about; each component's module states *)
(* its own and says what code it is about.                                 *)
(***************************************************************************)
\* The state of each component has the shape its module declares.
ServicesTypeOK ==
    /\ StoreTypeOK /\ ListTypeOK /\ EgressTypeOK /\ DockerTypeOK /\ BoxTypeOK
    /\ LimiterTypeOK /\ RouteTypeOK /\ SetupTypeOK /\ InterfaceTypeOK /\ RateTypeOK /\ UsageTypeOK

\* No limit is overrun by requests that come together, nor by what a stop, a
\* failing write or a restart makes the code forget: containers and the entries of
\* them (docker_capability.py, container_orchestrator.py), requests of an address
\* (pack_api_server.py), uses of a grant (capability_usage_store.py) and of an
\* OAuth link (oauth_handlers.py).
LimitsRespected == LimitOfContainers /\ EntriesExist /\ WindowKept /\ LimitsKept /\ LinksOnce

\* What is listed while others change it loses and repeats nothing: the pages of a
\* store (store_registry.py), the tables of pack routes (route_handlers.py), the
\* entries of an interface (interface_registry.py) and the times in a sliding
\* window (egress_rate_limiter.py).
ListsWhole == ListingComplete /\ RoutesWhole /\ EntriesKept /\ BudgetKept
=============================================================================
