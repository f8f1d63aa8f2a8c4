------------------------------ MODULE PackApi ------------------------------
(***************************************************************************)
(* The HTTP server of the kernel (pack_api_server.py).  It handles one     *)
(* request at a time; what its handlers ask of the managers is modelled    *)
(* with these.  Three specifications of what it keeps itself, which share  *)
(* no state: the limiter of requests, the tables of pack routes            *)
(* (api/route_handlers.py), and the setup, by form or over OAuth           *)
(* (api/oauth_handlers.py, app_lifecycle_manager.py).                      *)
(***************************************************************************)
EXTENDS Naturals, FiniteSets, Sequences, Subsequences, TLC

(***************************************************************************)
(* The limiter.                                                            *)
(***************************************************************************)
CONSTANTS
    Ips,             \* bound: addresses that send requests
    MaxRequests,     \* RUMI_API_RATE_LIMIT: requests per window
    Window,          \* RUMI_API_RATE_WINDOW, in ticks
    MaxIps,          \* addresses that are tracked (10000)
    LastTick         \* bound: ticks of a behaviour

VARIABLES
    now,
    tracked,         \* _requests: [some Ips -> times of their requests]
    passed           \* history: [Ips -> times let through since the address was last evicted]

\* What the limiter's configuration gives.
LimitsOK == MaxRequests \in Nat /\ Window \in Nat /\ MaxIps \in Nat \ {0}

limiterVars == <<now, tracked, passed>>

LimiterTypeOK ==
    /\ now \in Nat
    /\ passed \in [Ips -> Seq(Nat)]
    /\ DOMAIN tracked \subseteq Ips
    /\ \A ip \in DOMAIN tracked : tracked[ip] \in Seq(Nat)

LimiterInit == now = 0 /\ tracked = << >> /\ passed = [ip \in Ips |-> << >>]

Passes == now < LastTick /\ now' = now + 1 /\ UNCHANGED <<tracked, passed>>

Held(ip) == IF ip \in DOMAIN tracked THEN tracked[ip] ELSE << >>

\* Mutant: one tick early.
LeaveEarly(times, n) ==
    /\ \A i \in 1..n : times[i] + Window <= now + 1
    /\ n < Len(times) => times[n + 1] + Window > now + 1

\* The first n times of an address are old and leave, the next one stays.
Leave(times, n) ==
    /\ \A i \in 1..n : times[i] + Window <= now
    /\ n < Len(times) => times[n + 1] + Window > now

\* _evict_oldest: one of the addresses whose first request is the oldest, or one
\* without requests (under a limit of 0).
Oldest(ips) == {ip \in ips : tracked[ip] # << >> =>
    \A other \in ips : tracked[other] # << >> /\ tracked[ip][1] <= tracked[other][1]}

\* An address without requests left takes a new slot, if need be another's.
Evicted(ip, kept) ==
    LET others == DOMAIN tracked \ {ip} IN
    IF kept = << >> /\ Cardinality(others) >= MaxIps THEN {{o} : o \in Oldest(others)} ELSE {{}}

\* _check_rate_limit: what is over the limit gets a 429.
IsAllowed(ip) == \E n \in 0..Len(Held(ip)) :
    LET kept == SubSeq(Held(ip), n + 1, Len(Held(ip)))
        allowed == Len(kept) < MaxRequests IN
    /\ Leave(Held(ip), n)
    /\ \E gone \in Evicted(ip, kept) :
         /\ tracked' = [o \in (DOMAIN tracked \cup {ip}) \ gone |->
                         IF o # ip THEN tracked[o] ELSE IF allowed THEN Append(kept, now) ELSE kept]
         /\ passed' = [o \in Ips |-> IF o \in gone THEN << >>
                                     ELSE IF o = ip /\ allowed THEN Append(passed[o], now) ELSE passed[o]]
    /\ UNCHANGED now

LimiterNext == Passes \/ \E ip \in Ips : IsAllowed(ip)
LimiterSpec == LimiterInit /\ [][LimiterNext]_limiterVars

\* Of the requests of an address that were let through, any MaxRequests + 1 span
\* a whole window; only an eviction makes the limiter forget, and it evicts to
\* keep to its number of addresses.
WindowKept ==
    /\ \A ip \in Ips : \A i \in 1..(Len(passed[ip]) - MaxRequests) :
         passed[ip][i] + Window <= passed[ip][i + MaxRequests]
    /\ Cardinality(DOMAIN tracked) <= MaxIps

(***************************************************************************)
(* Pack routes.  A route is [pack, under, method, name, ending, covers,    *)
(* flowOf, sound]: the pack that declares it, the pack whose prefix its    *)
(* path has, the paths a request may have (its name if it has no           *)
(* parameter), the pack whose scope its flow is in, and whether its        *)
(* parameters have different names, without which re.compile raises.       *)
(***************************************************************************)
CONSTANTS
    RouteFiles,      \* sequences of routes: what the packs may declare, in the registry's order
    MaxServers       \* bound: servers started

VARIABLES
    routes,          \* Registry._pack_routes
    listed, exact,   \* _pack_routes and _exact_routes of the handler: [keys -> index in routes]
    templates,       \* _template_routes: indexes in routes
    loading,         \* where the "server" and the "kernel" thread are in load_pack_routes, 0 for nowhere
    httpServer,      \* "down", "up", or "stopping" while stop waits in shutdown
    subscribed,      \* _deferred_load_routes of the servers that have not loaded their routes
    serving,         \* [path, route] of the request whose flow runs, or Idle
    started, filled  \* servers started; history: a load came to its end

routeVars == <<routes, listed, exact, templates, loading, httpServer, subscribed, serving, started, filled>>

Loaders == {"server", "kernel"}
Idle == [path |-> << >>, route |-> 0]
KeyOf(r) == <<r.method, r.under, r.name>>
PathsOf(r) == {<<r.method, r.under, p>> : p \in r.covers}
Index(f, k) == IF k \in DOMAIN f THEN f[k] ELSE 0
Assigned(f, k, i) == [o \in DOMAIN f \cup {k} |-> IF o = k THEN i ELSE f[o]]

\* What is assumed of the constants: a path that has no parameter covers itself
\* only, and what a route covers is given by its path.
RouteConstants ==
    /\ MaxServers \in Nat
    /\ \A f \in RouteFiles : f \in Seq({f[i] : i \in DOMAIN f})
    /\ \A f \in RouteFiles : \A i, j \in DOMAIN f :
         /\ f[i].name \in f[i].covers => f[i].covers = {f[i].name}
         /\ KeyOf(f[i]) = KeyOf(f[j]) => f[i].covers = f[j].covers

RouteTypeOK ==
    /\ \A f \in {listed, exact} : \A k \in DOMAIN f : f[k] \in DOMAIN routes /\ KeyOf(routes[f[k]]) = k
    /\ \A i \in DOMAIN templates : templates[i] \in DOMAIN routes
    /\ loading \in [Loaders -> 0..(Len(routes) + 4)]
    /\ httpServer \in {"down", "up", "stopping"}
    /\ subscribed \in 0..MaxServers /\ started \in 0..MaxServers /\ filled \in BOOLEAN
    /\ serving.route \in {0} \cup DOMAIN routes

\* _load_routes of the registry: paths are below the pack's own prefix.
Accepted(r) == r.under = r.pack
Loaded(f) == Selected(f, {i \in DOMAIN f : Accepted(f[i])})

RouteInit ==
    /\ routes \in {Loaded(f) : f \in RouteFiles}
    /\ listed = << >> /\ exact = << >> /\ templates = << >>
    /\ loading = [l \in Loaders |-> 0]
    /\ httpServer = "down" /\ subscribed = 0 /\ serving = Idle /\ started = 0 /\ filled = FALSE

\* The handlers keep what a former server has loaded.  start is called by the
\* kernel's thread, as are stop and the handlers of an event.
StartServer ==
    /\ httpServer = "down" /\ started < MaxServers /\ loading["kernel"] = 0
    /\ httpServer' = "up" /\ started' = started + 1 /\ subscribed' = subscribed + 1
    /\ UNCHANGED <<routes, listed, exact, templates, loading, serving, filled>>

\* initialize_pack_api_server stops the server there is; shutdown waits until
\* it is between two requests.
StopServer ==
    /\ httpServer = "up" /\ started < MaxServers /\ loading["kernel"] = 0
    /\ httpServer' = "stopping"
    /\ UNCHANGED <<routes, listed, exact, templates, loading, subscribed, serving, started, filled>>
Free == serving = Idle /\ loading["server"] = 0
Stopped ==
    /\ httpServer = "stopping" /\ Free /\ httpServer' = "down"
    /\ UNCHANGED <<routes, listed, exact, templates, loading, subscribed, serving, started, filled>>

\* system.ready, from the last step of the startup flow or from any other.
SystemReady ==
    /\ httpServer # "stopping" /\ subscribed > 0 /\ loading["kernel"] = 0
    /\ loading' = [loading EXCEPT !["kernel"] = 1]
    /\ UNCHANGED <<routes, listed, exact, templates, httpServer, subscribed, serving, started, filled>>

\* POST /api/routes/reload.
ReloadRoutes ==
    /\ httpServer = "up" /\ Free
    /\ loading' = [loading EXCEPT !["server"] = 1]
    /\ UNCHANGED <<routes, listed, exact, templates, httpServer, subscribed, serving, started, filled>>

\* The end of load_pack_routes, also the one by an exception, which both callers
\* catch; the kernel's thread goes on with the next subscriber.
EndLoad(l) ==
    /\ subscribed' = IF l = "kernel" THEN subscribed - 1 ELSE subscribed
    /\ loading' = [loading EXCEPT ![l] = IF subscribed' > 0 /\ l = "kernel" THEN 1 ELSE 0]

\* load_pack_routes of either thread: three new tables one after another, ...
ResetTable(l) ==
    /\ loading[l] \in 1..3 /\ loading' = [loading EXCEPT ![l] = @ + 1]
    /\ listed' = IF loading[l] = 1 THEN << >> ELSE listed
    /\ exact' = IF loading[l] = 2 THEN << >> ELSE exact
    /\ templates' = IF loading[l] = 3 THEN << >> ELSE templates
    /\ UNCHANGED <<routes, httpServer, subscribed, serving, started, filled>>

\* Mutant: the first route of a path is kept.
AddRouteFirst(l) == LET i == loading[l] - 3 IN
    /\ i \in DOMAIN routes /\ routes[i].sound
    /\ loading' = [loading EXCEPT ![l] = @ + 1]
    /\ IF routes[i].name \in routes[i].covers
       THEN exact' = exact @@ (KeyOf(routes[i]) :> i) /\ UNCHANGED templates
       ELSE templates' = Append(templates, i) /\ UNCHANGED exact
    /\ listed' = listed @@ (KeyOf(routes[i]) :> i)
    /\ UNCHANGED <<routes, httpServer, subscribed, serving, started, filled>>

\* ... to which the routes are added, in whatever tables there are by then.
AddRoute(l) == LET i == loading[l] - 3 IN
    /\ i \in DOMAIN routes /\ routes[i].sound
    /\ loading' = [loading EXCEPT ![l] = @ + 1]
    /\ IF routes[i].name \in routes[i].covers
       THEN exact' = Assigned(exact, KeyOf(routes[i]), i) /\ UNCHANGED templates
       ELSE templates' = Append(templates, i) /\ UNCHANGED exact
    /\ listed' = Assigned(listed, KeyOf(routes[i]), i)
    /\ UNCHANGED <<routes, httpServer, subscribed, serving, started, filled>>

LoadEnds(l) == LET i == loading[l] - 3 IN
    /\ i > 0
    /\ i \in DOMAIN routes => ~routes[i].sound
    /\ EndLoad(l) /\ filled' = TRUE
    /\ UNCHANGED <<routes, listed, exact, templates, httpServer, serving, started>>

\* _match_pack_route: a path without parameters first, then the first template.
Match(path) ==
    LET fitting == {i \in DOMAIN templates : path \in PathsOf(routes[templates[i]])} IN
    IF Index(exact, path) # 0 THEN exact[path]
    ELSE IF fitting = {} THEN 0
    ELSE templates[CHOOSE i \in fitting : \A j \in fitting : i <= j]

\* What do_GET, do_POST and do_DELETE answer themselves of the paths that pack
\* routes have: every DELETE below /api/packs/ removes a pack or is a 404.
GetBuiltIn(r) == r.method = "GET" /\ r.ending \in {"status", "dependencies"}
PostBuiltIn(r) == r.method = "POST" /\ r.ending \in {"approve", "approve-rule", "reject"}
DeleteBuiltIn(r) == r.method = "DELETE"
BuiltIn(r) == GetBuiltIn(r) \/ PostBuiltIn(r) \/ DeleteBuiltIn(r)

\* _handle_pack_route_request; without a match a 404, outside the scope a 403.
PackRequest(path) == LET r == Match(path) IN
    /\ httpServer = "up" /\ Free
    /\ r # 0 /\ ~BuiltIn(routes[r]) /\ routes[r].flowOf = routes[r].pack
    /\ serving' = [path |-> path, route |-> r]
    /\ UNCHANGED <<routes, listed, exact, templates, loading, httpServer, subscribed, started, filled>>

\* _run_flow is over, after 300 seconds at the latest.
FlowAnswers ==
    /\ serving # Idle /\ serving' = Idle
    /\ UNCHANGED <<routes, listed, exact, templates, loading, httpServer, subscribed, started, filled>>

Paths == UNION {PathsOf(routes[i]) : i \in DOMAIN routes}
RouteNext ==
    \/ StartServer \/ StopServer \/ Stopped \/ SystemReady \/ ReloadRoutes \/ FlowAnswers
    \/ \E l \in Loaders : ResetTable(l) \/ AddRoute(l) \/ LoadEnds(l)
    \/ \E path \in Paths : PackRequest(path)
RouteSpec == RouteInit /\ [][RouteNext]_routeVars

Reached == {i \in DOMAIN routes : \A j \in 1..i : routes[j].sound}
LastIndex(is) == CHOOSE i \in is : \A j \in is : j <= i
\* However the loads of the two threads interleave, once they are over the
\* tables have every route up to the first that does not compile: a listing shows
\* the last one declared for a path, which also is the one that is served if
\* it has no parameter.  A request below a pack's prefix runs a flow of this pack.
RoutesWhole ==
    /\ filled /\ loading = [l \in Loaders |-> 0] => \A i \in Reached :
         LET same == {j \in Reached : KeyOf(routes[j]) = KeyOf(routes[i])} IN
         /\ Index(listed, KeyOf(routes[i])) = LastIndex(same)
         /\ \A path \in PathsOf(routes[i]) : Match(path) # 0
         /\ routes[i].name \in routes[i].covers => Match(KeyOf(routes[i])) = LastIndex(same)
    /\ serving # Idle => routes[serving.route].flowOf = serving.path[2]

(***************************************************************************)
(* Setup.  A link starts with a state and a verifier in memory; the        *)
(* callback, a request as any other, exchanges a code for tokens and       *)
(* writes two files in place, as the form does with one of them.           *)
(***************************************************************************)
CONSTANTS
    LinkStates,      \* bound: links started
    LinkLife,        \* ticks of a link (5 minutes)
    LastMinute,      \* bound: ticks of a behaviour
    MaxSetupFaults   \* bound: kills and failing writes

VARIABLES
    minute,
    pkce,            \* _pkce_store: [LinkStates -> its tick, or Unissued, or Gone]
    at,              \* the request that runs: [step, link, profile], the form's without a link
    tokenFile,       \* a link, or NoFile, or Cut in the middle of a write
    profileFile,     \* "absent", "whole" or "cut"
    exchanged,       \* history: [LinkStates -> its exchanges]
    told,            \* history: the form was answered that setup is complete
    setupFaults

setupVars == <<minute, pkce, at, tokenFile, profileFile, exchanged, told, setupFaults>>

Unissued == LastMinute + 1
Gone == LastMinute + 2
NoFile == "no file"
Cut == "cut"
Resting == [step |-> "rest", link |-> NoFile, profile |-> FALSE]

\* A link is no file's absence and no half of a file.
SetupConstants ==
    /\ {LinkLife, LastMinute, MaxSetupFaults} \subseteq Nat
    /\ {NoFile, Cut} \cap LinkStates = {}

SetupRequest == [step: {"rest", "exchange", "tokens", "write tokens", "profile", "write profile"},
                 link: LinkStates \cup {NoFile}, profile: BOOLEAN]

SetupTypeOK ==
    /\ minute \in 0..LastMinute
    /\ pkce \in [LinkStates -> 0..Gone]
    /\ at \in SetupRequest
    /\ tokenFile \in LinkStates \cup {NoFile, Cut}
    /\ profileFile \in {"absent", "whole", "cut"}
    /\ exchanged \in [LinkStates -> Nat]
    /\ told \in BOOLEAN /\ setupFaults \in 0..MaxSetupFaults

SetupInit ==
    /\ minute = 0 /\ pkce = [s \in LinkStates |-> Unissued] /\ at = Resting
    /\ tokenFile = NoFile /\ profileFile = "absent"
    /\ exchanged = [s \in LinkStates |-> 0] /\ told = FALSE /\ setupFaults = 0

SetupFault == setupFaults < MaxSetupFaults /\ setupFaults' = setupFaults + 1

MinutePasses ==
    /\ minute < LastMinute /\ minute' = minute + 1
    /\ UNCHANGED <<pkce, at, tokenFile, profileFile, exchanged, told, setupFaults>>

\* _oauth_start: a new state; those that are too old are dropped.
OauthStart(s) ==
    /\ at = Resting /\ pkce[s] = Unissued
    /\ pkce' = [o \in LinkStates |-> IF o = s THEN minute
                                     ELSE IF pkce[o] + LinkLife < minute THEN Gone ELSE pkce[o]]
    /\ UNCHANGED <<minute, at, tokenFile, profileFile, exchanged, told, setupFaults>>

\* Mutant: the state is not taken out.
OauthCallbackKept(s) ==
    /\ at = Resting /\ pkce[s] <= minute
    /\ at' = IF minute > pkce[s] + LinkLife THEN Resting ELSE [Resting EXCEPT !.step = "exchange", !.link = s]
    /\ UNCHANGED <<minute, pkce, tokenFile, profileFile, exchanged, told, setupFaults>>

\* _oauth_callback with a code: a known state is taken out, used or too old.
OauthCallback(s) ==
    /\ at = Resting /\ pkce[s] <= minute
    /\ pkce' = [pkce EXCEPT ![s] = Gone]
    /\ at' = IF minute > pkce[s] + LinkLife THEN Resting ELSE [Resting EXCEPT !.step = "exchange", !.link = s]
    /\ UNCHANGED <<minute, tokenFile, profileFile, exchanged, told, setupFaults>>

\* No answer, or one without a token: the link has to be started again.
ExchangeFails ==
    /\ at.step = "exchange" /\ at' = Resting
    /\ UNCHANGED <<minute, pkce, tokenFile, profileFile, exchanged, told, setupFaults>>

\* Tokens, and a profile or none; a profile that is no JSON loses the tokens as well.
Exchange(profile) ==
    /\ at.step = "exchange" /\ exchanged' = [exchanged EXCEPT ![at.link] = @ + 1]
    /\ at' \in {[at EXCEPT !.step = "tokens", !.profile = profile], Resting}
    /\ UNCHANGED <<minute, pkce, tokenFile, profileFile, told, setupFaults>>

\* A file is cut when it is opened for writing.  Tokens that cannot be saved are
\* logged, and the request goes on to save_profile.
AfterTokens == at' = IF at.profile THEN [at EXCEPT !.step = "profile"] ELSE Resting
OpenTokens ==
    /\ at.step = "tokens"
    /\ \/ tokenFile' = Cut /\ at' = [at EXCEPT !.step = "write tokens"] /\ UNCHANGED setupFaults
       \/ SetupFault /\ AfterTokens /\ UNCHANGED tokenFile
    /\ UNCHANGED <<minute, pkce, profileFile, exchanged, told>>
SaveTokens ==
    /\ at.step = "write tokens" /\ AfterTokens
    /\ \/ tokenFile' = at.link /\ UNCHANGED setupFaults
       \/ SetupFault /\ UNCHANGED tokenFile
    /\ UNCHANGED <<minute, pkce, profileFile, exchanged, told>>

\* complete_setup with a form that is valid.
CompleteSetup ==
    /\ at = Resting /\ at' = [Resting EXCEPT !.step = "profile"]
    /\ UNCHANGED <<minute, pkce, tokenFile, profileFile, exchanged, told, setupFaults>>

OpenProfile ==
    /\ at.step = "profile"
    /\ \/ profileFile' = "cut" /\ at' = [at EXCEPT !.step = "write profile"] /\ UNCHANGED setupFaults
       \/ SetupFault /\ at' = Resting /\ UNCHANGED profileFile
    /\ UNCHANGED <<minute, pkce, tokenFile, exchanged, told>>

\* The profile is written, checked, and the form answered; a link is "linked"
\* whether it is written or not.
SaveProfile ==
    /\ at.step = "write profile" /\ at' = Resting
    /\ \/ profileFile' = "whole" /\ told' = (told \/ at.link = NoFile) /\ UNCHANGED setupFaults
       \/ SetupFault /\ UNCHANGED <<profileFile, told>>
    /\ UNCHANGED <<minute, pkce, tokenFile, exchanged>>

\* The kernel is killed and started again: the links are in memory only.
KernelKilled ==
    /\ SetupFault /\ at' = Resting
    /\ pkce' = [s \in LinkStates |-> IF pkce[s] = Unissued THEN Unissued ELSE Gone]
    /\ UNCHANGED <<minute, tokenFile, profileFile, exchanged, told>>

SetupNext ==
    \/ MinutePasses \/ ExchangeFails \/ OpenTokens \/ SaveTokens
    \/ CompleteSetup \/ OpenProfile \/ SaveProfile \/ KernelKilled
    \/ \E s \in LinkStates : OauthStart(s) \/ OauthCallback(s)
    \/ \E profile \in BOOLEAN : Exchange(profile)
SetupSpec == SetupInit /\ [][SetupNext]_setupVars

\* A state serves one exchange, also across a kill; the tokens on disk are of an
\* exchange that was made.  Without a fault, tokens and profile are
\* whole between two requests, and a user who was told so is set up.
LinksOnce ==
    /\ \A s \in LinkStates : exchanged[s] <= 1
    /\ tokenFile \in LinkStates => exchanged[tokenFile] = 1
    /\ setupFaults = 0 /\ at = Resting =>
         /\ tokenFile # Cut /\ profileFile # "cut"
         /\ told => profileFile = "whole"
=============================================================================
