----------------------------- MODULE EgressProxy -----------------------------
(***************************************************************************)
(* NetworkGrantManager (network_grant_manager.py): the hosts each pack may *)
(* reach, in memory and in one signed file per pack, and the packs that    *)
(* were disabled because they were modified, in memory only.  The patterns *)
(* and ports of a grant are abstracted to the set of hosts they match.     *)
(*                                                                         *)
(* UDSEgressServer and execute_http_request (egress_proxy.py) ask it: a    *)
(* socket per pack, an accept loop that hands each connection to a pool or *)
(* turns it away when no worker is free, and requests that go from hop to  *)
(* hop, each hop checked before it is contacted.  Workers go on after the  *)
(* server is stopped.  One server, that of the pack P.                     *)
(***************************************************************************)
EXTENDS Integers, FiniteSets

CONSTANTS
    Packs,
    Hosts,
    MaxNetFaults     \* bound: writes that fail and files that are damaged

VARIABLES
    netGrants,       \* _grants: [Packs -> NetGrant]
    netFiles,        \* [Packs -> NetGrant], one of them BadGrant
    disabledPacks,   \* _disabled_packs
    netFaults

netVars == <<netGrants, netFiles, disabledPacks, netFaults>>

NetGrant == [there: BOOLEAN, enabled: BOOLEAN, hosts: SUBSET Hosts]
NoGrant == [there |-> FALSE, enabled |-> FALSE, hosts |-> {}]
BadGrant == [there |-> TRUE, enabled |-> TRUE, hosts |-> {"unsigned"}]

NetTypeOK ==
    /\ netGrants \in [Packs -> NetGrant]
    /\ netFiles \in [Packs -> NetGrant \cup {BadGrant}]
    /\ disabledPacks \subseteq Packs
    /\ netFaults \in 0..MaxNetFaults

NetInit ==
    /\ netGrants = [p \in Packs |-> NoGrant]
    /\ netFiles = [p \in Packs |-> NoGrant]
    /\ disabledPacks = {} /\ netFaults = 0

\* check_access: an empty list of a grant allows nothing.
Allowed(p, h) ==
    /\ p \notin disabledPacks
    /\ netGrants[p].enabled /\ h \in netGrants[p].hosts

\* _save_grant swallows its errors: the file then stays behind the memory.
SaveGrant(p, g) ==
    /\ netGrants' = [netGrants EXCEPT ![p] = g]
    /\ \/ netFiles' = [netFiles EXCEPT ![p] = g] /\ UNCHANGED netFaults
       \/ /\ netFaults < MaxNetFaults /\ netFaults' = netFaults + 1
          /\ UNCHANGED netFiles

\* A grant also ends the disabling of a pack that was modified.
GrantNetworkAccess(p, hs) ==
    /\ SaveGrant(p, [there |-> TRUE, enabled |-> TRUE, hosts |-> hs])
    /\ disabledPacks' = disabledPacks \ {p}

RevokeNetworkAccess(p) ==
    /\ netGrants[p].there
    /\ SaveGrant(p, [netGrants[p] EXCEPT !.enabled = FALSE])
    /\ UNCHANGED disabledPacks

\* The file is not looked for unless the grant is in memory.
DeleteGrant(p) ==
    /\ netGrants[p].there
    /\ netGrants' = [netGrants EXCEPT ![p] = NoGrant]
    /\ netFiles' = [netFiles EXCEPT ![p] = NoGrant]
    /\ UNCHANGED <<disabledPacks, netFaults>>

DisableForModified(p) ==
    /\ p \notin disabledPacks
    /\ disabledPacks' = disabledPacks \cup {p}
    /\ UNCHANGED <<netGrants, netFiles, netFaults>>

DamageGrant(p) ==
    /\ netFiles[p].there /\ netFaults < MaxNetFaults
    /\ netFiles' = [netFiles EXCEPT ![p] = BadGrant]
    /\ netFaults' = netFaults + 1
    /\ UNCHANGED <<netGrants, disabledPacks>>

\* A file without a valid signature is not loaded and disables its pack.
RestartGrants ==
    /\ netGrants' = [p \in Packs |-> IF netFiles[p] = BadGrant THEN NoGrant ELSE netFiles[p]]
    /\ disabledPacks' = {p \in Packs : netFiles[p] = BadGrant}
    /\ UNCHANGED <<netFiles, netFaults>>

(***************************************************************************)
(* The server of the pack P and its requests.                              *)
(***************************************************************************)
CONSTANTS
    P,               \* the pack of the socket
    Clients,         \* connections to it
    MaxWorkers,      \* RUMI_EGRESS_MAX_WORKERS
    MaxRedirects,
    GrantSets,       \* bound: the host sets that are granted
    Wired            \* whether the manager of the servers was given a grant manager

\* The pack is one of them, there is a host to name, and the limits are numbers.
EgressConstants ==
    /\ P \in Packs /\ Hosts # {} /\ GrantSets \subseteq SUBSET Hosts /\ IsFiniteSet(Clients)
    /\ MaxWorkers \in Nat /\ MaxRedirects \in Nat /\ MaxNetFaults \in Nat

VARIABLES
    server,          \* "absent", "running", or "deaf": its accept loop has ended
    permits,         \* the semaphore of the server
    client,          \* [Clients -> Request]
    decision,        \* history: hosts the last grant or revocation left P
    ever             \* history: [Clients -> hosts allowed at some time of its request]

egressVars == <<netVars, server, permits, client, decision, ever>>

Request == [pc: {"out", "waiting", "hop", "checked", "contacted"}, host: Hosts, hops: 0..MaxRedirects, own: BOOLEAN]
Out == [pc |-> "out", host |-> CHOOSE h \in Hosts : TRUE, hops |-> 0, own |-> FALSE]
Busy(c) == client[c].pc \in {"hop", "checked", "contacted"}

EgressTypeOK ==
    /\ NetTypeOK
    /\ server \in {"absent", "running", "deaf"} /\ permits \in 0..MaxWorkers
    /\ client \in [Clients -> Request]
    /\ decision \subseteq Hosts /\ ever \in [Clients -> SUBSET Hosts]

EgressInit ==
    /\ NetInit
    /\ server = "absent" /\ permits = 0
    /\ client = [c \in Clients |-> Out]
    /\ decision = {} /\ ever = [c \in Clients |-> {}]

Others == UNCHANGED <<netVars, decision>>
Standing(hs, disabled) == IF P \in disabled THEN {} ELSE hs
Decided(hs) ==
    /\ decision' = hs
    /\ ever' = [c \in Clients |-> IF Busy(c) THEN ever[c] \cup Standing(hs, disabledPacks') ELSE {}]
    /\ UNCHANGED <<server, permits, client>>

\* The handlers kernel:network.grant and .revoke, the removal, the flow loader.
Decide ==
    \/ \E hs \in GrantSets : GrantNetworkAccess(P, hs) /\ Decided(hs)
    \/ RevokeNetworkAccess(P) /\ Decided({})
    \/ DeleteGrant(P) /\ Decided({})
    \/ DisableForModified(P) /\ Decided(decision)
    \/ DamageGrant(P) /\ Decided(decision)

\* ensure_pack_socket; a server that no longer listens counts as running.
EnsurePackSocket ==
    /\ server = "absent"
    /\ server' = "running" /\ permits' = MaxWorkers
    /\ UNCHANGED <<client, ever>> /\ Others

\* UDSEgressServer.stop: what waits in the backlog is lost, the workers end alone.
StopPackServer ==
    /\ server # "absent"
    /\ server' = "absent" /\ permits' = 0
    /\ client' = [c \in Clients |-> IF client[c].pc = "waiting" THEN Out ELSE [client[c] EXCEPT !.own = FALSE]]
    /\ UNCHANGED ever /\ Others

\* accept() raises while the server runs, and the loop is left for good.
AcceptFails ==
    /\ server = "running" /\ server' = "deaf"
    /\ UNCHANGED <<permits, client, ever>> /\ Others

Connect(c, h) ==
    /\ client[c].pc = "out" /\ server # "absent"
    /\ client' = [client EXCEPT ![c] = [pc |-> "waiting", host |-> h, hops |-> 0, own |-> TRUE]]
    /\ UNCHANGED <<server, permits, ever>> /\ Others

\* A connection is given to a worker, or answered "pool_exhausted".
Accept(c) ==
    /\ server = "running" /\ client[c].pc = "waiting"
    /\ IF permits = 0
       THEN client' = [client EXCEPT ![c] = Out] /\ UNCHANGED <<permits, ever>>
       ELSE /\ permits' = permits - 1
            /\ client' = [client EXCEPT ![c].pc = "hop"]
            /\ ever' = [ever EXCEPT ![c] = Standing(decision, disabledPacks)]
    /\ UNCHANGED server /\ Others

\* Mutant: the permit is given back to whatever server there is by then.
FinishAnywhere(c) ==
    /\ client' = [client EXCEPT ![c] = Out]
    /\ permits' = permits + 1
    /\ ever' = [ever EXCEPT ![c] = {}]
    /\ UNCHANGED server /\ Others

\* The answer is written, the socket closed and the permit given back.
Finish(c) ==
    /\ client' = [client EXCEPT ![c] = Out]
    /\ permits' = IF client[c].own THEN permits + 1 ELSE permits
    /\ ever' = [ever EXCEPT ![c] = {}]
    /\ UNCHANGED server /\ Others

\* An internal address, a denied domain, a used up rate, a request that is none.
BlockedHop(c) == client[c].pc = "hop" /\ Finish(c)

\* Mutant: where a redirect leads is not asked.
GrantOKAtFirst(c) == Wired /\ client[c].hops = 0 => Allowed(P, client[c].host)

GrantOK(c) == Wired => Allowed(P, client[c].host)
RefusedHop(c) == client[c].pc = "hop" /\ ~GrantOK(c) /\ Finish(c)
CheckHop(c) ==
    /\ client[c].pc = "hop" /\ GrantOK(c)
    /\ client' = [client EXCEPT ![c].pc = "checked"]
    /\ UNCHANGED <<server, permits, ever>> /\ Others

Contact(c) ==
    /\ client[c].pc = "checked"
    /\ client' = [client EXCEPT ![c].pc = "contacted"]
    /\ UNCHANGED <<server, permits, ever>> /\ Others

\* A redirect goes round the loop again, with every check but the rate limit.
Redirect(c, h) ==
    /\ client[c].pc = "contacted" /\ client[c].hops < MaxRedirects
    /\ client' = [client EXCEPT ![c].pc = "hop", ![c].host = h, ![c].hops = @ + 1]
    /\ UNCHANGED <<server, permits, ever>> /\ Others

\* The response, one redirect too many, a body too large, an error, a timeout.
Respond(c) == client[c].pc \in {"checked", "contacted"} /\ Finish(c)

RestartEgress ==
    /\ RestartGrants
    /\ server' = "absent" /\ permits' = 0
    /\ client' = [c \in Clients |-> Out]
    /\ ever' = [c \in Clients |-> {}]
    /\ UNCHANGED decision

EgressNext ==
    \/ Decide \/ EnsurePackSocket \/ StopPackServer \/ AcceptFails \/ RestartEgress
    \/ \E c \in Clients :
         \/ \E h \in Hosts : Connect(c, h) \/ Redirect(c, h)
         \/ Accept(c) \/ BlockedHop(c) \/ RefusedHop(c) \/ CheckHop(c) \/ Contact(c) \/ Respond(c)

EgressSpec == EgressInit /\ [][EgressNext]_egressVars

\* With a grant manager, no hop of a request reaches a host that no decision
\* allowed at any time since the request was accepted, across redirects, stops
\* and restarts, while no write of a grant failed.
ContactsGranted == \A c \in Clients :
    Wired /\ netFaults = 0 /\ client[c].pc = "contacted" => client[c].host \in ever[c]

\* Every worker that a request of the running server holds comes back to it.
PermitsKept == server # "absent" =>
    permits + Cardinality({c \in Clients : Busy(c) /\ client[c].own}) = MaxWorkers

\* No hop of a request reaches a host its pack is not granted, and the workers of
\* an egress server are not lost (egress_proxy.py, network_grant_manager.py).
NetworkSound == ContactsGranted /\ PermitsKept
=============================================================================
