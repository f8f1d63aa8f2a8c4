-------------------------- MODULE InterfaceRegistry --------------------------
(***************************************************************************)
(* InterfaceRegistry (interface_registry.py): a key holds the sequence of  *)
(* what was registered under it.  register_if_absent asks that nothing     *)
(* valid is there; temporary_override appends a value and, when its block  *)
(* ends, cuts the sequence back to the length it had.                      *)
(***************************************************************************)
EXTENDS Naturals, Sequences, Subsequences

CONSTANTS
    Overriders,      \* threads that may hold a temporary override of the key
    Owners,          \* owner_pack of an entry
    MaxEntries, MaxTicks, Ttl

VARIABLES
    store,           \* _store[key]: <<[id, owner, kind, expires]>>
    lastId,          \* entries made so far; an entry is known by its number
    instant,         \* the clock
    override,        \* [Overriders -> [depth, length]]: "no", "counted" or "on"
    outside,         \* history: entries registered while the key had no override
    removed,         \* history: entries unregister took out
    disturbed        \* history: entries below an override's own went while it was on

interfaceVars == <<store, lastId, instant, override, outside, removed, disturbed>>

\* What is assumed of the constants.
InterfaceConstants == {MaxEntries, MaxTicks, Ttl} \subseteq Nat

NoOverride == [phase |-> "no", length |-> 0]
Never == MaxTicks + Ttl + 1        \* the expiry of an entry without a TTL
Overridden == \E t \in Overriders : override[t] # NoOverride

InterfaceTypeOK ==
    /\ lastId \in 0..MaxEntries /\ instant \in 0..MaxTicks
    /\ \A i \in DOMAIN store : store[i].id \in 1..lastId /\ store[i].owner \in Owners
           /\ store[i].kind \in {"plain", "absent", "override"} /\ store[i].expires \in 0..Never
    /\ \A t \in Overriders : override[t].phase \in {"no", "counted", "on"} /\ override[t].length \in 0..MaxEntries
    /\ outside \cup removed \subseteq 1..MaxEntries /\ disturbed \in BOOLEAN

InterfaceInit ==
    /\ store = <<>> /\ lastId = 0 /\ instant = 0
    /\ override = [t \in Overriders |-> NoOverride]
    /\ outside = {} /\ removed = {} /\ disturbed = FALSE

\* An entry goes to the end of the sequence.
Enter(owner, kind, expires) ==
    /\ lastId < MaxEntries /\ lastId' = lastId + 1
    /\ store' = Append(store, [id |-> lastId + 1, owner |-> owner, kind |-> kind, expires |-> expires])

Register(owner) ==
    /\ Enter(owner, "plain", Never)
    /\ outside' = IF Overridden THEN outside ELSE outside \cup {lastId + 1}
    /\ UNCHANGED <<instant, override, removed, disturbed>>

\* An entry is valid through the instant of its expiry.
Valid(e) == instant <= e.expires
RegisterIfAbsent(owner, ttl) ==
    /\ \A i \in DOMAIN store : ~Valid(store[i])
    /\ Enter(owner, "absent", IF ttl = 0 THEN Never ELSE instant + ttl)
    /\ outside' = IF Overridden THEN outside ELSE outside \cup {lastId + 1}
    /\ UNCHANGED <<instant, override, removed, disturbed>>

\* With a predicate (the owner), or all entries of the key.
Unregister(owners) ==
    /\ \E i \in DOMAIN store : store[i].owner \in owners
    /\ store' = Selected(store, {i \in DOMAIN store : store[i].owner \notin owners})
    /\ removed' = removed \cup {store[i].id : i \in {j \in DOMAIN store : store[j].owner \in owners}}
    /\ disturbed' = (disturbed \/ Overridden)
    /\ UNCHANGED <<lastId, instant, override, outside>>

\* The length is read before register appends.
CountEntries(t) ==
    /\ override[t] = NoOverride
    /\ override' = [override EXCEPT ![t] = [phase |-> "counted", length |-> Len(store)]]
    /\ UNCHANGED <<store, lastId, instant, outside, removed, disturbed>>
BeginOverride(t, owner) ==
    /\ override[t].phase = "counted" /\ Enter(owner, "override", Never)
    /\ override' = [override EXCEPT ![t].phase = "on"]
    /\ UNCHANGED <<instant, outside, removed, disturbed>>
\* Mutant: its own entry is taken to be the last one.
EndOverridePops(t) ==
    /\ override[t].phase = "on" /\ override' = [override EXCEPT ![t] = NoOverride]
    /\ store' = SubSeq(store, 1, Len(store) - 1)
    /\ disturbed' = (disturbed \/ \E u \in Overriders : override[u].length > override[t].length)
    /\ UNCHANGED <<lastId, instant, outside, removed>>
EndOverride(t) ==
    /\ override[t].phase = "on" /\ override' = [override EXCEPT ![t] = NoOverride]
    /\ store' = IF Len(store) > override[t].length THEN SubSeq(store, 1, override[t].length) ELSE store
    /\ disturbed' = (disturbed \/ \E u \in Overriders : override[u].length > override[t].length)
    /\ UNCHANGED <<lastId, instant, outside, removed>>

TimePasses ==
    /\ instant < MaxTicks /\ instant' = instant + 1
    /\ UNCHANGED <<store, lastId, override, outside, removed, disturbed>>

InterfaceNext ==
    \/ TimePasses
    \/ \E o \in Owners : \/ Register(o) \/ Unregister({o}) \/ \E ttl \in {0, Ttl} : RegisterIfAbsent(o, ttl)
                         \/ \E t \in Overriders : BeginOverride(t, o)
    \/ Unregister(Owners)
    \/ \E t \in Overriders : CountEntries(t) \/ EndOverride(t)

InterfaceSpec == InterfaceInit /\ [][InterfaceNext]_interfaceVars

\* What was registered while the key had no override is there until it is
\* unregistered; overrides that ended leave nothing behind, unless entries
\* that were there before them went meanwhile; at most one entry made by register_if_absent is valid.
EntriesKept ==
    /\ \A id \in outside \ removed : \E i \in DOMAIN store : store[i].id = id
    /\ ~Overridden /\ ~disturbed => \A i \in DOMAIN store : store[i].kind # "override"
    /\ \A i, j \in DOMAIN store :
         store[i].kind = "absent" /\ store[j].kind = "absent" /\ Valid(store[i]) /\ Valid(store[j]) => i = j
=============================================================================
