----------------------------- MODULE SharedDict -----------------------------
(***************************************************************************)
(* The shared dictionary (shared_dict/): rules token -> value of one       *)
(* namespace, in a snapshot that is written in place after every change,   *)
(* a journal that is appended to after that, and resolutions that follow   *)
(* the rules one lookup at a time while they change.                       *)
(***************************************************************************)
EXTENDS Integers

CONSTANTS
    Tokens,        \* positive numbers; values are tokens as well
    CheckHops,     \* max_hops of _check_cycle
    MaxHops,       \* max_hops of the resolver
    MaxDictFaults  \* bound: writes that fail

VARIABLES
    rules,         \* [Tokens -> value or NoRule], the snapshot in memory
    snapshotFile,  \* what snapshot.json reads as
    journal,       \* [Tokens -> what the accepted entries of the journal end with]
    resolution,    \* a resolution under way or over
    dictFaults

\* What is assumed of the constants.
DictConstants ==
    /\ Tokens \subseteq Nat \ {0} /\ Tokens # {}
    /\ CheckHops \in Nat /\ MaxHops \in Nat /\ MaxDictFaults \in Nat

dictVars == <<rules, snapshotFile, journal, resolution, dictFaults>>

NoRule == 0
NoRules == [t \in Tokens |-> NoRule]

\* calm: no rule has changed since the resolution began.
Resolution == [pc: {"idle", "hop", "found", "cycle", "hops"}, token: Tokens, at: Tokens,
               visited: SUBSET Tokens, hops: 0..MaxHops, calm: BOOLEAN]
NoResolution == [pc |-> "idle", token |-> CHOOSE t \in Tokens : TRUE, at |-> CHOOSE t \in Tokens : TRUE,
                 visited |-> {}, hops |-> 0, calm |-> TRUE]

DictTypeOK ==
    /\ rules \in [Tokens -> Tokens \cup {NoRule}]
    /\ snapshotFile \in [Tokens -> Tokens \cup {NoRule}]
    /\ journal \in [Tokens -> Tokens \cup {NoRule}]
    /\ resolution \in Resolution
    /\ dictFaults \in 0..MaxDictFaults

DictInit ==
    /\ rules = NoRules
    /\ snapshotFile = NoRules
    /\ journal = NoRules
    /\ resolution = NoResolution
    /\ dictFaults = 0

DictFault == dictFaults < MaxDictFaults /\ dictFaults' = dictFaults + 1
DictFine == UNCHANGED dictFaults

\* n lookups, one after the other, come by these tokens.
Walks(n) == [0..n -> Tokens]
Follows(w, n) == \A i \in 1..n : w[i] = rules[w[i - 1]]

\* Mutant: only the value itself is looked at.
ClearAtFirst(t, v) == v # t /\ CheckHops > 0

\* _check_cycle: from v the rules come to an end in time, and not by way of t.
Clear(t, v) == \E n \in 0..CheckHops - 1 : \E w \in Walks(n) :
    /\ w[0] = v /\ Follows(w, n) /\ rules[w[n]] = NoRule
    /\ \A i \in 0..n : w[i] # t

\* A change is saved, or the save fails before or after the file is cut, and the
\* journal gets its entry whatever becomes of the save; no failure is reported.
Change(new, entry) ==
    /\ rules' = new
    /\ resolution' = [resolution EXCEPT !.calm = FALSE]
    /\ \/ snapshotFile' = new /\ journal' = entry /\ DictFine
       \/ snapshotFile' \in {snapshotFile, NoRules} /\ journal' = entry /\ DictFault
       \/ snapshotFile' = new /\ UNCHANGED journal /\ DictFault

AddRule(t, v) ==
    /\ rules[t] = NoRule
    /\ Change([rules EXCEPT ![t] = v], [journal EXCEPT ![t] = v])

\* A proposal that closes a cycle or contradicts a rule is refused.
Propose(t, v) == Clear(t, v) /\ AddRule(t, v)

\* A rule that is there already is accepted, and not saved again.
ProposeAgain(t) ==
    /\ rules[t] # NoRule
    /\ Clear(t, rules[t])
    /\ journal' = [journal EXCEPT ![t] = rules[t]]
    /\ UNCHANGED <<rules, snapshotFile, resolution, dictFaults>>

RemoveRule(t) ==
    /\ rules[t] # NoRule
    /\ Change([rules EXCEPT ![t] = NoRule], [journal EXCEPT ![t] = NoRule])

\* clear_namespace has no entry in the journal.
ClearNamespace ==
    /\ rules # NoRules
    /\ Change(NoRules, journal)

\* reload, or a restart: the file as it is.
Reload ==
    /\ rules' = snapshotFile
    /\ resolution' = [resolution EXCEPT !.calm = FALSE]
    /\ UNCHANGED <<snapshotFile, journal, dictFaults>>

(***************************************************************************)
(* resolve_chain: every lookup takes the snapshot's lock anew.             *)
(***************************************************************************)
BeginResolve(t) ==
    /\ resolution.pc # "hop"
    /\ resolution' = [NoResolution EXCEPT !.pc = "hop", !.token = t, !.at = t]
    /\ UNCHANGED <<rules, snapshotFile, journal, dictFaults>>

Ends(pc) == resolution' = [resolution EXCEPT !.pc = pc, !.visited = {}, !.hops = 0]

Hop == LET r == resolution IN
    /\ r.pc = "hop"
    /\ CASE r.hops = MaxHops -> Ends("hops")
         [] r.hops < MaxHops /\ r.at \in r.visited -> Ends("cycle")
         [] r.hops < MaxHops /\ r.at \notin r.visited /\ rules[r.at] = NoRule -> Ends("found")
         [] OTHER -> resolution' = [r EXCEPT !.at = rules[r.at], !.visited = @ \cup {r.at}, !.hops = @ + 1]
    /\ UNCHANGED <<rules, snapshotFile, journal, dictFaults>>

DictNext ==
    \/ \E t \in Tokens :
          \/ \E v \in Tokens : Propose(t, v)
          \/ ProposeAgain(t)
          \/ RemoveRule(t)
          \/ BeginResolve(t)
    \/ ClearNamespace
    \/ Reload
    \/ Hop

DictSpec == DictInit /\ [][DictNext]_dictVars

\* No rules form a cycle: of any tokens, the rule of one leads out of them, or
\* it has none.
Acyclic(r) == \A S \in SUBSET Tokens : S # {} => \E t \in S : r[t] \notin S

\* No sequence of proposals, removals, failing saves and reloads closes a cycle
\* of rules, however long the chains have grown, and a resolution reports one
\* only if rules have changed under it; undisturbed it ends at the chain's end.
DictSound ==
    /\ Acyclic(rules)
    /\ resolution.calm => resolution.pc # "cycle"
    /\ resolution.calm /\ resolution.pc = "found" =>
          /\ rules[resolution.at] = NoRule
          /\ \E n \in 0..MaxHops : \E w \in Walks(n) :
                w[0] = resolution.token /\ Follows(w, n) /\ w[n] = resolution.at
=============================================================================
