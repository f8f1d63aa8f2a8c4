---------------------------- MODULE AddonPatches ----------------------------
(***************************************************************************)
(* What operators choose among the components and addons of packs          *)
(* (backend_core/ecosystem/active_ecosystem.py, a signed file), and the    *)
(* manifest a component gets when the addons left on patch it              *)
(* (apply_addons of registry.py, json_patch.py).  Pointers are a key and,  *)
(* below it, nothing, "-" or an index.                                     *)
(***************************************************************************)
EXTENDS Integers, Sequences, SequencesExt

CONSTANTS
    Candidates,      \* components of one type in load order, strings
    Patched,         \* the component whose manifest the addons patch
    Addons,          \* its pack's addons by priority: <<[id, ops]>>
    ManifestKeys,
    BaseManifest,    \* its manifest: [ManifestKeys -> Entry]
    AllowedKeys,     \* addon_policy.allowed_manifest_paths
    Switched,        \* ids of components and addons operators turn off and on
    MaxApplied,      \* bound: applications of the addons in a process
    MaxEcoFaults     \* bound: failing saves and damaged files

VARIABLES
    chosen,          \* _config: [override, disabled]
    ecoFile,         \* what the file holds: a config, or Unreadable
    applications,    \* applications so far
    values,          \* the addons in memory: [addon -> [operation -> its value]]
    outcomes,        \* last application: <<[id, before, after, failed]>>
    used,            \* ids of what was last resolved and applied, while it is on
    off,             \* history: ids turned off, and so in the file
    ecoFaults

addonVars == <<chosen, ecoFile, applications, values, outcomes, used, off, ecoFaults>>

\* Entries of a manifest.  A list that an operation adds is the operation's own:
\* the manifest refers to it until the next patch copies everything.
NoEntry == [kind |-> "absent", of |-> <<>>]
Leaf(v) == [kind |-> "leaf", of |-> <<v>>]
List(s) == [kind |-> "list", of |-> s]
Object(f) == [kind |-> "object", of |-> f]
Shared(a, i) == [kind |-> "shared", of |-> <<a, i>>]

Whole == -2
Dash == -1

NoOverride == "none"
Config == [override: ToSet(Candidates) \cup {NoOverride}, disabled: SUBSET Switched]
Defaults == [override |-> NoOverride, disabled |-> {}]
Unreadable == [override |-> "unreadable", disabled |-> {}]

\* The addons and their operations are lists; each operation is about a key of the
\* manifest, and its value is its own.
AddonConstants ==
    /\ MaxApplied \in Nat /\ MaxEcoFaults \in Nat
    /\ Addons \in Seq(ToSet(Addons)) /\ Candidates \in Seq(ToSet(Candidates))
    /\ \A a \in DOMAIN Addons : LET ops == Addons[a].ops IN
          /\ ops \in Seq(ToSet(ops))
          /\ \A i \in DOMAIN ops : ops[i].key \in ManifestKeys /\ ops[i].value.kind # "shared"
    /\ DOMAIN BaseManifest = ManifestKeys /\ \A k \in ManifestKeys : BaseManifest[k].kind # "shared"

FreshValues == [a \in DOMAIN Addons |-> [i \in DOMAIN Addons[a].ops |-> Addons[a].ops[i].value]]

AddonTypeOK ==
    /\ chosen \in Config /\ ecoFile \in Config \cup {Unreadable}
    /\ applications \in 0..MaxApplied /\ off \subseteq Switched /\ ecoFaults \in 0..MaxEcoFaults
    /\ DOMAIN values = DOMAIN Addons /\ Len(outcomes) <= Len(Addons)

AddonInit ==
    /\ chosen = Defaults /\ ecoFile = Defaults /\ applications = 0 /\ values = FreshValues
    /\ outcomes = <<>> /\ used = {} /\ off = {} /\ ecoFaults = 0

(***************************************************************************)
(* Choices.  The file is replaced in one step; when that fails it is       *)
(* written in place, and when that fails too the error is only logged.     *)
(***************************************************************************)
EcoFault == ecoFaults < MaxEcoFaults /\ ecoFaults' = ecoFaults + 1

Save(c) ==
    \/ ecoFile' = c /\ off' = c.disabled /\ UNCHANGED ecoFaults
    \/ EcoFault /\ \/ ecoFile' = ecoFile /\ off' = off \cap c.disabled
                   \/ ecoFile' = Unreadable /\ off' = {}

Choose(c) ==
    /\ chosen' = c /\ Save(c)
    /\ used' = used \ c.disabled
    /\ UNCHANGED <<applications, values, outcomes>>

Disable(x) == x \notin chosen.disabled /\ Choose([chosen EXCEPT !.disabled = @ \cup {x}])
Enable(x) == x \in chosen.disabled /\ Choose([chosen EXCEPT !.disabled = @ \ {x}])
SetOverride(x) == Choose([chosen EXCEPT !.override = x])
RemoveOverride == chosen.override # NoOverride /\ Choose([chosen EXCEPT !.override = NoOverride])

ResetToDefaults == Choose(Defaults)

\* A file that is not JSON or whose signature is wrong counts as the defaults.
Reload ==
    /\ chosen' = IF ecoFile = Unreadable THEN Defaults ELSE ecoFile
    /\ used' = used \ chosen'.disabled
    /\ UNCHANGED <<ecoFile, applications, values, outcomes, off, ecoFaults>>

RestartEco ==
    /\ chosen' = IF ecoFile = Unreadable THEN Defaults ELSE ecoFile
    /\ applications' = 0 /\ values' = FreshValues /\ outcomes' = <<>> /\ used' = {}
    /\ UNCHANGED <<ecoFile, off, ecoFaults>>

DamageEco ==
    /\ EcoFault /\ ecoFile' = Unreadable /\ off' = {}
    /\ UNCHANGED <<chosen, applications, values, outcomes, used>>

IsOff(x) == x \in chosen.disabled

\* The override if it is there and on, else the first that is on.
ResolveComponent ==
    LET on == {i \in DOMAIN Candidates : ~IsOff(Candidates[i])}
        first == {i \in on : \A j \in on : i <= j} IN
    /\ used' = IF \E i \in on : Candidates[i] = chosen.override THEN {chosen.override}
               ELSE {Candidates[i] : i \in first}
    /\ UNCHANGED <<chosen, ecoFile, applications, values, outcomes, off, ecoFaults>>

(***************************************************************************)
(* json_patch.py on one level of nesting.  A state of a patch is           *)
(* [doc, vals, ok]; an operation that raises makes ok FALSE.               *)
(***************************************************************************)
Failed(st) == [st EXCEPT !.ok = FALSE]
Seen(st, k) == LET e == st.doc[k] IN IF e.kind = "shared" THEN st.vals[e.of[1]][e.of[2]] ELSE e

ChangedValue(vals, a, i, e) == [vals EXCEPT ![a] = [@ EXCEPT ![i] = e]]

\* A change below a key reaches whoever shares what is there.
Changed(st, k, e) == LET old == st.doc[k] IN
    IF old.kind = "shared"
    THEN [st EXCEPT !.vals = ChangedValue(st.vals, old.of[1], old.of[2], e)]
    ELSE [st EXCEPT !.doc = [@ EXCEPT ![k] = e]]

Item(v) == v.of[1]
Reaches(e, at) ==
    \/ at = Whole /\ e.kind # "absent"
    \/ at >= 0 /\ at < Len(e.of) /\ e.kind = "list"
    \/ at \in DOMAIN e.of /\ e.kind = "object"

Got(e, at) == IF at = Whole THEN e ELSE Leaf(IF e.kind = "list" THEN e.of[at + 1] ELSE e.of[at])

\* What a missing parent becomes depends on whether the next part is a number.
Parent(e, at) == IF e.kind # "absent" THEN e ELSE IF at = Dash THEN Object(<<>>) ELSE List(<<>>)

SetPointer(st, k, at, v, ref) ==
    LET e == Parent(Seen(st, k), at)
        place == IF at = Dash THEN Len(e.of) ELSE at IN
    CASE at = Whole -> [st EXCEPT !.doc = [@ EXCEPT ![k] = IF v.kind = "leaf" THEN v ELSE ref]]
      [] at # Whole /\ e.kind = "object" ->
            Changed(st, k, Object([j \in DOMAIN e.of \cup {at} |-> IF j = at THEN Item(v) ELSE e.of[j]]))
      [] at # Whole /\ e.kind = "list" /\ place <= Len(e.of) ->
            Changed(st, k, List(InsertAt(e.of, place + 1, Item(v))))
      [] OTHER -> Failed(st)

RemovePointer(st, k, at) ==
    LET e == Seen(st, k) IN
    CASE ~Reaches(e, at) -> Failed(st)
      [] Reaches(e, at) /\ at = Whole -> [st EXCEPT !.doc = [@ EXCEPT ![k] = NoEntry]]
      [] Reaches(e, at) /\ e.kind = "list" -> Changed(st, k, List(RemoveAt(e.of, at + 1)))
      [] OTHER -> Changed(st, k, Object([j \in (DOMAIN e.of) \ {at} |-> e.of[j]]))

\* "replace" looks whether there is a value, and then sets as "add" does.
Operation(st, a, i) ==
    LET o == Addons[a].ops[i]
        v == st.vals[a][i]
        there == Reaches(Seen(st, o.key), o.at) IN
    CASE ~st.ok -> st
      [] st.ok /\ o.op = "add" -> SetPointer(st, o.key, o.at, v, Shared(a, i))
      [] st.ok /\ o.op = "replace" /\ there -> SetPointer(st, o.key, o.at, v, Shared(a, i))
      [] st.ok /\ o.op = "remove" -> RemovePointer(st, o.key, o.at)
      [] st.ok /\ o.op = "test" /\ there /\ Got(Seen(st, o.key), o.at) = v -> st
      [] OTHER -> Failed(st)

Copied(st) == [k \in ManifestKeys |-> Seen(st, k)]

\* apply_patch works on a copy, so that a patch that fails changes no manifest.
ApplyPatch(doc, vals, a) ==
    LET ops == Addons[a].ops
        after[i \in 0..Len(ops)] ==
            IF i = 0 THEN [doc |-> Copied([doc |-> doc, vals |-> vals]), vals |-> vals, ok |-> TRUE]
            ELSE IF ops[i].key \in AllowedKeys THEN Operation(after[i - 1], a, i) ELSE after[i - 1] IN
    after[Len(ops)]

\* One addon after the other; a patch that fails is reported and passed over.
Patch(r, a) ==
    IF IsOff(Addons[a].id) THEN r
    ELSE LET st == ApplyPatch(r.doc, r.vals, a)
             doc == IF st.ok THEN st.doc ELSE r.doc IN
         [doc |-> doc, vals |-> st.vals,
          log |-> Append(r.log, [id |-> Addons[a].id, failed |-> ~st.ok, before |-> Copied(r),
                                 after |-> Copied([doc |-> doc, vals |-> st.vals])])]

ApplyAddons ==
    LET patched[a \in 0..Len(Addons)] ==
            IF a = 0 THEN [doc |-> BaseManifest, vals |-> values, log |-> <<>>] ELSE Patch(patched[a - 1], a)
        r == patched[IF IsOff(Patched) THEN 0 ELSE Len(Addons)] IN
    /\ applications < MaxApplied /\ applications' = applications + 1
    /\ values' = r.vals /\ outcomes' = r.log
    /\ used' = {r.log[i].id : i \in DOMAIN r.log} \cup (IF IsOff(Patched) THEN {} ELSE {Patched})
    /\ UNCHANGED <<chosen, ecoFile, off, ecoFaults>>

AddonNext ==
    \/ \E x \in Switched : Disable(x) \/ Enable(x)
    \/ \E x \in ToSet(Candidates) : SetOverride(x)
    \/ RemoveOverride \/ ResetToDefaults \/ Reload \/ RestartEco \/ DamageEco
    \/ ResolveComponent \/ ApplyAddons

AddonSpec == AddonInit /\ [][AddonNext]_addonVars

\* What an operator has turned off, and the file says so, is off in the next
\* process and every later one, and neither resolved nor applied; and a patch of
\* which one operation fails leaves the manifest as it found it.
ChoicesHold ==
    /\ off \subseteq chosen.disabled
    /\ used \cap off = {}
    /\ \A i \in DOMAIN outcomes : outcomes[i].failed => outcomes[i].after = outcomes[i].before
=============================================================================
