-------------------------- MODULE FunctionRegistry --------------------------
(***************************************************************************)
(* VocabRegistry (vocab_registry.py): groups of synonyms.  A line of a     *)
(* pack's vocab.txt makes a group or merges the groups of its terms into   *)
(* the oldest of them.  Component phases load each pack's vocabulary once, *)
(* line by line, several threads at a time.                                *)
(***************************************************************************)
EXTENDS Naturals, Sequences, SequencesExt

CONSTANTS
    Terms,
    PackVocab,       \* [VocabPacks -> the lines of vocab.txt, sequences of terms]
    Loaders,         \* threads in load_pack_vocab
    MaxGroups        \* bound on _group_counter

VARIABLES
    termGroup,       \* _term_to_group: [Terms -> id, 0 for none]
    groups,          \* _groups: [ids -> [preferred, members]], NoGroup when there is none
    groupCount,      \* _group_counter
    loadedVocab,     \* _loaded_packs
    loader,          \* [Loaders -> [pack, line]]: Unloaded when there is nothing to do
    lines            \* history: the lines registered, in order

vocabVars == <<termGroup, groups, groupCount, loadedVocab, loader, lines>>

VocabPacks == DOMAIN PackVocab
NoGroup == [preferred |-> 0, members |-> {}]
Unloaded == [pack |-> "none", line |-> 0]

\* A line of vocab.txt that is registered has a term.
VocabConstants ==
    /\ MaxGroups \in Nat /\ "none" \notin VocabPacks
    /\ \A p \in VocabPacks : PackVocab[p] \in Seq(Seq(Terms) \ {<<>>})

VocabTypeOK ==
    /\ termGroup \in [Terms -> 0..groupCount] /\ groupCount \in 0..MaxGroups
    /\ \A g \in 1..MaxGroups : groups[g] # NoGroup =>
           groups[g].preferred \in groups[g].members /\ groups[g].members \subseteq Terms
    /\ loadedVocab \subseteq VocabPacks
    /\ \A l \in Loaders : loader[l] = Unloaded \/ loader[l].pack \in VocabPacks

VocabInit ==
    /\ termGroup = [t \in Terms |-> 0]
    /\ groups = [g \in 1..MaxGroups |-> NoGroup] /\ groupCount = 0
    /\ loadedVocab = {} /\ loader = [l \in Loaders |-> Unloaded]
    /\ lines = <<>>

\* register_group: the oldest group takes the others in and keeps its preferred term.
Touched(line) == {termGroup[t] : t \in ToSet(line)} \ {0}
\* Mutant: the newest one takes them in.
Newest(S) == CHOOSE g \in S : \A h \in S : h <= g

Oldest(S) == CHOOSE g \in S : \A h \in S : g <= h
MakeGroup(line) ==
    /\ Touched(line) = {} /\ groupCount < MaxGroups /\ groupCount' = groupCount + 1
    /\ groups' = [groups EXCEPT ![groupCount + 1] = [preferred |-> line[1], members |-> ToSet(line)]]
    /\ termGroup' = [t \in Terms |-> IF t \in ToSet(line) THEN groupCount + 1 ELSE termGroup[t]]
MergeGroups(line) ==
    LET g == Oldest(Touched(line))
        all == ToSet(line) \cup UNION {groups[h].members : h \in Touched(line)} IN
    /\ Touched(line) # {} /\ UNCHANGED groupCount
    /\ groups' = [h \in 1..MaxGroups |->
           IF h = g THEN [preferred |-> groups[g].preferred, members |-> all]
           ELSE IF h \in Touched(line) THEN NoGroup ELSE groups[h]]
    /\ termGroup' = [t \in Terms |-> IF t \in all THEN g ELSE termGroup[t]]

\* load_pack_vocab looks at _loaded_packs without a lock.
LoadPackVocab(l, p) ==
    /\ loader[l] = Unloaded /\ p \notin loadedVocab
    /\ loader' = [loader EXCEPT ![l] = [pack |-> p, line |-> 1]]
    /\ UNCHANGED <<termGroup, groups, groupCount, loadedVocab, lines>>

LoadLine(l) ==
    LET line == PackVocab[loader[l].pack][loader[l].line] IN
    /\ loader[l] # Unloaded /\ loader[l].line \in DOMAIN PackVocab[loader[l].pack]
    /\ MakeGroup(line) \/ MergeGroups(line)
    /\ lines' = IF line \in ToSet(lines) THEN lines ELSE Append(lines, line)
    /\ loader' = [loader EXCEPT ![l].line = @ + 1]
    /\ UNCHANGED loadedVocab

EndLoad(l) ==
    /\ loader[l] # Unloaded /\ loader[l].line > Len(PackVocab[loader[l].pack])
    /\ loadedVocab' = loadedVocab \cup {loader[l].pack}
    /\ loader' = [loader EXCEPT ![l] = Unloaded]
    /\ UNCHANGED <<termGroup, groups, groupCount, lines>>

VocabNext == \E l \in Loaders : LoadLine(l) \/ EndLoad(l) \/ \E p \in VocabPacks : LoadPackVocab(l, p)

VocabSpec == VocabInit /\ [][VocabNext]_vocabVars

\* resolve and is_synonym.
Preferred(t) == IF termGroup[t] = 0 THEN t ELSE groups[termGroup[t]].preferred
IsSynonym(t, u) == t = u \/ (termGroup[t] # 0 /\ termGroup[t] = termGroup[u])

\* The terms that the lines connect with t, and the first line among them.
Class(t) == {u \in Terms : \A S \in SUBSET Terms :
    t \in S /\ (\A i \in DOMAIN lines : ToSet(lines[i]) \cap S # {} => ToSet(lines[i]) \subseteq S) => u \in S}
FirstLine(class) == CHOOSE i \in DOMAIN lines : lines[i][1] \in class
    /\ \A j \in 1..(i - 1) : lines[j][1] \notin class

\* Synonyms are exactly the terms the lines connect, whatever the order and
\* the threads they came in by, and the preferred term is the first term of the
\* earliest line that is connected with the term.
VocabSound == \A t \in Terms : LET class == Class(t) IN
    /\ \A u \in Terms : IsSynonym(t, u) <=> u \in class
    /\ Preferred(t) = IF class = {t} THEN t ELSE lines[FirstLine(class)][1]

-----------------------------------------------------------------------------
(***************************************************************************)
(* FunctionRegistry (function_registry.py): the functions of the packs,    *)
(* with an index by tag, one by alias and one by permission.  A tag is     *)
(* stored under its preferred term, which VocabRegistry may change later.  *)
(***************************************************************************)

CONSTANTS
    Manifests,       \* records [name, pack, tags, aliases, permission]
    CorePacks, ProtectedAliases

VARIABLES
    entries,         \* _entries: [names -> manifest], NoManifest when not registered
    tagIndex,        \* _tag_index: [Terms -> sets of names]
    aliasMap,        \* _vocab_alias_map: [aliases -> name or "none"]
    permIndex,       \* _permission_id_index: [permissions -> name or "none"]
    contested,       \* history: aliases and permissions that two functions asked for
    drifted          \* history: functions with a tag whose preferred term changed

functionVars == <<entries, tagIndex, aliasMap, permIndex, contested, drifted>>

NoManifest == [name |-> "none", pack |-> "none", tags |-> {}, aliases |-> {}, permission |-> "none"]
Functions == {m.name : m \in Manifests}
Aliases == UNION {m.aliases : m \in Manifests}
RequiredPermissions == {m.permission : m \in Manifests} \ {"none"}
Registered == {f \in Functions : entries[f] # NoManifest}

\* The name of a function is that of its pack and its own, with a colon.
FunctionConstants == "none" \notin Functions

FunctionTypeOK ==
    /\ entries \in [Functions -> Manifests \cup {NoManifest}]
    /\ tagIndex \in [Terms -> SUBSET Functions]
    /\ aliasMap \in [Aliases -> Functions \cup {"none"}]
    /\ permIndex \in [RequiredPermissions -> Functions \cup {"none"}]
    /\ contested \subseteq Aliases \cup RequiredPermissions /\ drifted \subseteq Functions

FunctionInit ==
    /\ entries = [f \in Functions |-> NoManifest]
    /\ tagIndex = [t \in Terms |-> {}]
    /\ aliasMap = [a \in Aliases |-> "none"] /\ permIndex = [p \in RequiredPermissions |-> "none"]
    /\ contested = {} /\ drifted = {}

NormalizedTags(m) == {Preferred(t) : t \in m.tags}
AllowedAliases(m) == IF m.pack \in CorePacks THEN m.aliases ELSE m.aliases \ ProtectedAliases

AddToTagIndex(m) == tagIndex' =
    [t \in Terms |-> IF t \in NormalizedTags(m) THEN tagIndex[t] \cup {m.name} ELSE tagIndex[t]]

\* An alias that is taken keeps its function, ...
RegisterVocabAliases(m) == aliasMap' =
    [a \in Aliases |-> IF a \in AllowedAliases(m) /\ aliasMap[a] = "none" THEN m.name ELSE aliasMap[a]]

\* ... a permission that is taken changes hands.
AddToPermissionIndex(m) == permIndex' =
    [p \in RequiredPermissions |-> IF p = m.permission THEN m.name ELSE permIndex[p]]

\* register: a name that is taken is skipped.
RegisterFunction(m) ==
    /\ entries[m.name] = NoManifest
    /\ entries' = [entries EXCEPT ![m.name] = m]
    /\ AddToTagIndex(m) /\ RegisterVocabAliases(m) /\ AddToPermissionIndex(m)
    /\ contested' = contested \cup {a \in AllowedAliases(m) : aliasMap[a] # "none"}
                              \cup {p \in {m.permission} \cap RequiredPermissions : permIndex[p] # "none"}
    /\ UNCHANGED <<drifted, vocabVars>>

\* unregister_pack: tags are normalised again, as the vocabulary is by now.
UnregisterPack(pack) ==
    LET gone == {f \in Registered : entries[f].pack = pack} IN
    /\ gone # {}
    /\ entries' = [f \in Functions |-> IF f \in gone THEN NoManifest ELSE entries[f]]
    /\ tagIndex' = [t \in Terms |-> tagIndex[t] \ {f \in gone : t \in NormalizedTags(entries[f])}]
    /\ aliasMap' = [a \in Aliases |-> IF aliasMap[a] \in gone THEN "none" ELSE aliasMap[a]]
    /\ permIndex' = [p \in RequiredPermissions |-> IF permIndex[p] \in gone THEN "none" ELSE permIndex[p]]
    /\ UNCHANGED <<contested, drifted, vocabVars>>

ClearFunctions ==
    /\ Registered # {}
    /\ entries' = [f \in Functions |-> NoManifest]
    /\ tagIndex' = [t \in Terms |-> {}]
    /\ aliasMap' = [a \in Aliases |-> "none"] /\ permIndex' = [p \in RequiredPermissions |-> "none"]
    /\ contested' = {} /\ drifted' = {}
    /\ UNCHANGED vocabVars

VocabStep ==
    /\ VocabNext
    /\ drifted' = drifted \cup {f \in Registered : \E t \in entries[f].tags : Preferred(t)' # Preferred(t)}
    /\ UNCHANGED <<entries, tagIndex, aliasMap, permIndex, contested>>

FunctionNext ==
    \/ VocabStep \/ ClearFunctions
    \/ \E m \in Manifests : RegisterFunction(m) \/ UnregisterPack(m.pack)

FunctionSpec == VocabInit /\ FunctionInit /\ [][FunctionNext]_<<vocabVars, functionVars>>

\* Every index leads to registered functions that have the tag, alias or
\* permission, and misses one only after a competing claim or a change of the
\* preferred term of one of its tags.
LookupsSound ==
    /\ \A f \in Functions \ drifted : \A t \in Terms :
         f \in tagIndex[t] <=> f \in Registered /\ t \in NormalizedTags(entries[f])
    /\ \A a \in Aliases :
         /\ aliasMap[a] # "none" => aliasMap[a] \in Registered /\ a \in AllowedAliases(entries[aliasMap[a]])
         /\ a \notin contested => \A f \in Registered : a \in AllowedAliases(entries[f]) => aliasMap[a] = f
    /\ \A p \in RequiredPermissions :
         /\ permIndex[p] # "none" => permIndex[p] \in Registered /\ entries[permIndex[p]].permission = p
         /\ p \notin contested => \A f \in Registered : entries[f].permission = p => permIndex[p] = f
=============================================================================
